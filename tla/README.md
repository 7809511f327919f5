# Midaz: models and proofs

TLA+ models of the concurrent core of Midaz, TLC configurations that check them on small
instances, and TLAPS proofs about the balance store, the write path, overdraft, the tracer's
reservations and validations, and rule synchronisation. Paths below are relative to `src/`; `L` is
`components/ledger/internal`, `T` is `components/tracer/internal`. `PROJECT.json` maps every
definition that models code to its lines.

## 1. The system

Two services. **ledger** keeps balances hot in Redis (moved by one Lua script), cold in PostgreSQL
(written behind by workers), and persists transactions through RabbitMQ with a Redis backup queue
as a safety net. **tracer** evaluates rules and limits, and lends capacity of a limit to a ledger
transaction as a two-phase reservation.

| Part | State | Operations | What makes it hard |
|---|---|---|---|
| Balance cache and script (`L/adapters/redis/transaction`) | JSON blob per balance with Version; schedule ZSET; backup hash | read balances, `ProcessBalanceAtomicOperation`, rollback | requests work on copies read earlier; blobs expire; amounts are decimal strings |
| Balance sync (`L/bootstrap/balance_sync.*`, `sync_balances_batch.go`) | schedule, claim locks, worker buffers, rows | claim, fetch, `UpdateMany`, remove | competing workers, lost locks, crashes, mutation during a flush |
| Balance administration (`update_balance.go`, `delete_*balance*.go`) | settings in row and blob, soft deletion | update settings, delete one, delete all of an account | check-then-act across two stores |
| Overdraft and operation records (`transaction_overdraft_enrichment.go`, `transaction_create.go`, script) | OverdraftUsed, companion balance, records | enrich, accrue, repay, reverse on cancel, record | amounts computed in Go from old copies, settings that change meanwhile |
| Sends, fees, routes (`pkg/mtransaction`, `components/ledger/pkg/fee`, `validate_accounting_routes.go`) | configuration | distribute amounts and shares, charge fees, admit and classify | rounding, order of passes, rules spread over three places |
| Transaction requests (`transaction_create.go`, `transaction_state_handlers.go`) | idempotency keys, pending locks, write-behind cache | create, hold, commit, cancel, revert | retries, commit against cancel, crash between two steps |
| Persistence (`write_transaction.go`, `create_balance_transaction_operations_async.go`, `create_bulk_*`, `redis.consumer.go`) | queue, rows, operations, backup entries, quarantine | publish, consume one or many, retry, dead-letter, replay, quarantine | duplicated and late messages, cron racing consumers |
| Reservations (`T/services/reservation_service.go`, `L/adapters/http/in/transaction_reservation_anchor.go`) | counters, reservation rows | reserve, confirm, release, expire, clean up | lost and late calls, reaper racing confirm |
| Validation and limits (`T/services/validation_service.go`, `limit_checker.go`) | the same counters, decisions, audit events | validate, count, deny and roll back, record | duplicate requests, row locks, lost commits |
| Rules (`T/services/rule_service.go`, `cache`, `workers`) | rows, one cache per process and tenant | rule commands, warm-up, polling, eviction | watermark against late commits and skewed clocks |
| Onboarding, CRM, streaming | documents | record keeping | mostly sequential |

What each part must guarantee: the store behaves like one ledger and catches up (sync); a row never
goes back to an older version; a request moves balances once (idempotency), a hold is settled once,
what moved is persisted and what is persisted moved (write path); money is conserved, overdraft
grows only within its limit, is covered by the companion, and the records tell what happened
(overdraft); a send divides into what was asked, fees neither create nor lose money, and an accepted
transaction is classified (sends, fees, routes); usage counters agree with reservations and
validations, limits are not over-committed, every reservation ends, an answered ALLOW is backed
(tracer); no rule change is missed (rules).

## 2. Modules

| Module | Models | State and actions |
|---|---|---|
| `LedgerBalances` | the promise of the balance store | one amount per balance; atomic unit transfers |
| `BalanceSync` | cache, script, schedule, flushers, rows | `hot`/`cold` are blob and row, `schedule`/`legacy` the ZSETs, `locks` the claim keys, `req` the copies a request holds, `flusher` a worker's buffer. One action per script call, SQL statement or Redis command group; `log` is history only |
| `BalanceAdmin` | settings updates and deletes beside `BalanceSync` | the row update, the GET and the SET of the cached blob, and check and delete are separate steps |
| `Overdraft` | operations of a request, enrichment, the script's arithmetic, overdraft settings, operation records | `GetBalances` takes the copies, `ProcessBalanceAtomicOperation` builds the batch from them (`BuildBalanceOperations`, `EnrichOverdraftOperations`) and folds `Step` over it; the first refusal rolls back. `BuildOperations` derives the records from the script's answer. `Update` changes limit or permission beside requests that read the old ones, judging by a row (`Flush`) that lags the cache |
| `SendDistribution` | `CalculateTotal`, `ValidateSendSourceAndDistribute` | operators: amounts, shares, remaining, the double-entry sides of a send |
| `Fees` | fee packages: choice, calculation, split, correction, rebuilt send | operators, over `SendDistribution` |
| `DecimalStrings` | addition and subtraction of decimal strings in the script | operators on digit sequences, checked against integer arithmetic |
| `AccountingRoutes` | rules for operation routes, the gate for transactions, the rubric of each record | operators; a configuration is a set of routes |
| `TransactionWrite` | create/commit/cancel/revert, queue, single and bulk consumers, backup cron | balances are reduced to how often each stage of a transaction moved them; each handler step between two externally visible effects is an action; `Faults` names the places where a run may fail. A request served by a pod in synchronous mode (`SyncHandlers`) writes where the others publish: it removes its backup entry without comparing the status, and a settler neither updates the row early nor the write-behind cache |
| `Reservation` | ledger anchor and tracer reservation service | counters, rows, messages in flight; each tracer operation is one database transaction and one action. `retried` and `wiped` are histories |
| `Validation` | the validation path beside `Reservation` | extends it: both spend the same counters. Every statement of the validation's database transaction is an action; `call[v]` holds what is not committed and which rows are locked |
| `LimitPeriods` | period keys, resets, counter expiry, scope keys | operators on an hour-grained calendar |
| `Evaluation` | | the input chosen for one of the operator modules |
| `RuleSync` | rule commands, caches, polling worker, tenant supervisor | rows carry status and stamp, the cache only stamps; commands commit late and write the cache of their own process; a PATCH that changes nothing keeps the stamp it read. `rewound` and `unloaded` are histories |
| `BalanceSyncProofs`, `TransactionWriteProofs`, `TransactionOnceProofs`, `OverdraftScriptProofs`, `OverdraftProofs`, `ValidationProofs`, `RuleSyncProofs` | theorems | see section 5 |
| `Sums` | lemmas | what one more or one less element does to a sum over a finite set |
| `MC*` | instances for TLC | |

`BalanceAdmin` extends `BalanceSync`, and `Validation` extends `Reservation`: each pair is composed
on one store. `BalanceSync` and `Overdraft` describe the same script at two levels: the first keeps
the storage protocol and moves one unit, the second keeps the arithmetic and drops the storage (that
a script sees one consistent state is what the refinement in section 5 establishes).
`TransactionWrite` treats the script as one atomic effect for the same reason. The operator modules
have no state of their own. `Evaluation` gives them one variable, `input`: in the first state of the run
of the module whose amounts or counters they produce, an input of such a step may be chosen, the step's
property judges it, and the behaviour ends.

Definitions called a *seeded fault* are not part of any specification; they exist to show that the
property named with them in `PROJECT.json` notices that fault.

## 3. Runs

| Run | Question | Result |
|---|---|---|
| `balance_sync` | requests on two balances, a worker and a legacy drainer that compete, one failure, expiring locks and blobs, fairness | types, `UnsyncedIsScheduled`, `CopiesAreLedgerStates`, `ColdNeverRegresses` and refinement of `LedgerBalances` hold; the row catches up with the blob (`Converges`) |
| `balance_admin` | an updater, deletes, an outage longer than the blob TTL | no flush, however late, writes into a deleted row |
| `settings_rewrite` | does a settings update keep the live amounts? | **violated**: GET, script, SET |
| `overdraft` | a debit, two holds and a repayment on one overdraft account, route validation switched at will, overdraft disabled meanwhile | money is conserved per account, holds are backed, overdraft grows only within the limit in force, the companion covers it; the records lead from the old balance to the new one and show the whole amount |
| | the pure steps around the script, on the inputs of `MCOverdraft` | sends resolve to what their entries ask for, fees conserve, a package scoped elsewhere never charges, decimal strings add and subtract exactly, accepted transactions are classified, accepted holds can be settled (a cancel as far as section 4 says) |
| `pending_destination` | does a hold leave its destination alone? | **violated**: the repayment branch runs on CREDIT + PENDING |
| `transaction_write` | a direct and a held create under one key and two settlers, or two reversals of a direct transaction; a consumer, the cron, pods in either mode, two faults | idempotency, single settlement, single reversal, durability, no phantom rows |
| `transaction_recovery` | one settler, batches of two, two faults, fairness | what moved is persisted or quarantined; settled rows stay settled |
| `backup_cleanup` | does cleanup keep a newer stage? | **violated**: compare and delete are two commands |
| `reservation` | two transactions on two limits, lost, late and repeated calls, reaper, counter cleanup, fairness | counters match rows, limits hold, all-or-nothing, confirmed only if committed, terminal is final, reservations end |
| `reserve_retry` | does a repeated reserve collapse onto the first? | **violated**: the counter is reserved twice |
| `validation` | three validations, two with one request id, and a retried reservation on two limits; database errors, lost acknowledgements, crashes, counter cleanup | an ALLOW is recorded and audited, usage is accounted for exactly, the guard holds, answers agree with the record, no cycle of row locks |
| | period and scope keys on a calendar | usage that belongs together shares a counter, exactly until the announced reset; the expiry a validation writes lies past it |
| `rule_sync` | rule commands on two processes, warm-up, two worker incarnations, tenant start and stop, a crash | for the rules a poll can be held to (`Polled`): no change is outside the next poll window while the cache lacks it, and each cycle leaves every settled rule current |

Each violated property states a sentence of the repository that the finding quotes.

Some properties are qualified by what the runs found. `CountersMatchRows` speaks of limits that no
repeated reserve touched and whose counter the cleanup did not delete (`RepeatsCountOnce`, without
the first qualification, is the violated one). `ReservationsEnd` allows a deleted counter as an
excuse: releasing a reservation without its counter fails, and the failure ends every sweep before
the reservations behind it. `RecordsFollowBalances` excepts the Available-after of a routed cancel
that repaid overdraft (section 4). `RecordsCoverAmount` demands equality only when no balance changed
between read and script; otherwise the companion record may be larger than needed, never smaller.
`NothingMissed` and `CycleCatchesUp` speak of `Polled`, which leaves out two kinds of rules until their
row is written again with a new stamp. `rewound`: `UpdateRule` stamps only a change, so a PATCH that
names the action the rule already has writes back the whole entity it read, beside an activation say,
under its old stamp, which no window contains. `unloaded`: the tenant's worker took over a bucket that
a command had marked as synchronised before it was loaded, or the eviction that ends the previous
incarnation emptied the bucket of the new one. TLC finds a missed rule as soon as either exception is
dropped. Single-tenant processes have no `unloaded` rules. `CountersSpanTheirPeriod` is about the
expiry that a validation writes; on a counter that is reserved as well, `Reserve` overwrites it with
the TTL of the reservation, and the cleanup may delete the counter before its period ends (`wiped`).

### Bounds

* Balances, requests, workers: two or three of each. A conflict needs one mutation between a claim
  and its removal, or one flush between a read and a load; two actors of each kind plus one bystander
  produce all of them. `MaxFaults` bounds crashes and failures in one behaviour, not where they strike.
* `BalanceSync` versions and scores need no cap: each request ends after one script.
* `TransactionWrite`: `MaxRetries` 1 and `QuarantineThreshold` 2 reach retry, dead letter, a counted
  attempt and quarantine. `MaxReplays` bounds only replays that overtake a message in flight. A batch
  of two holds two stages of one transaction, or a duplicate.
* `Overdraft`: amounts 1 and 2, funds 1 and limit 3, so that every debit may or may not overdraw and
  the limit is both met exactly and exceeded; one settings update, anywhere,
  which disables overdraft and which the row accepts up to a usage of one.
* `Reservation`: two limits, one matched by both transactions; `MaxAmount` lets either but not both
  take the shared one. One repeated call.
* `Validation`: two calls with one request id race to record; the third competes for the same limits,
  which every call locks in one order.
* `RuleSync`: five ticks cover a commit that is late by `Lag`, the cycle that misses it and the one
  that must find it; multi-tenant behaviours have four ticks and one command.
* Operators: sends of one to three entries with shares that divide and shares that round; packages of
  one or two fees; decimals of up to four significant digits, in which
  carries and borrows run through and end in every place; routes of every type with every entry shape the rules tell apart, up to three to a transaction route, and
  up to three legs; days around ISO-week years, leap days and month ends.
* Symmetry is used only in runs without liveness whose symmetric sets are interchangeable.
* Deadlock is not checked by TLC: the finite sets of requests come to an end. `NoDeadlock` states the
  absence of lock cycles in `Validation`.

### Fairness

* Sync: collectors poll for ever and each step has a deadline, so every flusher step is weakly fair;
  Redis expires locks. Crashes and failed statements are not fair and are bounded.
* Write path: a started request runs to its end unless it crashes; consumers and the cron keep
  running. Starting a request, crashing and failing are not fair.
* Reservations: time passes and the reaper's ticker fires. Calls between the services are not fair:
  they may all be lost.

## 4. Assumptions the results rest on

* `HotExpires` keeps a blob whose mutation is still scheduled, unless `Outage`. The blob lives 3600 s
  after its last mutation; with a longer outage of the flush, `UnsyncedIsScheduled` fails. It also
  waits until whoever holds a copy read the last mutation: no request takes longer than the TTL. The code
  sets no such limit; a request that does outlive it would load its older copy, and is not modelled.
* The instance of `overdraft` has no hold *to* an account with overdraft. With one,
  `AccountsReflectTransactions` and `CompanionCoversUsage` both fail (see `pending_destination`), and
  `RecordsFollowBalances` too: the change of the destination is not among the records of a hold or a
  cancel (`Unlisted`).
  Overdraft is enabled at the start: switching it on beside a request that read it off lets the script
  overdraw without a companion operation, and `CompanionCoversUsage` fails. It is in such behaviours
  that a cancel reads the overdraft of its hold off the source's own record (`HeldOverdraft`).
  `Overdraft` leaves the gate of `AccountingRoutes` out, so some cancels it lets pass are refused there.
* `DecimalStrings` compares magnitudes exactly. The script compares them as Lua doubles, which agrees
  below about 16 significant digits.
* `SendsResolveAsAsked` is about one pass of the distribution where a leg takes what remains. A pass
  stores the remaining amount in the leg; a second pass (after fees, or at commit) then counts it as an
  amount and is left with nothing to check, so a send that no longer adds up is accepted.
* `RuleSync` assumes `Overlap >= 3 * Lag + 2 * Skew`; with less, TLC finds a change that no cycle sees.
* `Reservation` is checked with whole amounts (`Scale = 1`).
* Keys of clients do not expire in `TransactionWrite` (their TTL is the client's choice, 300 s without
  one): `IdempotentMoves` holds while a key lives. Keys of reversals do expire (`KeyExpires`).
* `TransactionWrite` is checked with the fault places of `MCFaults`. Outside them TLC finds:
  * a lost reply of the script on create: the key is given back although balances moved
    (`IdempotentMoves`, `MovesAreDurable` fail);
  * a crash between seed and script: the cron persists a transaction that never moved
    (`PersistedWasMoved` fails);
  * a crash (before or after it has updated the row) or failed build after a settlement moved
    balances, or consumers slower than the lock TTL (`PromptConsumers = FALSE`): the hold can be settled again (`SettledOnce` fails);
  * a hold that is dead-lettered, or whose publication and direct write both fail, or whose handler
    crashes after publishing the cache entry, and is then settled: the settlement overwrites its only
    backup (`MovesAreDurable` fails for the PENDING stage).

Statements that look natural, are not promised by a document, and do not hold.

Ledger:
* cache and row agree on settings after two concurrent updates; only empty balances are deleted;
* the companion balance *equals* the overdraft in use (a stale debit overstates it; a commit does not
  reduce it); usage stays below a limit that is lowered later;
* free funds and used overdraft never coexist (cancel of a hold whose operations are no longer in the
  write-behind cache);
* the CREDIT record of a routed cancel shows the Available the script left: `buildDoubleEntryCanceledOps`
  computes it from the balance before, so it is too high by the overdraft that was repaid;
* the legacy ZSET is drained by its drainer: removal works on the new ZSET;
* a reversal is unique for ever: its key is a hash of its content, so reversals of two identical
  transactions collapse while it lives, and a reversal replayed by the cron is stored without its parent,
  after which a second one is accepted;
* a batch reports every status change: one with inserts and updates emits no event for the updates, one
  with duplicates only announces them as updated;
* a package without a segment applies where no sibling matches: the mere presence of a sibling with the
  same route and another segment excludes it. An account named twice on a side collapses when a send is
  rebuilt with fees, and its balance key and route are lost;
* an accepted hold can always be cancelled: a cancel that repays a source's overdraft which the hold did
  not use, or without knowing the operations of the hold (they are no longer in the write-behind cache),
  is refused under route validation. Its refund companion looks its route up among the destinations,
  where the source has none. `HoldsCanBeSettled` compares the same legs and leaves these cancels out;
* the route cache follows the route: a change of accounting entries alone does not reload it, and it has
  no expiry.

Tracer:
* the usage of a committed transaction is kept when its confirm is lost;
* reserved plus committed usage stays within the limit when the validation path shares the counter (its
  guard looks at committed usage only); a counter outlives its open reservations; a reservation below one
  unit (`Scale` above 1) ends;
* a custom limit starts afresh when its dates are edited (its key stays "custom"); a window that crosses
  midnight has one counter (it has two); limits for different transaction types never share a counter
  (the type is not in the scope key);
* a rule row overwritten with an older or equal stamp reaches the cache; two updates of one rule both
  survive (the entity is written whole).

## 5. Proofs

Every theorem holds for all values of the constants that the named assumptions admit: any sets of
actors and objects, any number of failures, and any bound that only keeps TLC's instances finite.

**Balance store** (`BalanceSyncProofs`; assumptions
`BalancesAssumption`, `PipelineAssumption`). `MutationsStayScheduled`, `CopiesCorrect` and
`StoreImplementsLedger` also assume `~Outage` (section 4); the others do not.

* `TypesCorrect`: `Spec => []TypeOK`. Uses that a request that has read holds copies of both its
  balances (`RequestsHoldCopies`).
* `RowsNeverRegress`: from the types alone, by the version guard of `UpdateMany`.
* `MutationsStayScheduled`: `Spec => []UnsyncedIsScheduled`. The invariant is not inductive: removal
  compares scores, so one needs that equal scores mean an unchanged blob
  (`ClaimedScoreMeansUnchanged`), hence that a new score is one nobody claimed (`ScoresArePast`), and
  that a copy loaded into an empty slot is no newer than the row (`SeedsAreOld`). `SyncInv` is their
  conjunction, preserved by requests, flushers and expiry (one lemma each).
* `CopiesCorrect` and `StoreImplementsLedger`: every copy is the state that the history records for
  its version, and the newest state is what a reader is served (`HeadIsServed`). Under the mapping
  "the blob if there is one, else the row", a script step is a `Transfer` and every other step, of
  requests, flushers or expiry, a stutter. `LedgerInv` adds these two facts to `SyncInv`.

* `DeletedRowsStay`: `AdminSpec => DeletedRowsAreFrozen`. Every statement that writes rows looks at
  `deleted` itself, so the types of the rows are all it needs (`RowsInv`).

**Write path** (`TransactionWriteProofs`, and on top of it `TransactionOnceProofs`;
`RequestsAssumption`). The theorems hold for any requests, keys, workers, batch size, retries and
replays, in either mode of the pods and of the consumers, and for any set `Faults` that the hypotheses of the theorem leave. The
hypotheses about failures exclude places where a failure breaks the property, as TLC shows (section 4);
the last two say how keys are chosen. `MCFaults` and `MCKey` satisfy all of them:

| Hypothesis | Excludes |
|---|---|
| `SeedsAreUsed` | a crash between the seed of a backup entry and the script |
| `RepliesArrive` | a script reply that is lost on create: the handler takes it for a refusal |
| `SettlementsFinish` | a commit or cancel that is interrupted or dropped after its balances moved (whether or not it has updated the row); consumers slower than the lock TTL |
| `HoldsAreSafe` | a hold that is visible to a commit and then neither published nor written |
| `ReversalsFinish` | a reversal that is interrupted or dropped after its balances moved, or whose message outlives its key (300 s). Says nothing where nobody reverts |
| `ReversalKeys` | reversals of one transaction under different keys (the key is a hash of the content, and they have the same content), and a client key that equals one of these hashes |
| `ReversalsDiffer` | two transactions whose reversals have the same content: the key of one then answers for the other |

* `OnlyMovesArePersisted` (`SeedsAreUsed`): `PersistedWasMoved`. It is not inductive: a row comes from a
  message, a message from a request or a replay, a replay from a backup entry, and an entry from a
  request that has yet to run the script. `WriteInv` says of every carrier (requests, backup entries,
  replays, messages, the batches of workers, rows) that its stage moved, or that its request is just
  before the script. One lemma per variable lists the steps that change it; the rest of the argument
  only looks at those.
* `HoldsSettleOnce` and `SettledRowsAreFinal` (and `SettlementsFinish`): `SettledOnce`, `SettledIsFinal`.
  The lock alone does not suffice, since it is released and expires. `SettleInv` adds that at most one
  settler per hold is past the lock, and that once balances moved no later request finds both the lock
  free and the transaction PENDING: until the row is settled, a message on its way to it exists, and the
  lock lives; and no settler that read PENDING is still waiting when it goes. It rests on `WorkInv`: a
  create request moves once, and a worker that says it has written a row has written it.
* `ReversalsAreUnique` and `KeysAdmitOneMove` (`SeedsAreUsed`, `RepliesArrive`, `ReversalsFinish`,
  `ReversalKeys`; the second also `ReversalsDiffer`): `RevertedOnce`, `IdempotentMoves`. A request that
  has claimed its key keeps others out until its key expires, and keys of reversals do expire; from then
  on the lookup of children in the table does. `KeyInv` states the handover: the key is taken, or the
  row of the reversal is in the table with its parent and nobody is between lookup and claim (`Past`).
  It needs that the row was inserted by the message of the request and not by the cron, whose message
  has no parent (`ReversalsSound`).
* `NoMoveIsLost` (`SeedsAreUsed`, `RepliesArrive`, `SettlementsFinish`, `HoldsAreSafe`):
  `MovesAreDurable`. Entries are removed by cleanups that compare only the status, and overwritten by
  later stages. `DurableInv` says that a cleanup follows persistence (`CleaningSound`), that a create
  request finds its entry when it runs the script (`EntriesKept`), and for each stage what keeps it: for
  a direct transaction the entry, the table or the quarantine; for a hold the same until somebody can
  see it, and afterwards a message or the table; for a settlement its request, a message or the table.

**Overdraft** (`OverdraftScriptProofs`, and on top of it `OverdraftProofs`; `TransfersAssumption`). The
theorems hold for any accounts, transactions, amounts, limits and settings updates, and any order of
reads, scripts and updates.

`OverdraftScriptProofs` is about one request. The script folds `Step` over a batch, a recursive function;
a run of the batch (`Runs`) is obtained by induction over its length, and a balance sees just the
operations that name it (`NoOperation`, `OneOperation`, `TwoOperations`). `OperationsAre` lists the
batch: one or two operations on the source, one on the destination, then at most one companion for each.
`ScriptEffect` combines the two: what an accepted batch does to every balance.

* `HoldsBacked`: `Spec => []HoldsAreBacked`. `Inv` adds the types (a request's stage is one its
  transaction can take: between reading and the script nobody else changes its status) and `Sound`: an
  account without a companion uses no overdraft. `SourceEffect` shows that the source's OnHold moves by
  the amount in each stage, with route validation or without, and `SettledTotals` that the sum over the
  pending transactions moves alike.
* `OverdraftStaysWithinLimit`: `Spec => WithinOverdraftLimit`, from the same invariant: only a short
  operation accrues, and the script judges it by the settings in the cache.
* `AccountsReflect`: `AccountsReflectTransactions`, under `PlainDestinations`: no pending transaction
  credits an account with overdraft. Without it the property is false (`pending_destination`).
* `CompanionCovers`: `CompanionCoversUsage`, under `PlainDestinations` and `NeverReenabled` (section 4;
  with a second update that enables overdraft, TLC finds the accrual without a companion). The companion
  operation is computed from a copy, so the argument is about versions. `ReadEarlier` says that a copy is
  older than the cache or equal to it, and that whoever allows overdraft now did so when the request
  read. A batch that accrues or repays is accepted only if the version is the one read (or, in the
  second half of a cancel, one more, which its own first half explains). So the split was computed from
  this very balance and equals the shortfall (`SameShortfall`) or the repayment (`SameRepayment`). A stale
  split that meets no accrual only raises the companion; one that meets no repayment lowers it where
  nothing is in use, and the script refuses to take it below zero.

Both hypotheses hold of the instance of `overdraft`, whose updates only disable.

**Reservations** (`ValidationProofs`; `TransactionsAssumption`, any `Scale`, either posture of the
anchor). `ReservationInv` is the conjunction of `ReservedOnAllOrNone`'s and `ConfirmedOnlyCommitted`'s
invariants with two facts they need: a counter that does not exist counts nothing (the insert branch of
the reserve statement has no guard), and a confirm is in flight only for a committed transaction.
`UsageWithinLimit` and `CountersAgreeWithRows` (`CountersMatchRows`) extend it to `CounterInv`: seen
from one limit, a step reserves one transaction, ends one, deletes the counter or leaves all as it is
(`CounterStep`), and each changes counter and sum of rows by the same whole amount. `FirstTerminationWins`
follows from the types: all terminations look for RESERVED.

**Validations** (same module; `ValidationsAssumption`). `AllowsAreBacked` and
`RepeatedRequestsAgree` need that a row waiting for its commit is the only one of its request
(`OneInsertPerRequest`, the unique index), that a call which rolled back no longer carries an ALLOW and
finds its own record if it wrote one (`RecordedIsOwn`), and that a recorded ALLOW is audited. The steps
of reservations beside them change none of this. `UsageIsExact` (`UsageIsAccounted`) and
`AllowedRequestsFit` (`AllowedWithinLimit`) need what a call has found but not committed: the counters
it took are locked by it alone (`LocksExclusive`) and still have the room it saw (`TakenFits`), so that
its commit adds its cost to each of them and to the allowed requests at once. `ValidationsDoNotDeadlock`
(`NoDeadlock`): along a chain of waits the counters waited for rise in rank, because each call takes its
counters in ascending order, and a call that others wait for over the unique request id waits for nobody.

Sums over rows, requests and transactions are `SumFunctionOnSet`, a fold over a set. `Sums` proves for every finite
set how it changes with one element, by taking a smallest set that is a counterexample.

**Rules** (`RuleSyncProofs`; `TimingAssumption`, which holds the inequality of section 4). Neither
`NoChangeIsMissed` nor `CyclesCatchUp` is inductive: what the bucket lacks depends on copies of rows
under way to it. The argument is about stamps, and about the rules
that are not `rewound`. A row written at time t or later has a stamp of at least
t - `Lag` - `Skew`, because its writer took the stamp at most `Lag` earlier from a clock at most `Skew`
off. Whatever is written into the bucket at t (by a command, the warm-up or a cycle) was current at most
`Lag` earlier. So a rule the bucket does not show has a stamp of at least t - 2 `Lag` - `Skew`. A cycle
ends within `Lag` of its poll and moves the mark no further than `Lag` + `Skew` past it, so the next
window, which begins `Overlap` before the mark, contains that stamp. `RuleInv` states this for each carrier (`CommandOK`,
`LoadOK`, `FetchedOK`, `ClassifiedOK`) and for the bucket at each step of a worker (`LoadedRecent`,
`ClassifiedRecent`, `AppliedRecent`, `MarkOK`), each with `rewound` as an alternative; that of a worker
leaves out `unloaded` as well.

Checked by TLC only: liveness everywhere (TLAPS does not reason about ENABLED and fairness), and the
properties that are about recursive computations: the records of `Overdraft` (`RecordsFollowBalances`,
`RecordsCoverAmount`), which are filtered from sequences of any length, the sums of `Fees` and
`SendDistribution`, the digits of `DecimalStrings`, the calendar of `LimitPeriods`, and the rules of
`AccountingRoutes`, whose quantifiers range over whole configurations.

## 6. Plan

Next, in this order:

1. Theorems about `AccountingRoutes`, `LimitPeriods` and the operation records of `Overdraft`.
2. `Overdraft`: several sources and destinations, the same balance twice, the companion's creation.
3. Limit life cycle beside `Validation`; scopes and evaluation order of rules.
4. Coherence of the route cache; the audit chain as far as Go code determines it.
5. `TransactionWrite`: events and metadata of a batch.

## 7. Not modelled

The expression language, field encryption, CRM and onboarding records, event streaming, HTTP and gRPC
transport, tenancy, configuration and telemetry: external libraries, pure I/O or single-row record
keeping. They are the greater part of the code by lines: repositories, handlers, mapping and validation
of single documents, whose only property is that they store what they were given. The hash of the audit
chain is computed by database triggers; the sequence gives out ids before the trigger takes its lock,
while trigger and verification both follow the ids. `PROJECT.json` lists every part with its status.

## Running

    tlc -workers 2 -config MCBalanceSync.cfg MCBalanceSync
    tlapm BalanceSyncProofs.tla

and likewise for the other configurations and proof modules. A proof module takes up to fifteen minutes.
Leaves that need no arithmetic name Zenon where the SMT encoding of their context is what takes long.
