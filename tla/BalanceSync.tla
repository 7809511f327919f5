---------------------------- MODULE BalanceSync ----------------------------
(***************************************************************************)
(* The hot/cold balance store of the ledger and the write-behind pipeline  *)
(* between its halves.                                                     *)
(*                                                                         *)
(*   hot       the balance JSON blobs in Redis, mutated only by            *)
(*             balance_atomic_operation.lua                                *)
(*   cold      the rows of the PostgreSQL table "balance"                  *)
(*   schedule  the ZSET schedule:{transactions}:balance-sync-v2, whose     *)
(*             score is the time of the last mutation of the member        *)
(*   legacy    the pre-v3.6.2 ZSET the LegacyBalanceSyncDrainer reads      *)
(*   locks     the claim locks lock:{transactions}:balance-sync:<member>   *)
(*                                                                         *)
(* A request reads balances (GetBalances), then runs the Lua script, which *)
(* moves one unit from a balance to another.  A worker claims due members, *)
(* buffers them, reads their blobs (MGET), writes them to PostgreSQL where *)
(* the stored version is older (UpdateMany) and removes the members whose  *)
(* score is still the claimed one.  Between any two of these steps the     *)
(* others run, locks expire, workers crash and cached blobs expire.        *)
(***************************************************************************)
EXTENDS Integers, Sequences, FiniteSets

CONSTANTS
    Balances,       \* the Redis keys of the balances
    Requests,       \* transaction requests
    Workers,        \* BalanceSyncWorker collectors
    Drainers,       \* LegacyBalanceSyncDrainer instances
    BatchSize,      \* BalanceSyncConfig.BatchSize
    SettingsValues, \* overdraft settings a balance may carry
    InitialSettings,
    InitialFunds,   \* Available of every balance at the start
    LegacyMembers,  \* members an older release left in the legacy ZSET
    NoBalance,      \* redis.Nil, or a slot that holds no copy
    Outage,         \* TRUE: PostgreSQL may be unreachable for longer than the blob TTL
    MaxFaults       \* bound on injected failures

Flushers == Workers \cup Drainers

Copy == [Available : Nat, Version : Nat, Settings : SettingsValues]

MaybeCopy == Copy \cup {NoBalance}

ASSUME BalancesAssumption ==
    /\ IsFiniteSet(Balances)
    /\ NoBalance \notin Copy
    /\ InitialFunds \in Nat
    /\ InitialSettings \in SettingsValues
    /\ LegacyMembers \subseteq Balances

ASSUME PipelineAssumption ==
    /\ BatchSize \in Nat \ {0}
    /\ MaxFaults \in Nat
    /\ Outage \in BOOLEAN
    /\ Workers \cap Drainers = {}

VARIABLES
    hot, cold, deleted, schedule, legacy, locks,
    clock,      \* the Redis TIME of the last script that mutated a balance
    req,        \* the requests in flight and the copies they read
    flusher,    \* each flusher's step, buffer of claimed scores and MGET result
    log,        \* per balance, the Available of every "after" the script returned
    faults      \* failures injected so far

vars == <<hot, cold, deleted, schedule, legacy, locks, clock, req, flusher, log, faults>>

NoCopies == [b \in Balances |-> NoBalance]

Unclaimed == [b \in Balances |-> 0]

IdleRequest == [state |-> "idle", from |-> NoBalance, to |-> NoBalance, copies |-> NoCopies]

IdleFlusher == [step |-> "collect", buffer |-> Unclaimed, snapshot |-> NoCopies]

Init ==
    /\ hot = [b \in Balances |-> NoBalance]
    /\ cold = [b \in Balances |-> [Available |-> InitialFunds, Version |-> 0,
                                   Settings |-> InitialSettings]]
    /\ deleted = {}
    /\ schedule = Unclaimed
    /\ legacy = [b \in Balances |-> IF b \in LegacyMembers THEN 1 ELSE 0]
    /\ locks = {}
    /\ clock = 1
    /\ req = [r \in Requests |-> IdleRequest]
    /\ flusher = [w \in Flushers |-> IdleFlusher]
    /\ log = [b \in Balances |-> << >>]
    /\ faults = 0
-----------------------------------------------------------------------------
(* Requests *)

\* The cache-aside read of one balance: the blob if there is one, the row if
\* there is none, and also the row when the cache read itself fails.
Readable(b) == {hot[b], cold[b]} \ ({NoBalance} \cup (IF b \in deleted THEN {cold[b]} ELSE {}))

GetBalances(r, from, to) ==
    /\ req[r].state = "idle"
    /\ from # to
    /\ \E f \in Readable(from), t \in Readable(to) :
          req' = [req EXCEPT ![r] = [state |-> "read", from |-> from, to |-> to,
                                     copies |-> [NoCopies EXCEPT ![from] = f, ![to] = t]]]
    /\ UNCHANGED <<hot, cold, deleted, schedule, legacy, locks, clock, flusher, log, faults>>

\* Seeded fault: a plain SET, which lets the copy Go read earlier win.
LoadedBySet(r, b) == req[r].copies[b]

\* SET NX of the copy Go sent, then the blob that is there.
Loaded(r, b) == IF hot[b] = NoBalance THEN req[r].copies[b] ELSE hot[b]

Moved(c, delta) == [Available |-> c.Available + delta, Version |-> c.Version + 1,
                    Settings |-> c.Settings]

Settle(r) == req' = [req EXCEPT ![r] = [IdleRequest EXCEPT !.state = "done"]]

\* Seeded fault: the negative-result check is missing.
ProcessWithoutFloor(r) ==
    LET from == req[r].from
        to   == req[r].to
        f    == Moved(Loaded(r, from), -1)
        t    == Moved(Loaded(r, to), 1)
    IN  /\ req[r].state = "read"
        /\ clock' = clock + 1
        /\ hot' = [hot EXCEPT ![from] = f, ![to] = t]
        /\ schedule' = [schedule EXCEPT ![from] = clock + 1, ![to] = clock + 1]
        /\ log' = [log EXCEPT ![from] = Append(@, f.Available), ![to] = Append(@, t.Available)]
        /\ Settle(r)
        /\ UNCHANGED <<cold, deleted, legacy, locks, flusher, faults>>

\* The script moves the unit: both blobs change, both are rescheduled at the
\* script's own time, and the caller receives both after-images.
ProcessBalanceAtomicOperation(r) ==
    LET from == req[r].from
        to   == req[r].to
        f    == Moved(Loaded(r, from), -1)
        t    == Moved(Loaded(r, to), 1)
    IN  /\ req[r].state = "read"
        /\ f.Available >= 0
        /\ clock' = clock + 1
        /\ hot' = [hot EXCEPT ![from] = f, ![to] = t]
        /\ schedule' = [schedule EXCEPT ![from] = clock + 1, ![to] = clock + 1]
        /\ log' = [log EXCEPT ![from] = Append(@, f.Available), ![to] = Append(@, t.Available)]
        /\ Settle(r)
        /\ UNCHANGED <<cold, deleted, legacy, locks, flusher, faults>>

\* The source lacks funds: 0018 and rollback.  The values are restored, but
\* a seed stays cached, and a destination processed before the source (the
\* operations come out of a Go map) keeps the ZADD it received.
RollbackAtomicOperation(r, destinationFirst) ==
    LET from == req[r].from
        to   == req[r].to
    IN  /\ req[r].state = "read"
        /\ Loaded(r, from).Available < 1
        /\ clock' = clock + 1
        /\ hot' = [hot EXCEPT ![from] = Loaded(r, from),
                              ![to] = IF destinationFirst THEN Loaded(r, to) ELSE @]
        /\ schedule' = [schedule EXCEPT ![to] = IF destinationFirst THEN clock + 1 ELSE @]
        /\ Settle(r)
        /\ UNCHANGED <<cold, deleted, legacy, locks, flusher, log, faults>>
-----------------------------------------------------------------------------
(* Flushers *)

Members(zset) == {b \in Balances : zset[b] # 0}

\* The members ZRANGEBYSCORE returns for a limit: the lowest scores first.
DueBatches(zset, limit) ==
    {S \in SUBSET Members(zset) :
        /\ Cardinality(S) <= limit
        /\ Cardinality(S) = limit \/ S = Members(zset)
        /\ \A b \in S, c \in Members(zset) \ S : zset[b] <= zset[c]}

\* claim_balance_sync_keys.lua, appended to the collector's buffer.
Claim(w, zset) ==
    LET buffered == Members(flusher[w].buffer) IN
    /\ flusher[w].step = "collect"
    /\ Cardinality(buffered) < BatchSize
    /\ \E due \in DueBatches(zset, BatchSize - Cardinality(buffered)) :
          /\ due \ locks # {}
          /\ locks' = locks \cup due
          /\ flusher' = [flusher EXCEPT ![w].buffer =
                            [b \in Balances |-> IF b \in due \ locks THEN zset[b] ELSE @[b]]]
    /\ UNCHANGED <<hot, cold, deleted, schedule, legacy, clock, req, log, faults>>

GetBalanceSyncKeys(w) == w \in Workers /\ Claim(w, schedule)

GetBalanceSyncKeysLegacy(w) == w \in Drainers /\ Claim(w, legacy)

\* A SIZE or TIMEOUT trigger, or the shutdown flush, hands the buffer over;
\* one MGET reads every blob.
GetBalancesByKeys(w) ==
    /\ flusher[w].step = "collect"
    /\ Members(flusher[w].buffer) # {}
    /\ flusher' = [flusher EXCEPT ![w] =
            [step |-> "fetched",
             buffer |-> flusher[w].buffer,
             snapshot |-> [b \in Balances |->
                              IF flusher[w].buffer[b] # 0 THEN hot[b] ELSE NoBalance]]]
    /\ UNCHANGED <<hot, cold, deleted, schedule, legacy, locks, clock, req, log, faults>>

\* Seeded fault: the statement has no version guard.
PersistedUnguarded(b, c) ==
    IF c # NoBalance /\ b \notin deleted
    THEN [Available |-> c.Available, Version |-> c.Version, Settings |-> cold[b].Settings]
    ELSE cold[b]

\* Seeded fault: the statement does not look at deleted_at.
PersistedIntoDeleted(b, c) ==
    IF c # NoBalance /\ cold[b].Version < c.Version
    THEN [Available |-> c.Available, Version |-> c.Version, Settings |-> cold[b].Settings]
    ELSE cold[b]

\* The row as UPDATE ... FROM (VALUES ...) leaves it: newer versions only,
\* live rows only, and never the settings column.
Persisted(b, c) ==
    IF c # NoBalance /\ cold[b].Version < c.Version /\ b \notin deleted
    THEN [Available |-> c.Available, Version |-> c.Version, Settings |-> cold[b].Settings]
    ELSE cold[b]

UpdateMany(w) ==
    /\ flusher[w].step = "fetched"
    /\ cold' = [b \in Balances |-> Persisted(b, flusher[w].snapshot[b])]
    /\ flusher' = [flusher EXCEPT ![w].step = "persisted"]
    /\ UNCHANGED <<hot, deleted, schedule, legacy, locks, clock, req, log, faults>>

\* Seeded fault: a failed statement still removes every claimed member.
UpdateManyFailsRemovesAll(w) ==
    /\ flusher[w].step = "fetched"
    /\ faults < MaxFaults
    /\ faults' = faults + 1
    /\ flusher' = [flusher EXCEPT ![w].step = "persisted"]
    /\ UNCHANGED <<hot, cold, deleted, schedule, legacy, locks, clock, req, log>>

\* The statement fails: only the orphaned members, whose blob is gone, are
\* still removed from the schedule.
UpdateManyFails(w) ==
    /\ flusher[w].step = "fetched"
    /\ faults < MaxFaults
    /\ faults' = faults + 1
    /\ flusher' = [flusher EXCEPT ![w] =
            [step |-> "persisted",
             buffer |-> [b \in Balances |->
                            IF flusher[w].snapshot[b] = NoBalance
                            THEN flusher[w].buffer[b] ELSE 0],
             snapshot |-> flusher[w].snapshot]]
    /\ UNCHANGED <<hot, cold, deleted, schedule, legacy, locks, clock, req, log>>

\* Seeded fault: ZREM without comparing the score.
RemoveWithoutScore(w) ==
    /\ flusher[w].step = "persisted"
    /\ schedule' = [b \in Balances |-> IF flusher[w].buffer[b] # 0 THEN 0 ELSE schedule[b]]
    /\ locks' = locks \ Members(flusher[w].buffer)
    /\ flusher' = [flusher EXCEPT ![w] = IdleFlusher]
    /\ UNCHANGED <<hot, cold, deleted, legacy, clock, req, log, faults>>

\* remove_balance_sync_keys_batch.lua: ZREM where the score is the claimed
\* one, DEL of the lock in any case.  It always works on the v2 ZSET.
RemoveBalanceSyncKeysBatch(w) ==
    LET buffer == flusher[w].buffer IN
    /\ flusher[w].step = "persisted"
    /\ schedule' = [b \in Balances |->
                       IF buffer[b] # 0 /\ schedule[b] = buffer[b] THEN 0 ELSE schedule[b]]
    /\ locks' = locks \ Members(buffer)
    /\ flusher' = [flusher EXCEPT ![w] = IdleFlusher]
    /\ UNCHANGED <<hot, cold, deleted, legacy, clock, req, log, faults>>

\* A crash, or an error of MGET or of the removal: the buffer is forgotten
\* and the locks stay until they expire.
Drop(w) ==
    /\ faults < MaxFaults
    /\ Members(flusher[w].buffer) # {}
    /\ faults' = faults + 1
    /\ flusher' = [flusher EXCEPT ![w] = IdleFlusher]
    /\ UNCHANGED <<hot, cold, deleted, schedule, legacy, locks, clock, req, log>>
-----------------------------------------------------------------------------
(* Redis expiry *)

\* The claim TTL (600 s) is longer than a flush in normal operation, but a
\* stalled worker outlives it: a lock may expire at any time.
LockExpires(b) ==
    /\ b \in locks
    /\ locks' = locks \ {b}
    /\ UNCHANGED <<hot, cold, deleted, schedule, legacy, clock, req, flusher, log, faults>>

\* The blob TTL (3600 s, renewed by every mutation) is taken to be longer than
\* a request, so whoever holds a copy of an expiring blob read it after the
\* last mutation. Nothing in the code bounds a request: one that outlives the
\* TTL, and would load its older copy, is not modelled. The TTL is longer than
\* the wait for a flush too, except during an outage.
HotExpires(b) ==
    /\ hot[b] # NoBalance
    /\ \A r \in Requests : req[r].copies[b] # NoBalance =>
                             req[r].copies[b].Version = hot[b].Version
    /\ \/ schedule[b] = 0 /\ UNCHANGED faults
       \/ schedule[b] # 0 /\ Outage /\ faults < MaxFaults /\ faults' = faults + 1
    /\ hot' = [hot EXCEPT ![b] = NoBalance]
    /\ UNCHANGED <<cold, deleted, schedule, legacy, locks, clock, req, flusher, log>>
-----------------------------------------------------------------------------
RequestStep(r) ==
    \/ \E from, to \in Balances : GetBalances(r, from, to)
    \/ ProcessBalanceAtomicOperation(r)
    \/ \E first \in BOOLEAN : RollbackAtomicOperation(r, first)

FlusherStep(w) ==
    \/ GetBalanceSyncKeys(w)
    \/ GetBalanceSyncKeysLegacy(w)
    \/ GetBalancesByKeys(w)
    \/ UpdateMany(w)
    \/ RemoveBalanceSyncKeysBatch(w)

Failure(w) == UpdateManyFails(w) \/ Drop(w)

Next ==
    \/ \E r \in Requests : RequestStep(r)
    \/ \E w \in Flushers : FlusherStep(w) \/ Failure(w)
    \/ \E b \in Balances : LockExpires(b) \/ HotExpires(b)

Spec == Init /\ [][Next]_vars

\* The flush timer and the batch context give every step of a flush a
\* deadline, the collector polls for ever, and Redis expires keys.
FairSpec ==
    /\ Spec
    /\ \A w \in Flushers :
          /\ WF_vars(GetBalanceSyncKeys(w))
          /\ WF_vars(GetBalanceSyncKeysLegacy(w))
          /\ WF_vars(GetBalancesByKeys(w))
          /\ WF_vars(UpdateMany(w))
          /\ WF_vars(RemoveBalanceSyncKeysBatch(w))
    /\ \A b \in Balances : WF_vars(LockExpires(b))
-----------------------------------------------------------------------------
(* Properties *)

\* Every blob, row, copy and buffer has its type; in particular no Available
\* in the cache, in the database or in a reply is negative (the script rolls
\* back with 0018 before it writes one).
TypeOK ==
    /\ hot \in [Balances -> MaybeCopy]
    /\ cold \in [Balances -> Copy]
    /\ deleted \subseteq Balances
    /\ schedule \in [Balances -> Nat]
    /\ legacy \in [Balances -> Nat]
    /\ locks \subseteq Balances
    /\ clock \in Nat
    /\ req \in [Requests -> [state : {"idle", "read", "done"},
                             from : Balances \cup {NoBalance}, to : Balances \cup {NoBalance},
                             copies : [Balances -> MaybeCopy]]]
    /\ flusher \in [Flushers -> [step : {"collect", "fetched", "persisted"},
                                 buffer : [Balances -> Nat],
                                 snapshot : [Balances -> MaybeCopy]]]
    /\ log \in [Balances -> Seq(Nat)]
    /\ faults \in Nat

\* A cached mutation that PostgreSQL has not seen is on the schedule, so some
\* later flush will find it: the score comparison in
\* remove_balance_sync_keys_batch.lua never removes a member whose blob
\* changed after the MGET, whoever holds, lost or stole the claim lock.
UnsyncedIsScheduled ==
    \A b \in Balances \ deleted :
        hot[b] # NoBalance /\ hot[b].Version > cold[b].Version => schedule[b] # 0

\* UpdateMany never takes a row back to an older version, even when a worker
\* that lost its lock writes a snapshot another worker has already overtaken.
ColdNeverRegresses ==
    [][\A b \in Balances : cold'[b].Version >= cold[b].Version]_cold

\* Available of a balance after its v-th mutation.
AvailableAt(b, v) == IF v = 0 THEN InitialFunds ELSE log[b][v]

\* A copy is one of the states the script reported for the balance.
IsLedgerState(b, c) ==
    c # NoBalance => c.Version \in 0..Len(log[b]) /\ c.Available = AvailableAt(b, c.Version)

\* The blob, the row and every copy in flight hold, for their version, exactly
\* the amount the script returned to the caller that created that version:
\* two mutations never produce one version, and no writer mixes versions.
CopiesAreLedgerStates ==
    \A b \in Balances :
        /\ IsLedgerState(b, hot[b])
        /\ IsLedgerState(b, cold[b])
        /\ \A w \in Flushers : IsLedgerState(b, flusher[w].snapshot[b])

\* The amount a reader of the balance is served.
Current(b) == IF hot[b] = NoBalance THEN cold[b] ELSE hot[b]

Ledger == INSTANCE LedgerBalances WITH funds <- [b \in Balances |-> Current(b).Available]

\* Cache, schedule, workers and expiry together behave as one store of
\* amounts: a transfer that the script acknowledged is never lost, repeated
\* or half applied.
ImplementsLedger == Ledger!Spec

\* When requests stop, PostgreSQL ends up with what Redis holds.
Converges ==
    <>[](\A b \in Balances : hot[b] # NoBalance => cold[b].Version >= hot[b].Version)
=============================================================================
