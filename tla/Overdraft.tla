------------------------------ MODULE Overdraft ------------------------------
(***************************************************************************)
(* The arithmetic of a transaction on balances: the operations a request   *)
(* builds from the balances it has read, the companion operations that the *)
(* overdraft enrichment appends, and the atomic script that applies them.  *)
(*                                                                         *)
(* An account has a default balance (direction credit) and, when it allows *)
(* overdraft, a companion balance (key "overdraft", direction debit) whose *)
(* Available is the liability.  Between reading and applying, other        *)
(* requests run, and the overdraft settings of the account may be updated. *)
(***************************************************************************)
EXTENDS Integers, FiniteSets, FiniteSetsExt, Sequences

CONSTANTS
    Accounts,
    External,       \* accounts of type external
    Overdrafted,    \* accounts with AllowOverdraft and a companion balance
    OverdraftLimit, \* of every one of them at first, enabled
    NewSettings,    \* the settings an update may ask for
    MaxUpdates,     \* bound on settings updates
    Funds,          \* per account, Available at the start
    Transactions,
    From, To, Amount, \* per transaction
    Pending         \* the transactions created as PENDING

\* Validation: source and destination differ, and nothing is put on hold on
\* an external account.
ASSUME TransfersAssumption ==
    /\ IsFiniteSet(Accounts) /\ IsFiniteSet(Transactions)
    /\ External \subseteq Accounts /\ Overdrafted \subseteq Accounts \ External
    /\ OverdraftLimit \in Nat /\ MaxUpdates \in Nat
    /\ NewSettings \subseteq [AllowOverdraft : BOOLEAN, OverdraftLimit : Nat]
    /\ Funds \in [Accounts -> Int] /\ \A a \in Accounts \ External : Funds[a] >= 0
    /\ From \in [Transactions -> Accounts] /\ To \in [Transactions -> Accounts]
    /\ Amount \in [Transactions -> Nat \ {0}]
    /\ Pending \subseteq Transactions
    /\ \A t \in Transactions : From[t] # To[t] /\ (t \in Pending => From[t] \notin External)

VARIABLES
    bal,        \* the cached balances
    status,     \* of each transaction
    request,    \* the request each transaction has under way
    overdrawn,  \* the companion amount recorded in the operations of a hold
    settings,   \* the overdraft settings in the cached balances
    row,        \* OverdraftUsed in the rows, which the flushes keep behind the cache
    updates

vars == <<bal, status, request, overdrawn, settings, row, updates>>
admin == <<settings, row, updates>>

Default(a) == <<a, "default">>
Companion(a) == <<a, "overdraft">>
Balances == Accounts \X {"default"} \cup Overdrafted \X {"overdraft"}

Idle == [stage |-> "none"]

Init ==
    /\ bal = [b \in Balances |->
                [Available |-> IF b[2] = "default" THEN Funds[b[1]] ELSE 0,
                 OnHold |-> 0, OverdraftUsed |-> 0, Version |-> 0]]
    /\ status = [t \in Transactions |-> "new"]
    /\ request = [t \in Transactions |-> Idle]
    /\ overdrawn = [t \in Transactions |-> 0]
    /\ settings = [a \in Overdrafted |-> [AllowOverdraft |-> TRUE, OverdraftLimit |-> OverdraftLimit]]
    /\ row = [a \in Overdrafted |-> 0]
    /\ updates = 0

-----------------------------------------------------------------------------
(* The request handlers *)

StagesOf(t) ==
    IF status[t] = "PENDING" THEN {"APPROVED", "CANCELED"}
    ELSE IF status[t] # "new" THEN {}
    ELSE IF t \in Pending THEN {"PENDING"} ELSE {"CREATED"}

Allows(a) == a \in Overdrafted /\ settings[a].AllowOverdraft

\* A request reads the balances.  The ledger's route validation may have been
\* switched since the hold; a cancel knows the operations of its hold only
\* when it found the transaction in the write-behind cache (which makes no
\* difference when the hold used no overdraft).
GetBalances(t) ==
    /\ request[t] = Idle
    /\ \E stage \in StagesOf(t), routes, cached \in BOOLEAN :
         request' = [request EXCEPT ![t] =
            [stage |-> stage, routes |-> routes /\ stage # "CREATED",
             cached |-> cached /\ overdrawn[t] > 0 /\ stage = "CANCELED",
             from |-> bal[Default(From[t])], to |-> bal[Default(To[t])],
             allows |-> {a \in {From[t], To[t]} : Allows(a)}]]
    /\ UNCHANGED <<bal, status, overdrawn, admin>>

Operation(t, op, isFrom) ==
    LET r == request[t]
        owner == IF isFrom THEN From[t] ELSE To[t]
    IN
    [b |-> Default(owner), op |-> op, amount |-> Amount[t],
     read |-> IF isFrom THEN r.from ELSE r.to, allowed |-> owner \in r.allows,
     stage |-> r.stage, pending |-> t \in Pending, routes |-> r.routes /\ isFrom,
     overdraft |-> 0]

\* DetermineOperation, PropagateRouteValidation and SplitDoubleEntryOps.
SourceOperations(stage, routes) ==
    CASE stage = "CREATED" -> <<"DEBIT">>
      [] stage = "PENDING" -> IF routes THEN <<"DEBIT", "ON_HOLD">> ELSE <<"ON_HOLD">>
      [] stage = "APPROVED" -> IF routes THEN <<"ON_HOLD">> ELSE <<"DEBIT">>
      [] stage = "CANCELED" -> IF routes THEN <<"RELEASE", "CREDIT">> ELSE <<"RELEASE">>

\* buildBalanceOperations, and the amounts that annotateCanceledOverdraftAmounts
\* adds to the operation that gives the held funds back.  (The code sorts the
\* operations by key; source and destination are different balances, so their
\* order cannot matter.)
BuildBalanceOperations(t) ==
    LET r == request[t]
        ops == SourceOperations(r.stage, r.routes)
        source(i) == [Operation(t, ops[i], TRUE) EXCEPT
                        !.overdraft = IF r.cached /\ i = Len(ops) THEN overdrawn[t] ELSE 0]
    IN  [i \in 1..Len(ops) |-> source(i)] \o <<Operation(t, "CREDIT", FALSE)>>

\* Sequences one after the other.
Joined(seqs) ==
    LET first[n \in 0..Len(seqs)] == IF n = 0 THEN <<>> ELSE first[n - 1] \o seqs[n]
    IN  first[Len(seqs)]

Minimum(S) == CHOOSE x \in S : \A y \in S : x <= y

\* DetectOverdraftSplit on the balance as it was read.
DebitSplit(o) ==
    IF /\ o.allowed
       /\ \/ o.op = "DEBIT"
          \/ o.op = "ON_HOLD" /\ o.stage = "PENDING" /\ ~o.routes
       /\ o.amount > o.read.Available
    THEN o.amount - o.read.Available ELSE 0

\* DetectRefundSplit, and the exact reversal of collectOverdraftCancelSplits.
CreditSplit(o) ==
    IF /\ o.b[1] \in Overdrafted /\ o.read.OverdraftUsed > 0
       /\ o.op = "CREDIT" \/ (o.op = "RELEASE" /\ o.overdraft > 0)
    THEN Minimum({o.amount, o.read.OverdraftUsed} \cup (IF o.overdraft > 0 THEN {o.overdraft} ELSE {}))
    ELSE 0

CompanionOperations(o) ==
    LET on(op, amount) == [o EXCEPT !.b = Companion(o.b[1]), !.op = op, !.amount = amount, !.overdraft = 0] IN
    IF DebitSplit(o) > 0 THEN <<on("DEBIT", DebitSplit(o))>>
    ELSE IF CreditSplit(o) > 0 THEN <<on("CREDIT", CreditSplit(o))>> ELSE <<>>

\* enrichOverdraftOperations appends the companion operations; a commit does
\* not call it.
EnrichOverdraftOperations(t) ==
    LET ops == BuildBalanceOperations(t) IN
    IF request[t].stage = "APPROVED" THEN ops
    ELSE ops \o Joined([i \in 1..Len(ops) |-> CompanionOperations(ops[i])])

-----------------------------------------------------------------------------
(* The script *)

\* What an operation does to Available: takes from it, or gives to it.  A
\* balance of direction debit has the signs exchanged.
Takes(o) ==
    \/ ~o.pending /\ o.op = "DEBIT"
    \/ o.stage = "PENDING" /\ o.op = "DEBIT" /\ (o.routes \/ o.b[2] = "overdraft")
    \/ o.stage = "PENDING" /\ o.op = "ON_HOLD" /\ ~o.routes

Gives(o) ==
    \/ ~o.pending /\ o.op = "CREDIT"
    \/ o.stage = "CANCELED" /\ o.op = "RELEASE" /\ ~o.routes
    \/ o.stage = "CANCELED" /\ o.op = "CREDIT" /\ (o.routes \/ o.b[2] = "overdraft")
    \/ o.stage = "APPROVED" /\ o.op = "CREDIT"

\* ... and to OnHold.
Holds(o) == o.stage = "PENDING" /\ o.op = "ON_HOLD"

\* A seeded fault for TLC: a commit with route validation forgets the hold.
ReleasesLegacy(o) ==
    \/ o.stage = "CANCELED" /\ o.op = "RELEASE"
    \/ o.stage = "APPROVED" /\ o.op = "DEBIT"

Releases(o) ==
    \/ o.stage = "CANCELED" /\ o.op = "RELEASE"
    \/ o.stage = "APPROVED" /\ (o.op = "DEBIT" \/ (o.op = "ON_HOLD" /\ o.routes))

\* A credit repays the overdraft first; a release does so only where the hold
\* is known to have used it.
Repays(o, b) ==
    /\ o.b[2] = "default" /\ o.b[1] \notin External
    /\ \/ o.op = "CREDIT" /\ b.OverdraftUsed > 0
       \/ o.op = "RELEASE" /\ o.stage = "CANCELED" /\ ~o.routes /\ o.overdraft > 0

Repayment(o, b) ==
    IF ~Repays(o, b) THEN 0
    ELSE Minimum({o.amount, b.OverdraftUsed} \cup (IF o.overdraft > 0 THEN {o.overdraft} ELSE {}))

Stale(o, b) == b.Version # o.read.Version

\* The second half of a double-entry cancel follows its own batch's first.
SameBatchCancelCredit(o, b) ==
    o.op = "CREDIT" /\ o.stage = "CANCELED" /\ o.routes /\ b.Version = o.read.Version + 1

\* Available before the floor at zero.
Result(o, b) ==
    LET given == (IF Gives(o) THEN o.amount ELSE 0) - (IF Takes(o) THEN o.amount ELSE 0) IN
    b.Available + (IF o.b[2] = "overdraft" THEN -given ELSE given) - Repayment(o, b)

Short(o, b) == Result(o, b) < 0 /\ o.b[1] \notin External

\* By the settings in the cached balance, not those the request read.
MayOverdraw(o) == o.b[2] = "default" /\ Allows(o.b[1])

\* A seeded fault for TLC: the split computed before the script is trusted.
RefusedUnlessFresh(o, b) ==
    Short(o, b) /\ (~MayOverdraw(o) \/ b.OverdraftUsed - Result(o, b) > settings[o.b[1]].OverdraftLimit)

\* A seeded fault for TLC: the limit is compared with the usage before the debit.
RefusedAtLimit(o, b) ==
    \/ Repays(o, b) /\ Stale(o, b) /\ ~SameBatchCancelCredit(o, b)
    \/ Short(o, b) /\ (~MayOverdraw(o) \/ Stale(o, b) \/ b.OverdraftUsed >= settings[o.b[1]].OverdraftLimit)

\* Errors 0174 (stale version), 0018 (insufficient funds), 0167 (limit).
Refused(o, b) ==
    \/ Repays(o, b) /\ Stale(o, b) /\ ~SameBatchCancelCredit(o, b)
    \/ Short(o, b) /\ \/ ~MayOverdraw(o)
                      \/ Stale(o, b)
                      \/ b.OverdraftUsed - Result(o, b) > settings[o.b[1]].OverdraftLimit

\* A seeded fault for TLC: the repaid part also reaches Available.
AppliedTwice(o, b) ==
    [Available |-> IF Short(o, b) THEN 0 ELSE Result(o, b) + Repayment(o, b),
     OnHold |-> b.OnHold + (IF Holds(o) THEN o.amount ELSE 0) - (IF Releases(o) THEN o.amount ELSE 0),
     OverdraftUsed |-> b.OverdraftUsed - (IF Short(o, b) THEN Result(o, b) ELSE Repayment(o, b)),
     Version |-> b.Version + 1]

\* The balance after an operation that is not refused: the shortfall is
\* floored at zero and accrued; the version grows when something changed.
Applied(o, b) ==
    LET after == [Available |-> IF Short(o, b) THEN 0 ELSE Result(o, b),
                  OnHold |-> b.OnHold + (IF Holds(o) THEN o.amount ELSE 0) - (IF Releases(o) THEN o.amount ELSE 0),
                  OverdraftUsed |-> b.OverdraftUsed - (IF Short(o, b) THEN Result(o, b) ELSE Repayment(o, b)),
                  Version |-> b.Version]
    IN  IF after = b THEN b ELSE [after EXCEPT !.Version = @ + 1]

\* One operation after the other; the first refusal rolls all of them back.
\* The answer holds, for every operation that changed its balance, the balance
\* before it.
Step(s, o) ==
    LET b == s.bal[o.b] IN
    IF s.refused \/ Refused(o, b) THEN [s EXCEPT !.refused = TRUE]
    ELSE IF Applied(o, b) = b THEN s
    ELSE [s EXCEPT !.bal[o.b] = Applied(o, b), !.changes = Append(@, [o |-> o, before |-> b])]

Batch(ops) ==
    LET after[i \in 0..Len(ops)] ==
            IF i = 0 THEN [refused |-> FALSE, bal |-> bal, changes |-> <<>>]
            ELSE Step(after[i - 1], ops[i])
    IN  after[Len(ops)]

-----------------------------------------------------------------------------
(* The operation records *)

Distance(m, n) == IF m > n THEN m - n ELSE n - m

\* effectiveOperationAmount: what moved on the balance, at most what was asked.
EffectiveAmount(o, before, after) ==
    LET moved == {Distance(before.Available, after.Available), Distance(before.OnHold, after.OnHold)}
    IN  Minimum({o.amount, Max(moved)})

Snapshot(available, onHold, version) == [Available |-> available, OnHold |-> onHold, Version |-> version]
SnapshotOf(b) == Snapshot(b.Available, b.OnHold, b.Version)

Record(o, type, amount, before, after) ==
    [b |-> o.b, type |-> type, amount |-> amount, before |-> before, after |-> after]

\* A seeded fault for TLC: the balance after the debit is computed, not taken
\* from the script's answer.
DoubleEntryPendingNaive(o, before, after) ==
    LET amount == EffectiveAmount(o, before, after)
        debited == Snapshot(before.Available - amount, before.OnHold, before.Version + 1)
    IN  <<Record(o, "DEBIT", amount, SnapshotOf(before), debited),
          Record(o, "ON_HOLD", amount, debited,
                 Snapshot(debited.Available, before.OnHold + amount, before.Version + 2))>>

\* buildDoubleEntryPendingOps
DoubleEntryPending(o, before, after) ==
    LET amount == EffectiveAmount(o, before, after)
        debited == Snapshot(after.Available, before.OnHold, before.Version + 1)
    IN  <<Record(o, "DEBIT", Minimum({amount, Distance(before.Available, after.Available)}),
                 SnapshotOf(before), debited),
          Record(o, "ON_HOLD", amount, debited, SnapshotOf(after))>>

\* buildDoubleEntryCanceledOps, which does not look at the script's answer.
DoubleEntryCanceled(o, before, after) ==
    LET amount == EffectiveAmount(o, before, after)
        released == Snapshot(before.Available, before.OnHold - amount, before.Version + 1)
    IN  <<Record(o, "RELEASE", amount, SnapshotOf(before), released),
          Record(o, "CREDIT", amount, released,
                 Snapshot(before.Available + amount, released.OnHold, before.Version + 2))>>

\* IsDoubleEntrySource; the companion operations never are.
DoubleEntry(o) == o.routes /\ o.b[2] = "default" /\ o.stage \in {"PENDING", "CANCELED"}

\* A seeded fault for TLC: a record carries the amount that was asked for.
StandardRequested(o, before, after) ==
    <<Record(o, o.op, o.amount, SnapshotOf(before), SnapshotOf(after))>>

\* buildStandardOp
Standard(o, before, after) ==
    <<Record(o, o.op, EffectiveAmount(o, before, after), SnapshotOf(before), SnapshotOf(after))>>

\* The legs a hold or a cancel records are those of its sources and the
\* companion operations: its destinations, the plain CREDITs, are not among
\* the fromTo entries.
Unlisted(o) ==
    o.op = "CREDIT" /\ ~o.routes /\ o.b[2] = "default" /\ o.stage \in {"PENDING", "CANCELED"}

\* BuildOperations: every balance the script changed for a listed leg is
\* recorded with the script's last answer for it; the second half of a double
\* entry is skipped.
BuildOperations(out) ==
    LET records(i) ==
            LET change == out.changes[i]
                after == out.bal[change.o.b]
            IN  IF Unlisted(change.o) THEN <<>>
                ELSE IF ~DoubleEntry(change.o) THEN Standard(change.o, change.before, after)
                ELSE IF \E j \in 1..(i - 1) : out.changes[j].o.b = change.o.b THEN <<>>
                ELSE IF change.o.stage = "PENDING" THEN DoubleEntryPending(change.o, change.before, after)
                ELSE DoubleEntryCanceled(change.o, change.before, after)
    IN  Joined([i \in 1..Len(out.changes) |-> records(i)])

TotalOf(records, selected) == SumFunctionOnSet([i \in DOMAIN records |-> records[i].amount], selected)

\* pendingOverdraftUsageByAlias, from the records of the hold: the debits of
\* the companion balance or, without one, what the source's OverdraftUsed grew
\* by between the two snapshots of its ON_HOLD record.
HeldOverdraft(records, grown) ==
    LET debited == TotalOf(records, {i \in DOMAIN records : records[i].b[2] = "overdraft" /\ records[i].type = "DEBIT"})
    IN  IF debited > 0 THEN debited ELSE IF grown > 0 THEN grown ELSE 0

\* ProcessBalanceAtomicOperation: the script runs, and the transaction takes
\* the status of the stage; a refused request ends, a refused commit or cancel
\* leaves the transaction pending.
ProcessBalanceAtomicOperation(t) ==
    LET ops == EnrichOverdraftOperations(t)
        stage == request[t].stage
        out == Batch(ops)
        grown == out.bal[Default(From[t])].OverdraftUsed - bal[Default(From[t])].OverdraftUsed
    IN
    /\ request[t] # Idle
    /\ IF out.refused
       THEN /\ status' = [status EXCEPT ![t] = IF @ = "new" THEN "rejected" ELSE @]
            /\ UNCHANGED <<bal, overdrawn>>
       ELSE /\ bal' = out.bal
            /\ status' = [status EXCEPT ![t] = stage]
            /\ overdrawn' = [overdrawn EXCEPT ![t] = IF stage = "PENDING" THEN HeldOverdraft(BuildOperations(out), grown) ELSE @]
    /\ request' = [request EXCEPT ![t] = Idle]
    /\ UNCHANGED admin

-----------------------------------------------------------------------------
(* The settings *)

\* The flush of the balance; what else it writes is in BalanceSync.  Only an
\* update reads the row, so flushes after the last one are left out.
Flush(a) ==
    /\ updates < MaxUpdates
    /\ row[a] # bal[Default(a)].OverdraftUsed
    /\ row' = [row EXCEPT ![a] = bal[Default(a)].OverdraftUsed]
    /\ UNCHANGED <<bal, status, request, overdrawn, settings, updates>>

\* Update: enforceOverdraftTransition compares the new limit with the row, the
\* companion exists already, and the settings in the cached balance are
\* replaced, its version is not.  Find and rewrite are one step: a flush may
\* be as late as the time between them.
Update(a) ==
    /\ updates < MaxUpdates
    /\ \E s \in NewSettings :
         /\ row[a] = 0 \/ s.OverdraftLimit >= row[a]
         /\ settings' = [settings EXCEPT ![a] = s]
    /\ updates' = updates + 1
    /\ UNCHANGED <<bal, status, request, overdrawn, row>>

Next ==
    \/ \E t \in Transactions : GetBalances(t) \/ ProcessBalanceAtomicOperation(t)
    \/ \E a \in Overdrafted : Flush(a) \/ Update(a)

Spec == Init /\ [][Next]_vars

-----------------------------------------------------------------------------
(* Properties *)

Total(ts) == SumFunctionOnSet(Amount, ts)

\* Every account is worth its first funds, plus what settled transactions
\* brought, less what they took: overdraft, repayment, holds, cancels and
\* refused batches neither create nor lose money.
AccountsReflectTransactions ==
    \A a \in Accounts :
      LET b == bal[Default(a)]
          settled == {t \in Transactions : status[t] \in {"CREATED", "APPROVED"}}
      IN  b.Available + b.OnHold - b.OverdraftUsed
            = Funds[a] + Total({t \in settled : To[t] = a}) - Total({t \in settled : From[t] = a})

\* OnHold is the sum of the account's pending transactions, also when route
\* validation was switched between a hold and its commit or cancel, and only
\* an external account is ever negative.
HoldsAreBacked ==
    \A a \in Accounts :
      /\ a \notin External => bal[Default(a)].Available >= 0
      /\ bal[Default(a)].OnHold = Total({t \in Transactions : status[t] = "PENDING" /\ From[t] = a})

\* Overdraft grows only while the account allows it and within the limit of
\* that moment, whatever requests and settings updates overtake each other
\* between reading a balance and debiting it.
WithinOverdraftLimit ==
    [][\A a \in Overdrafted :
         bal'[Default(a)].OverdraftUsed > bal[Default(a)].OverdraftUsed
         => Allows(a) /\ bal'[Default(a)].OverdraftUsed <= settings[a].OverdraftLimit]_vars

\* The liability on the companion balance never understates the overdraft in
\* use, although its operations are computed from balances read earlier.
CompanionCoversUsage ==
    \A a \in Overdrafted : bal[Companion(a)].Available >= bal[Default(a)].OverdraftUsed

AppliedNow(t) == request[t] # Idle /\ request'[t] = Idle /\ status'[t] = request[t].stage

RecordsOn(records, b) == SelectSeq(records, LAMBDA r : r.b = b)

\* The records of a cancel with route validation overstate Available where the
\* credit repaid overdraft.
CreditOverstated(t, b) ==
    /\ request[t].stage = "CANCELED" /\ request[t].routes
    /\ b = Default(From[t])
    /\ bal'[b].OverdraftUsed < bal[b].OverdraftUsed

\* The operation records of a request tell what happened to its balances: for
\* each balance they lead without a gap from its state before to its state
\* after, and a balance without records did not change.
RecordsFollowBalances ==
    [][\A t \in Transactions : AppliedNow(t) =>
         LET records == BuildOperations(Batch(EnrichOverdraftOperations(t))) IN
         \A b \in Balances :
           LET rs == RecordsOn(records, b) IN
           IF rs = <<>> THEN bal'[b] = bal[b]
           ELSE /\ rs[1].before = SnapshotOf(bal[b])
                /\ \A i \in 1..(Len(rs) - 1) : rs[i].after = rs[i + 1].before
                /\ rs[Len(rs)].after = SnapshotOf(bal'[b]) \/ CreditOverstated(t, b)]_vars

Recorded(records, owner, type) ==
    TotalOf(records, {i \in DOMAIN records : records[i].b[1] = owner /\ records[i].type = type})

Fresh(t) ==
    bal[Default(From[t])] = request[t].from /\ bal[Default(To[t])] = request[t].to

\* The records of a direct transaction debit and credit its amount, the part
\* that was moved to or from the overdraft included; when a balance changed
\* after the request read it they never show less.
RecordsCoverAmount ==
    [][\A t \in Transactions : AppliedNow(t) /\ request[t].stage = "CREATED" =>
         LET records == BuildOperations(Batch(EnrichOverdraftOperations(t)))
             debits == Recorded(records, From[t], "DEBIT")
             credits == Recorded(records, To[t], "CREDIT")
         IN  /\ debits >= Amount[t] /\ credits >= Amount[t]
             /\ Fresh(t) => debits = Amount[t] /\ credits = Amount[t]]_vars

\* A hold leaves its destination alone: "CREDIT + PENDING has no effect".
HoldsLeaveDestinations ==
    [][\A t \in Transactions :
         status[t] = "new" /\ status'[t] = "PENDING"
         => bal'[Default(To[t])] = bal[Default(To[t])]]_vars
=============================================================================
