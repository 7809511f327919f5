----------------------------- MODULE Reservation -----------------------------
(***************************************************************************)
(* Two-phase usage reservations: the ledger's reserve anchor (reserve      *)
(* before the balances move, confirm or release afterwards) and the        *)
(* tracer's ReservationService over the tables usage_counters and          *)
(* usage_reservations, with the TTL reaper and the counter cleanup worker. *)
(* Validation adds the synchronous validations that share the counters.    *)
(*                                                                         *)
(* A limit stands for one counter bucket (limit, scope, period) of a       *)
(* period that is still open.  The calls between the two services are      *)
(* messages: each may be lost, or arrive after the ledger stopped waiting. *)
(***************************************************************************)
EXTENDS Integers, FiniteSets, FiniteSetsExt

CONSTANTS
    Transactions,
    Limits,
    Pending,        \* the transactions created as PENDING; the others are direct
    Applies,        \* per transaction, the counter-backed limits that match it
    Amount,         \* per transaction, its fee-inclusive amount, in 1/Scale of the currency
    Scale,
    MaxAmount,      \* the ceiling of every limit, in whole units of the currency
    Advisory,       \* TracerSettings.Mode is "advisory", not "enforce"
    FailOpen,       \* TracerSettings.FailPosture is "open"
    MaxRetries,     \* how many transactions repeat their reserve call
    Cleanup         \* CLEANUP_WORKER_ENABLED

ASSUME TransactionsAssumption ==
    /\ IsFiniteSet(Transactions) /\ IsFiniteSet(Limits)
    /\ Pending \subseteq Transactions
    /\ Applies \in [Transactions -> SUBSET Limits]
    /\ Amount \in [Transactions -> Nat \ {0}]
    /\ MaxAmount \in Nat
    /\ Scale \in Nat \ {0}

ASSUME SwitchesAssumption ==
    /\ Advisory \in BOOLEAN /\ FailOpen \in BOOLEAN /\ Cleanup \in BOOLEAN
    /\ MaxRetries \in Nat

Period == "period"      \* expires_at lies behind the end of the period

VARIABLES
    counter,    \* usage_counters
    rows,       \* status of the usage_reservations row of (transaction, limit)
    elapsed,    \* transactions whose reservation_expires_at has passed
    sweep,      \* rows the reaper's current sweep still has to release
    tx,         \* the ledger's view of each transaction
    handle,     \* the reservations whose ids the ledger holds
    calls,      \* requests under way to the tracer
    reply,      \* the tracer's answer to the reserve call
    retried,    \* transactions whose reserve call was repeated
    wiped       \* limits whose counter the cleanup worker deleted

tracerVars == <<counter, rows, elapsed, sweep>>
ledgerVars == <<tx, handle>>
vars == <<counter, rows, elapsed, sweep, tx, handle, calls, reply, retried, wiped>>

Terminal == {"CONFIRMED", "RELEASED", "EXPIRED"}

NoCounter == [live |-> FALSE, current |-> 0, reserved |-> 0, expiry |-> Period]

ReserveCall(t) == [op |-> "reserve", t |-> t]
ByIdCalls(op, t, ls) == {[op |-> op, t |-> t, l |-> l] : l \in ls}
ByTransactionCall(op, t) == [op |-> op, t |-> t]

Init ==
    /\ counter = [l \in Limits |-> NoCounter]
    /\ rows = [p \in Transactions \X Limits |-> "none"]
    /\ elapsed = {}
    /\ sweep = {}
    /\ tx = [t \in Transactions |-> "created"]
    /\ handle = [t \in Transactions |-> {}]
    /\ calls = {}
    /\ reply = [t \in Transactions |-> "none"]
    /\ retried = {}
    /\ wiped = {}
-----------------------------------------------------------------------------
(* The ledger *)

SendReserve(t) ==
    /\ tx[t] = "created"
    /\ tx' = [tx EXCEPT ![t] = "reserving"]
    /\ calls' = calls \cup {ReserveCall(t)}
    /\ UNCHANGED <<tracerVars, handle, reply, retried, wiped>>

\* The same reserve request reaches the tracer once more.
RetryReserve(t) ==
    /\ tx[t] = "reserving"
    /\ t \notin retried /\ Cardinality(retried) < MaxRetries
    /\ retried' = retried \cup {t}
    /\ ReserveCall(t) \notin calls
    /\ calls' = calls \cup {ReserveCall(t)}
    /\ UNCHANGED <<tracerVars, ledgerVars, reply, wiped>>

\* The decision reaches the anchor in time.
ReceiveReply(t) ==
    /\ tx[t] = "reserving"
    /\ reply[t] # "none"
    /\ tx' = [tx EXCEPT ![t] = IF reply[t] = "denied" /\ ~Advisory
                               THEN "rejected" ELSE "executing"]
    /\ UNCHANGED <<tracerVars, handle, calls, reply, retried, wiped>>

\* handleReserveError: no answer before the deadline, so fail open or closed.
ReserveUnavailable(t) ==
    /\ tx[t] = "reserving"
    /\ tx' = [tx EXCEPT ![t] = IF Advisory \/ FailOpen
                               THEN "executing" ELSE "rejected"]
    /\ handle' = [handle EXCEPT ![t] = {}]
    /\ UNCHANGED <<tracerVars, calls, reply, retried, wiped>>

\* ProcessBalanceOperations succeeds; a direct transaction is confirmed by id.
BalancesCommit(t) ==
    /\ tx[t] = "executing"
    /\ \/ /\ t \in Pending
          /\ tx' = [tx EXCEPT ![t] = "pending"]
          /\ UNCHANGED calls
       \/ /\ t \notin Pending
          /\ tx' = [tx EXCEPT ![t] = "committed"]
          /\ calls' = calls \cup ByIdCalls("confirm", t, handle[t])
    /\ UNCHANGED <<tracerVars, handle, reply, retried, wiped>>

\* Seeded fault: the failure path confirms.
ConfirmOnFailure(t) ==
    /\ tx[t] = "executing"
    /\ tx' = [tx EXCEPT ![t] = "aborted"]
    /\ calls' = calls \cup ByIdCalls("confirm", t, handle[t])
    /\ UNCHANGED <<tracerVars, handle, reply, retried, wiped>>

\* It fails: the held reservations are released by id.
BalancesFail(t) ==
    /\ tx[t] = "executing"
    /\ tx' = [tx EXCEPT ![t] = "aborted"]
    /\ calls' = calls \cup ByIdCalls("release", t, handle[t])
    /\ UNCHANGED <<tracerVars, handle, reply, retried, wiped>>

\* POST /commit and /cancel of a pending transaction hold only its id.
CommitPending(t) ==
    /\ tx[t] = "pending"
    /\ tx' = [tx EXCEPT ![t] = "committed"]
    /\ calls' = calls \cup {ByTransactionCall("confirmTx", t)}
    /\ UNCHANGED <<tracerVars, handle, reply, retried, wiped>>

CancelPending(t) ==
    /\ tx[t] = "pending"
    /\ tx' = [tx EXCEPT ![t] = "aborted"]
    /\ calls' = calls \cup {ByTransactionCall("releaseTx", t)}
    /\ UNCHANGED <<tracerVars, handle, reply, retried, wiped>>

\* A transport failure is logged and swallowed.
Lose(c) ==
    /\ calls' = calls \ {c}
    /\ UNCHANGED <<tracerVars, ledgerVars, reply, retried, wiped>>
-----------------------------------------------------------------------------
(* The tracer *)

\* Amount.IntPart(): the reservation carries the whole units only.
Whole(t) == Amount[t] \div Scale

\* Seeded fault: the guard counts committed usage only.
FitsCommitted(t, l) ==
    /\ Amount[t] <= MaxAmount * Scale
    /\ counter[l].live /\ Whole(t) > 0 => counter[l].current + Whole(t) <= MaxAmount

\* The amount-alone check of ResolveReservations, and the guard of the reserve
\* CTE, which only its DO UPDATE branch has and a zero amount never reaches.
Fits(t, l) ==
    /\ Amount[t] <= MaxAmount * Scale
    /\ counter[l].live /\ Whole(t) > 0 =>
          counter[l].current + counter[l].reserved + Whole(t) <= MaxAmount

\* UpsertAndReserveAtomic: expires_at becomes the reservation's own TTL; a
\* zero amount touches nothing.
Held(c, t) ==
    IF Whole(t) = 0 THEN c
    ELSE [live |-> TRUE, current |-> c.current, reserved |-> c.reserved + Whole(t), expiry |-> t]

\* Seeded fault: a limit that does not fit is left out instead of denying all.
ReservePartially(t) ==
    LET ls    == {l \in Applies[t] : Fits(t, l)}
        fresh == {l \in ls : rows[<<t, l>>] = "none"}
    IN  /\ ReserveCall(t) \in calls
        /\ calls' = calls \ {ReserveCall(t)}
        /\ counter' = [l \in Limits |-> IF l \in ls THEN Held(counter[l], t) ELSE counter[l]]
        /\ rows' = [p \in DOMAIN rows |->
                       IF p[1] = t /\ p[2] \in fresh THEN "RESERVED" ELSE rows[p]]
        /\ reply' = [reply EXCEPT ![t] = "reserved"]
        /\ handle' = IF tx[t] = "reserving" THEN [handle EXCEPT ![t] = fresh] ELSE handle
        /\ UNCHANGED <<elapsed, sweep, tx, retried, wiped>>

\* ReservationService.Reserve: one database transaction over all limits.  The
\* insert does nothing where a row exists, so the ids answered to a repeated
\* call name no row.
Reserve(t) ==
    LET ls    == Applies[t]
        ok    == \A l \in ls : Fits(t, l)
        fresh == {l \in ls : rows[<<t, l>>] = "none"}
    IN  /\ ReserveCall(t) \in calls
        /\ calls' = calls \ {ReserveCall(t)}
        /\ \/ /\ ok
              /\ counter' = [l \in Limits |->
                                IF l \in ls THEN Held(counter[l], t) ELSE counter[l]]
              /\ rows' = [p \in DOMAIN rows |->
                             IF p[1] = t /\ p[2] \in fresh THEN "RESERVED" ELSE rows[p]]
              /\ reply' = [reply EXCEPT ![t] = "reserved"]
              /\ handle' = IF tx[t] = "reserving" THEN [handle EXCEPT ![t] = fresh] ELSE handle
           \/ /\ ~ok
              /\ reply' = [reply EXCEPT ![t] = "denied"]
              /\ UNCHANGED <<counter, rows, handle>>
        /\ UNCHANGED <<elapsed, sweep, tx, retried, wiped>>

\* The counter half of ConfirmWithTx, ReleaseWithTx and their by-transaction
\* forms.
Terminated(c, amount, status) ==
    [c EXCEPT !.reserved = @ - amount, !.current = IF status = "CONFIRMED" THEN @ + amount ELSE @]

\* execCounterMove: the bucket must exist, and CHECK (reserved_usage >= 0).
Movable(t, l) == counter[l].live /\ counter[l].reserved >= Whole(t)

\* Seeded fault: the row's status is not looked at.
TerminateAgain(t, ls, status) ==
    LET due == {l \in ls : rows[<<t, l>>] # "none"} IN
    /\ counter' = [l \in Limits |-> IF l \in due
                                    THEN Terminated(counter[l], Whole(t), status)
                                    ELSE counter[l]]
    /\ rows' = [p \in DOMAIN rows |-> IF p[1] = t /\ p[2] \in due THEN status ELSE rows[p]]

\* The rows in ls that are RESERVED reach the status, with their counters, in
\* one database transaction; rows that are terminal or missing are left alone.
Terminate(t, ls, status) ==
    LET due == {l \in ls : rows[<<t, l>>] = "RESERVED"} IN
    \/ /\ \A l \in due : Movable(t, l)
       /\ counter' = [l \in Limits |-> IF l \in due
                                       THEN Terminated(counter[l], Whole(t), status)
                                       ELSE counter[l]]
       /\ rows' = [p \in DOMAIN rows |->
                      IF p[1] = t /\ p[2] \in due THEN status ELSE rows[p]]
    \/ /\ \E l \in due : ~Movable(t, l)
       /\ UNCHANGED <<counter, rows>>

StatusOf(op) == IF op \in {"confirm", "confirmTx"} THEN "CONFIRMED" ELSE "RELEASED"

\* Confirm and Release, by id.
TerminateById(c) ==
    /\ c.op \in {"confirm", "release"}
    /\ calls' = calls \ {c}
    /\ Terminate(c.t, {c.l}, StatusOf(c.op))
    /\ UNCHANGED <<elapsed, sweep, ledgerVars, reply, retried, wiped>>

\* ConfirmByTransaction and ReleaseByTransaction.
TerminateByTransaction(c) ==
    /\ c.op \in {"confirmTx", "releaseTx"}
    /\ calls' = calls \ {c}
    /\ Terminate(c.t, Limits, StatusOf(c.op))
    /\ UNCHANGED <<elapsed, sweep, ledgerVars, reply, retried, wiped>>
-----------------------------------------------------------------------------
(* The workers *)

TTLPasses(t) ==
    /\ t \notin elapsed
    /\ \E l \in Limits : rows[<<t, l>>] # "none"
    /\ elapsed' = elapsed \cup {t}
    /\ UNCHANGED <<counter, rows, sweep, ledgerVars, calls, reply, retried, wiped>>

\* Seeded fault: reservations of transactions that are still open are left out.
FindExpiredUnresolved ==
    /\ sweep = {}
    /\ sweep' = {p \in DOMAIN rows : rows[p] = "RESERVED" /\ p[1] \in elapsed
                                     /\ tx[p[1]] \in {"committed", "aborted"}}
    /\ sweep' # {}
    /\ UNCHANGED <<counter, rows, elapsed, ledgerVars, calls, reply, retried, wiped>>

FindExpiredReservations ==
    /\ sweep = {}
    /\ sweep' = {p \in DOMAIN rows : rows[p] = "RESERVED" /\ p[1] \in elapsed}
    /\ sweep' # {}
    /\ UNCHANGED <<counter, rows, elapsed, ledgerVars, calls, reply, retried, wiped>>

\* ReleaseExpired in a transaction of its own: a row that became terminal
\* since the find is skipped, an error ends the sweep.
ReleaseExpired(t, l) ==
    /\ <<t, l>> \in sweep
    /\ sweep' = IF rows[<<t, l>>] = "RESERVED" /\ ~Movable(t, l) THEN {} ELSE sweep \ {<<t, l>>}
    /\ Terminate(t, {l}, "EXPIRED")
    /\ UNCHANGED <<elapsed, ledgerVars, calls, reply, retried, wiped>>

\* The usage cleanup worker deletes a counter whose expires_at has passed.
DeleteExpiredCounter(l) ==
    /\ Cleanup
    /\ counter[l].live /\ counter[l].expiry \in elapsed
    /\ counter' = [counter EXCEPT ![l] = NoCounter]
    /\ wiped' = wiped \cup {l}
    /\ UNCHANGED <<rows, elapsed, sweep, ledgerVars, calls, reply, retried>>
-----------------------------------------------------------------------------
LedgerStep(t) ==
    \/ SendReserve(t)
    \/ RetryReserve(t)
    \/ ReceiveReply(t)
    \/ ReserveUnavailable(t)
    \/ BalancesCommit(t)
    \/ BalancesFail(t)
    \/ CommitPending(t)
    \/ CancelPending(t)

Next ==
    \/ \E t \in Transactions : LedgerStep(t) \/ Reserve(t) \/ TTLPasses(t)
    \/ \E c \in calls : Lose(c) \/ TerminateById(c) \/ TerminateByTransaction(c)
    \/ \E l \in Limits : DeleteExpiredCounter(l)
    \/ FindExpiredReservations
    \/ \E t \in Transactions, l \in Limits : ReleaseExpired(t, l)

Spec == Init /\ [][Next]_vars

\* Time passes, and the reaper's ticker keeps firing.
FairSpec ==
    /\ Spec
    /\ \A t \in Transactions : WF_vars(TTLPasses(t))
    /\ WF_vars(FindExpiredReservations)
    /\ \A t \in Transactions, l \in Limits : WF_vars(ReleaseExpired(t, l))
-----------------------------------------------------------------------------
(* Properties *)

WithStatus(l, status) == {t \in Transactions : rows[<<t, l>>] = status}

Total(ts) == SumFunctionOnSet([t \in Transactions |-> Whole(t)], ts)

CounterMatchesRows(l) ==
    /\ counter[l].reserved = Total(WithStatus(l, "RESERVED"))
    /\ counter[l].current = Total(WithStatus(l, "CONFIRMED"))

\* The counters agree with the reservation rows: reserved_usage is what
\* RESERVED rows hold and current_usage what CONFIRMED rows used, whatever the
\* order in which confirms, releases and the reaper reach a row.  Only a
\* repeated reserve call or the cleanup worker makes a counter drift.
CountersMatchRows ==
    \A l \in Limits \ wiped : (\A t \in retried : l \notin Applies[t]) => CounterMatchesRows(l)

\* A repeated reserve call is harmless: the counters agree with the rows of
\* usage_reservations also where a transaction asked twice.
RepeatsCountOnce == \A l \in Limits \ wiped : CounterMatchesRows(l)

\* Committed and outstanding usage together never exceed a limit, and neither
\* becomes negative, although confirms, releases, the reaper and the cleanup
\* worker all take from the counters.
WithinLimit ==
    \A l \in Limits :
        /\ counter[l].current >= 0 /\ counter[l].reserved >= 0
        /\ counter[l].current + counter[l].reserved <= MaxAmount

\* A reservation leaves RESERVED at most once: a late confirm cannot revive
\* what the reaper expired, and the reaper cannot take back what was confirmed.
TerminalIsFinal ==
    [][\A p \in DOMAIN rows : rows[p] \in Terminal => rows'[p] = rows[p]]_rows

\* A transaction holds capacity on all the limits that match it or on none.
AllOrNothing ==
    \A t \in Transactions : \A l, m \in Applies[t] : rows[<<t, l>>] = "none" <=> rows[<<t, m>>] = "none"

\* Usage is only committed for a transaction whose balances were committed.
ConfirmedWasCommitted ==
    \A t \in Transactions, l \in Limits : rows[<<t, l>>] = "CONFIRMED" => tx[t] = "committed"

\* Held capacity is always given back or used: no lost, late or repeated call
\* leaves a reservation RESERVED for ever, as long as the cleanup worker
\* deletes no counter (ReleaseExpired then fails and ends every sweep).
ReservationsEnd ==
    \A t \in Transactions, l \in Limits :
        rows[<<t, l>>] = "RESERVED" ~> rows[<<t, l>>] \in Terminal \/ wiped # {}
=============================================================================
