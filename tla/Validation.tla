----------------------------- MODULE Validation -----------------------------
(***************************************************************************)
(* The tracer's synchronous validations (ValidationService.Validate and    *)
(* LimitCheckerService.CheckLimits) beside the two-phase reservations of   *)
(* Reservation: both spend the same usage counters.                        *)
(*                                                                         *)
(* A validation reads the record of its request, evaluates the rules, and  *)
(* unless they deny opens a database transaction in which it increments    *)
(* the counter of one matching limit after another.  An ALLOW commits the  *)
(* increments with the record and the audit event; a DENY or a REVIEW      *)
(* rolls them back and is recorded afterwards, at best effort.             *)
(*                                                                         *)
(* PostgreSQL runs at READ COMMITTED: an increment keeps its counter row   *)
(* locked until the transaction ends, and an inserted request_id keeps     *)
(* another insert of it waiting.  What an open transaction wrote is in     *)
(* call[v] until it commits.                                               *)
(***************************************************************************)
EXTENDS Reservation

CONSTANTS
    Validations,  \* calls of Validate; each creates a validation id of its own
    Requests,     \* the request ids clients send
    RequestOf,    \* per validation, its request
    Matches,      \* per request, the counter-backed limits whose scope and currency match
    Cost,         \* per request, its amount in whole units of the currency
    Rank,         \* the order of getApplicableLimits: created_at, id
    RuleOutcomes, \* what rule evaluation may decide
    MaxFaults     \* bound on database errors, lost acknowledgements and crashes

ASSUME ValidationsAssumption ==
    /\ IsFiniteSet(Validations) /\ IsFiniteSet(Requests)
    /\ RequestOf \in [Validations -> Requests]
    /\ Matches \in [Requests -> SUBSET Limits]
    /\ Cost \in [Requests -> Nat \ {0}]
    /\ Rank \in [Limits -> Nat] /\ \A l, m \in Limits : Rank[l] = Rank[m] => l = m
    /\ RuleOutcomes \subseteq {"ALLOW", "REVIEW", "DENY"}
    /\ MaxFaults \in Nat

VARIABLES
    call,       \* the calls of Validate under way
    records,    \* transaction_validations, by request_id
    audited,    \* the validation ids with a TRANSACTION_VALIDATED audit event
    answer,     \* what each call told its client
    unrecorded, \* validations whose record was given up after an error
    faults

validationVars == <<call, records, audited, answer, unrecorded, faults>>
allVars == <<vars, validationVars>>

NoRecord == [by |-> "none", decision |-> "none"]
Failed == [by |-> "none", decision |-> "error"]

\* todo: limits not processed yet; taken: counters incremented; locked: counter
\* rows this transaction holds.
New == [step |-> "new", decision |-> "ALLOW", todo |-> {}, taken |-> {}, locked |-> {},
        exceeded |-> FALSE]
Done == [New EXCEPT !.step = "done"]

ValidationInit ==
    /\ Init
    /\ call = [v \in Validations |-> New]
    /\ records = [q \in Requests |-> NoRecord]
    /\ audited = {} /\ unrecorded = {}
    /\ answer = [v \in Validations |-> NoRecord]
    /\ faults = 0

LockedBy(v) == call[v].locked

\* No validation other than v holds one of the counters.
Free(v, ls) == \A u \in Validations \ {v} : LockedBy(u) \cap ls = {}

Recorded(q) == records[q] # NoRecord

\* Another transaction has inserted the request and not ended yet.
Inserting(v) ==
    {u \in Validations \ {v} : RequestOf[u] = RequestOf[v] /\ call[u].step = "recorded"}

Finish(v, a) ==
    /\ call' = [call EXCEPT ![v] = Done]
    /\ answer' = [answer EXCEPT ![v] = a]
-----------------------------------------------------------------------------
\* Validate: FindByRequestID answers a repeated request from its record; else
\* the rules are evaluated, and only a DENY skips the limits.
Validate(v) ==
    LET q == RequestOf[v] IN
    /\ call[v].step = "new"
    /\ \/ /\ Recorded(q)
          /\ Finish(v, records[q])
       \/ /\ ~Recorded(q)
          /\ \E d \in RuleOutcomes :
                call' = [call EXCEPT ![v] =
                            IF d = "DENY" THEN [New EXCEPT !.step = "finalizing", !.decision = d]
                            ELSE [New EXCEPT !.step = "checking", !.decision = d, !.todo = Matches[q]]]
          /\ UNCHANGED answer
    /\ UNCHANGED <<vars, records, audited, unrecorded, faults>>

\* Seeded fault: limits are taken in any order.
NextLimit_Any(v, l) == l \in call[v].todo

NextLimit(v, l) == l \in call[v].todo /\ \A m \in call[v].todo : Rank[l] <= Rank[m]

\* Seeded fault: the counter is read without its row lock.
Available_Unlocked(v, l) == TRUE

\* The row lock of INSERT ... ON CONFLICT DO UPDATE.
Available(v, l) == Free(v, {l})

\* processLimitAtomic: the amount alone, then the guard of the increment CTE,
\* which does not count reserved_usage; a refused increment keeps the row locked.
ProcessLimit(v, l) ==
    LET cost == Cost[RequestOf[v]] IN
    /\ call[v].step = "checking"
    /\ NextLimit(v, l)
    /\ \/ /\ cost > MaxAmount
          /\ call' = [call EXCEPT ![v].todo = @ \ {l}, ![v].exceeded = TRUE]
       \/ /\ cost <= MaxAmount
          /\ Available(v, l)
          /\ LET fits == counter[l].live => counter[l].current + cost <= MaxAmount IN
             call' = [call EXCEPT ![v].todo = @ \ {l}, ![v].locked = @ \cup {l},
                                  ![v].taken = IF fits THEN @ \cup {l} ELSE @,
                                  ![v].exceeded = @ \/ ~fits]
    /\ UNCHANGED <<vars, records, audited, answer, unrecorded, faults>>

Checked(v) == call[v].step = "checking" /\ call[v].todo = {}

\* finalizeNonAllow: a limit is exceeded or the rules want a REVIEW, so the
\* transaction is rolled back.
RollbackCounters(v) ==
    /\ Checked(v)
    /\ call[v].exceeded \/ call[v].decision = "REVIEW"
    /\ call' = [call EXCEPT ![v] = [New EXCEPT !.step = "finalizing",
                                       !.decision = IF call[v].exceeded THEN "DENY" ELSE "REVIEW"]]
    /\ UNCHANGED <<vars, records, audited, answer, unrecorded, faults>>

\* Seeded fault: a duplicate request_id does not fail the insert.
InsertWithTx_Upsert(v) ==
    /\ Checked(v)
    /\ ~call[v].exceeded /\ call[v].decision = "ALLOW"
    /\ Inserting(v) = {}
    /\ call' = [call EXCEPT ![v].step = "recorded"]
    /\ UNCHANGED <<vars, records, audited, answer, unrecorded, faults>>

\* commitAllowPath: the record goes into the open transaction; when another
\* call recorded the request first, its record is the answer and this
\* transaction is rolled back.
InsertWithTx(v) ==
    LET q == RequestOf[v] IN
    /\ Checked(v)
    /\ ~call[v].exceeded /\ call[v].decision = "ALLOW"
    /\ Inserting(v) = {}
    /\ \/ /\ Recorded(q)
          /\ Finish(v, records[q])
       \/ /\ ~Recorded(q)
          /\ call' = [call EXCEPT ![v].step = "recorded"]
          /\ UNCHANGED answer
    /\ UNCHANGED <<vars, records, audited, unrecorded, faults>>

\* Seeded fault: the upsert stores the amount instead of adding it.
Counted_Overwrite(v, l) ==
    [live |-> TRUE, current |-> Cost[RequestOf[v]], reserved |-> counter[l].reserved, expiry |-> Period]

\* The counter row after upsertAndIncrementCTEQuery; expires_at is set anew.
Counted(v, l) ==
    [live |-> TRUE, current |-> counter[l].current + Cost[RequestOf[v]],
     reserved |-> counter[l].reserved, expiry |-> Period]

\* The audit event and COMMIT; the acknowledgement may be lost.
Commit(v) ==
    LET q == RequestOf[v] IN
    /\ call[v].step = "recorded"
    /\ counter' = [l \in Limits |-> IF l \in call[v].taken THEN Counted(v, l) ELSE counter[l]]
    /\ records' = [records EXCEPT ![q] = [by |-> v, decision |-> "ALLOW"]]
    /\ audited' = audited \cup {v}
    /\ \/ /\ Finish(v, [by |-> v, decision |-> "ALLOW"])
          /\ UNCHANGED faults
       \/ /\ faults < MaxFaults
          /\ faults' = faults + 1
          /\ Finish(v, Failed)
    /\ UNCHANGED <<rows, elapsed, sweep, ledgerVars, calls, reply, retried, wiped, unrecorded>>

\* Seeded fault: the loser of a race keeps its own response.
Persist_KeepResponse(v) ==
    /\ call[v].step = "finalizing"
    /\ Inserting(v) = {}
    /\ records' = IF Recorded(RequestOf[v]) THEN records
                  ELSE [records EXCEPT ![RequestOf[v]] = [by |-> v, decision |-> call[v].decision]]
    /\ call' = [call EXCEPT ![v].step = "auditing"]
    /\ UNCHANGED <<vars, audited, answer, unrecorded, faults>>

\* persistTransactionValidation after a DENY or REVIEW: a duplicate is answered
\* from its record; an error of the insert, or of the lookup after a
\* duplicate, is logged and the call goes on.
Persist(v) ==
    LET q == RequestOf[v] IN
    /\ call[v].step = "finalizing"
    /\ Inserting(v) = {}
    /\ \/ /\ Recorded(q)
          /\ Finish(v, records[q])
          /\ UNCHANGED <<records, unrecorded, faults>>
       \/ /\ ~Recorded(q)
          /\ records' = [records EXCEPT ![q] = [by |-> v, decision |-> call[v].decision]]
          /\ call' = [call EXCEPT ![v].step = "auditing"]
          /\ UNCHANGED <<answer, unrecorded, faults>>
       \/ /\ faults < MaxFaults
          /\ faults' = faults + 1
          /\ unrecorded' = unrecorded \cup {v}
          /\ call' = [call EXCEPT ![v].step = "auditing"]
          /\ UNCHANGED <<records, answer>>
    /\ UNCHANGED <<vars, audited>>

\* persistAuditEvent, at best effort, and the response.
PersistAudit(v) ==
    /\ call[v].step = "auditing"
    /\ \/ /\ audited' = audited \cup {v}
          /\ UNCHANGED faults
       \/ /\ faults < MaxFaults
          /\ faults' = faults + 1
          /\ UNCHANGED audited
    /\ Finish(v, [by |-> v, decision |-> call[v].decision])
    /\ UNCHANGED <<vars, records, unrecorded>>

\* A database error before COMMIT, the transaction's timeout, or the death of
\* the process: what was not committed is rolled back.
Interrupt(v) ==
    /\ call[v].step # "done"
    /\ faults < MaxFaults
    /\ faults' = faults + 1
    /\ Finish(v, Failed)
    /\ UNCHANGED <<vars, records, audited, unrecorded>>

ValidationStep(v) ==
    \/ Validate(v)
    \/ \E l \in Limits : ProcessLimit(v, l)
    \/ RollbackCounters(v) \/ InsertWithTx(v) \/ Commit(v)
    \/ Persist(v) \/ PersistAudit(v) \/ Interrupt(v)

\* A reservation's statement waits for the counter rows validations hold.
Unlocked(ls) == \A v \in Validations : LockedBy(v) \cap ls = {}

ReservationStep ==
    /\ \/ \E t \in Transactions :
             LedgerStep(t) \/ TTLPasses(t) \/ (Reserve(t) /\ Unlocked(Applies[t]))
       \/ \E c \in calls :
             \/ Lose(c)
             \/ TerminateById(c) /\ Unlocked({c.l})
             \/ TerminateByTransaction(c) /\ Unlocked(Applies[c.t])
       \/ FindExpiredReservations
       \/ \E t \in Transactions, l \in Limits : ReleaseExpired(t, l) /\ Unlocked({l})
       \/ \E l \in Limits : DeleteExpiredCounter(l) /\ Unlocked({l})
    /\ UNCHANGED validationVars

ValidationNext ==
    \/ \E v \in Validations : ValidationStep(v)
    \/ ReservationStep

ValidationSpec == ValidationInit /\ [][ValidationNext]_allVars
-----------------------------------------------------------------------------
(* Properties *)

Decisions == {"ALLOW", "REVIEW", "DENY"}

Allowed(l) == {q \in Requests : records[q].decision = "ALLOW" /\ l \in Matches[q]}

AllowedUsage(l) == SumFunctionOnSet(Cost, Allowed(l))

\* current_usage is exactly what confirmed reservations and ALLOWed requests
\* used: a DENY, a REVIEW, a failed or a repeated validation leaves nothing
\* behind, and a lost commit acknowledgement is not counted again by the retry.
UsageIsAccounted ==
    \A l \in Limits \ wiped :
        counter[l].current = Total(WithStatus(l, "CONFIRMED")) + AllowedUsage(l)

\* However validations interleave, the requests they allow fit the limit.
AllowedWithinLimit == \A l \in Limits \ wiped : AllowedUsage(l) <= MaxAmount

\* A client is told ALLOW only when the ALLOW is recorded under the id it was
\* given, and audited.
AllowIsBacked ==
    \A v \in Validations : answer[v].decision = "ALLOW" =>
        records[RequestOf[v]] = answer[v] /\ answer[v].by \in audited

\* All the answers to one request carry the one recorded decision and
\* validation id, except where persistTransactionValidation gave up.
AnswersAgree ==
    \A v \in Validations : answer[v].decision \in Decisions /\ v \notin unrecorded =>
        answer[v] = records[RequestOf[v]]

\* The validations v has to wait for.
WaitsFor(v) ==
    {u \in Validations \ {v} :
        \/ call[v].step = "checking" /\ \E l \in LockedBy(u) : NextLimit(v, l)
        \/ Checked(v) /\ u \in Inserting(v)
        \/ call[v].step = "finalizing" /\ u \in Inserting(v)}

\* Validations never wait for each other in a circle: every one takes the
\* counters in the order of getApplicableLimits.
NoDeadlock ==
    \A vs \in (SUBSET Validations) \ {{}} : \E v \in vs : WaitsFor(v) \cap vs = {}
=============================================================================
