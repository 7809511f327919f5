-------------------------- MODULE ValidationProofs --------------------------
(***************************************************************************)
(* What TLAPS proves about reservations, for any sets of transactions and  *)
(* limits, any amounts and scale, either posture of the anchor and any     *)
(* number of lost, late and repeated calls; and about the validations that *)
(* share their counters, for any number of validations and requests, any   *)
(* rule outcome and any number of database errors, lost acknowledgements   *)
(* and crashes.                                                            *)
(***************************************************************************)
EXTENDS Validation, Sums
-----------------------------------------------------------------------------
(***************************************************************************)
(* Reservations.                                                           *)
(***************************************************************************)
Pairs == Transactions \X Limits

Calls ==
    [op : {"reserve", "confirmTx", "releaseTx"}, t : Transactions]
    \cup [op : {"confirm", "release"}, t : Transactions, l : Limits]

Counters == [live : BOOLEAN, current : Int, reserved : Int, expiry : Transactions \cup {Period}]

Types ==
    /\ counter \in [Limits -> Counters]
    /\ rows \in [Pairs -> {"none", "RESERVED"} \cup Terminal]
    /\ sweep \subseteq Pairs
    /\ tx \in [Transactions -> {"created", "reserving", "rejected", "executing", "pending",
                                "committed", "aborted"}]
    /\ handle \in [Transactions -> SUBSET Limits]
    /\ calls \subseteq Calls

\* A confirm is under way only for a transaction whose balances committed.
ConfirmsFollowCommit ==
    \A c \in calls : c.op \in {"confirm", "confirmTx"} => tx[c.t] = "committed"

\* A counter that does not exist counts nothing: the insert branch of the
\* reserve CTE, which has no guard, starts from zero.
MissingIsEmpty ==
    \A l \in Limits : ~counter[l].live => counter[l].current = 0 /\ counter[l].reserved = 0

\* Rows exist only on the limits that match their transaction.
RowsApply ==
    \A t \in Transactions, l \in Limits : rows[<<t, l>>] # "none" => l \in Applies[t]

\* A reserve call that was not repeated arrives before its transaction has rows.
FirstReserve ==
    \A t \in Transactions :
        /\ tx[t] = "created" => ReserveCall(t) \notin calls
        /\ tx[t] = "created" \/ (ReserveCall(t) \in calls /\ t \notin retried) =>
              \A l \in Limits : rows[<<t, l>>] = "none"

ReservationInv ==
    /\ Types
    /\ ConfirmsFollowCommit
    /\ MissingIsEmpty
    /\ ConfirmedWasCommitted
    /\ AllOrNothing
    /\ RowsApply
    /\ FirstReserve
-----------------------------------------------------------------------------
(* The tracer's operators *)

\* Truncation keeps an amount that passed the amount-alone check within the
\* limit.
LEMMA WholeWithinLimit ==
  ASSUME NEW t \in Transactions
  PROVE  /\ Whole(t) \in Nat
         /\ Amount[t] <= MaxAmount * Scale => Whole(t) <= MaxAmount
  <1> DEFINE q == Amount[t] \div Scale
             r == Amount[t] % Scale
  <1>1. Amount[t] \in Nat /\ Scale \in Nat /\ Scale > 0 /\ MaxAmount \in Nat
    BY TransactionsAssumption
  <1>2. q \in Nat /\ r \in Nat /\ Amount[t] = Scale * q + r
    BY <1>1
  <1> HIDE DEF q, r
  <1>3. ASSUME q > MaxAmount PROVE Amount[t] > MaxAmount * Scale
    <2>1. PICK d \in Nat : q = MaxAmount + 1 + d
      <3>1. q - MaxAmount - 1 \in Nat BY <1>1, <1>2, <1>3
      <3> QED BY <3>1, <1>1, <1>2
    <2>2. Scale * q = Scale * MaxAmount + Scale + Scale * d
      BY <2>1, <1>1
    <2>3. Scale * d \in Nat /\ Scale * MaxAmount = MaxAmount * Scale /\ MaxAmount * Scale \in Nat
      BY <1>1
    <2> QED BY <1>1, <1>2, <2>2, <2>3
  <1>4. Whole(t) = q
    BY DEF Whole, q
  <1>5. MaxAmount * Scale \in Nat BY <1>1
  <1> QED BY <1>1, <1>2, <1>3, <1>4, <1>5

LEMMA HeldSound ==
  ASSUME NEW t \in Transactions, NEW c \in Counters
  PROVE  /\ Held(c, t) \in Counters
         /\ Held(c, t).current = c.current
         /\ Whole(t) > 0 => Held(c, t).live /\ Held(c, t).reserved = c.reserved + Whole(t)
         /\ Whole(t) = 0 => Held(c, t) = c
  BY WholeWithinLimit DEF Held, Counters

LEMMA TerminatedSound ==
  ASSUME NEW c \in Counters, NEW n \in Nat, NEW status \in Terminal
  PROVE  /\ Terminated(c, n, status) \in Counters
         /\ Terminated(c, n, status).live = c.live
         /\ Terminated(c, n, status).reserved = c.reserved - n
         /\ Terminated(c, n, status).current = IF status = "CONFIRMED" THEN c.current + n ELSE c.current
  <1> DEFINE used == IF status = "CONFIRMED" THEN c.current + n ELSE c.current
  <1>1. c.current \in Int /\ c.reserved \in Int
    BY DEF Counters
  <1>2. used \in Int /\ used = IF status = "CONFIRMED" THEN c.current + n ELSE c.current
    BY <1>1
  <1>3. Terminated(c, n, status) = [c EXCEPT !.reserved = c.reserved - n, !.current = used]
    BY DEF Terminated
  <1> HIDE DEF used
  <1>4. c.reserved - n \in Int
    BY <1>1
  <1> QED BY <1>2, <1>3, <1>4, Zenon DEF Counters

-----------------------------------------------------------------------------
(* What a step may do to the counter of a limit and to the rows on it *)

RowsStay(l, ts) == \A t \in ts : rows'[<<t, l>>] = rows[<<t, l>>]

Same(l) == counter'[l] = counter[l] /\ RowsStay(l, Transactions)

Holds(t, l) ==
    /\ ReserveCall(t) \in calls /\ l \in Applies[t] /\ Fits(t, l)
    /\ counter'[l] = Held(counter[l], t)
    /\ rows'[<<t, l>>] = IF rows[<<t, l>>] = "none" THEN "RESERVED" ELSE rows[<<t, l>>]
    /\ RowsStay(l, Transactions \ {t})

Ends(t, l, status) ==
    /\ rows[<<t, l>>] = "RESERVED" /\ Movable(t, l)
    /\ counter'[l] = Terminated(counter[l], Whole(t), status)
    /\ rows'[<<t, l>>] = status
    /\ RowsStay(l, Transactions \ {t})

Deletes(l) == counter'[l] = NoCounter /\ l \in wiped' /\ RowsStay(l, Transactions)

CounterStep(l) ==
    \/ Same(l)
    \/ \E t \in Transactions : Holds(t, l)
    \/ \E t \in Transactions, status \in Terminal : Ends(t, l, status)
    \/ Deletes(l)

\* A call or the reaper ends RESERVED rows with their counters, or nothing.
LEMMA TerminateSteps ==
  ASSUME Types, NEW t \in Transactions, NEW ls \in SUBSET Limits, NEW status \in Terminal,
         Terminate(t, ls, status)
  PROVE  /\ DOMAIN counter' = Limits /\ DOMAIN rows' = Pairs
         /\ counter' = [l \in Limits |-> counter'[l]] /\ rows' = [p \in Pairs |-> rows'[p]]
         /\ \A l \in Limits : Same(l) \/ (l \in ls /\ Ends(t, l, status))
  <1> DEFINE due == {l \in ls : rows[<<t, l>>] = "RESERVED"}
  <1>0. /\ DOMAIN rows = Pairs /\ DOMAIN counter = Limits
        /\ rows = [p \in Pairs |-> rows[p]] /\ counter = [l \in Limits |-> counter[l]]
        /\ \A u \in Transactions, l \in Limits : <<u, l>> \in Pairs
    BY DEF Types, Pairs
  <1>1. CASE UNCHANGED <<counter, rows>>
    BY <1>0, <1>1 DEF Same, RowsStay
  <1>2. CASE /\ \A l \in due : Movable(t, l)
             /\ counter' = [l \in Limits |-> IF l \in due THEN Terminated(counter[l], Whole(t), status)
                                             ELSE counter[l]]
             /\ rows' = [p \in DOMAIN rows |-> IF p[1] = t /\ p[2] \in due THEN status ELSE rows[p]]
    <2>1. ASSUME NEW l \in Limits PROVE Same(l) \/ (l \in ls /\ Ends(t, l, status))
      <3>1. \A u \in Transactions \ {t} : rows'[<<u, l>>] = rows[<<u, l>>]
        BY <1>0, <1>2
      <3>2. CASE l \in due
        BY <1>0, <1>2, <3>1, <3>2 DEF Ends, RowsStay
      <3>3. CASE l \notin due
        <4>1. rows'[<<t, l>>] = rows[<<t, l>>] /\ counter'[l] = counter[l]
          BY <1>0, <1>2, <3>3
        <4> QED BY <3>1, <4>1 DEF Same, RowsStay
      <3> QED BY <3>2, <3>3
    <2>2. DOMAIN counter' = Limits /\ counter' = [l \in Limits |-> counter'[l]]
      BY <1>2
    <2>3. DOMAIN rows' = Pairs /\ rows' = [p \in Pairs |-> rows'[p]]
      BY <1>0, <1>2
    <2> QED BY <2>1, <2>2, <2>3
  <1> QED BY <1>1, <1>2 DEF Terminate

\* A granted reserve call holds capacity on all the limits of its transaction.
LEMMA ReserveSteps ==
  ASSUME Types, NEW t \in Transactions, Reserve(t)
  PROVE  /\ counter' = [l \in Limits |-> counter'[l]] /\ rows' = [p \in Pairs |-> rows'[p]]
         /\ \/ \A l \in Limits : Same(l)
            \/ \A l \in Limits : IF l \in Applies[t] THEN Holds(t, l) ELSE Same(l)
  <1> DEFINE fresh == {l \in Applies[t] : rows[<<t, l>>] = "none"}
  <1>0. /\ DOMAIN rows = Pairs /\ Applies[t] \subseteq Limits
        /\ rows = [p \in Pairs |-> rows[p]] /\ counter = [l \in Limits |-> counter[l]]
        /\ \A u \in Transactions, l \in Limits : <<u, l>> \in Pairs
    BY TransactionsAssumption DEF Types, Pairs
  <1>1. CASE UNCHANGED <<counter, rows>>
    BY <1>0, <1>1 DEF Same, RowsStay
  <1>2. CASE /\ \A l \in Applies[t] : Fits(t, l)
             /\ counter' = [l \in Limits |-> IF l \in Applies[t] THEN Held(counter[l], t) ELSE counter[l]]
             /\ rows' = [p \in DOMAIN rows |->
                            IF p[1] = t /\ p[2] \in fresh THEN "RESERVED" ELSE rows[p]]
    <2>0. ReserveCall(t) \in calls
      BY DEF Reserve
    <2>1. ASSUME NEW l \in Limits PROVE IF l \in Applies[t] THEN Holds(t, l) ELSE Same(l)
      <3>1. \A u \in Transactions \ {t} : rows'[<<u, l>>] = rows[<<u, l>>]
        BY <1>0, <1>2
      <3>2. CASE l \in Applies[t]
        <4>1. rows'[<<t, l>>] = IF rows[<<t, l>>] = "none" THEN "RESERVED" ELSE rows[<<t, l>>]
          BY <1>0, <1>2, <3>2
        <4>2. counter'[l] = Held(counter[l], t)
          BY <1>2, <3>2
        <4> QED BY <1>2, <2>0, <3>1, <3>2, <4>1, <4>2 DEF Holds, RowsStay
      <3>3. CASE l \notin Applies[t]
        <4>1. rows'[<<t, l>>] = rows[<<t, l>>] /\ counter'[l] = counter[l]
          BY <1>0, <1>2, <3>3
        <4> QED BY <3>1, <3>3, <4>1 DEF Same, RowsStay
      <3> QED BY <3>2, <3>3
    <2>2. counter' = [l \in Limits |-> counter'[l]] /\ rows' = [p \in Pairs |-> rows'[p]]
      BY <1>0, <1>2
    <2> QED BY <2>1, <2>2
  <1> QED BY <1>1, <1>2 DEF Reserve

\* Every step keeps a counter's type, and a missing counter counts nothing.
LEMMA CounterStepTyped ==
  ASSUME Types, MissingIsEmpty, NEW l \in Limits, CounterStep(l)
  PROVE  /\ counter'[l] \in Counters
         /\ ~counter'[l].live => counter'[l].current = 0 /\ counter'[l].reserved = 0
         /\ \A t \in Transactions : rows'[<<t, l>>] \in {"none", "RESERVED"} \cup Terminal
  <1>0. /\ counter[l] \in Counters
        /\ ~counter[l].live => counter[l].current = 0 /\ counter[l].reserved = 0
        /\ \A t \in Transactions : rows[<<t, l>>] \in {"none", "RESERVED"} \cup Terminal
    BY DEF Types, MissingIsEmpty, Pairs
  <1>1. CASE Same(l)
    BY <1>0, <1>1 DEF Same, RowsStay
  <1>2. ASSUME NEW t \in Transactions, Holds(t, l)
        PROVE  /\ counter'[l] \in Counters
               /\ ~counter'[l].live => counter'[l].current = 0 /\ counter'[l].reserved = 0
               /\ \A u \in Transactions : rows'[<<u, l>>] \in {"none", "RESERVED"} \cup Terminal
    <2>1. Whole(t) \in Nat /\ counter'[l] = Held(counter[l], t)
      BY <1>2, WholeWithinLimit DEF Holds
    <2>2. /\ counter'[l] \in Counters
          /\ ~counter'[l].live => counter'[l].current = 0 /\ counter'[l].reserved = 0
      BY <1>0, <2>1, HeldSound
    <2> QED BY <1>0, <1>2, <2>2 DEF Holds, RowsStay
  <1>3. ASSUME NEW t \in Transactions, NEW status \in Terminal, Ends(t, l, status)
        PROVE  /\ counter'[l] \in Counters
               /\ ~counter'[l].live => counter'[l].current = 0 /\ counter'[l].reserved = 0
               /\ \A u \in Transactions : rows'[<<u, l>>] \in {"none", "RESERVED"} \cup Terminal
    <2>1. Whole(t) \in Nat /\ counter'[l] = Terminated(counter[l], Whole(t), status) /\ counter[l].live
      BY <1>3, WholeWithinLimit DEF Ends, Movable
    <2>2. counter'[l] \in Counters /\ counter'[l].live
      BY <1>0, <2>1, TerminatedSound
    <2> QED BY <1>0, <1>3, <2>2 DEF Ends, RowsStay
  <1>4. CASE Deletes(l)
    <2>1. NoCounter \in Counters /\ NoCounter.current = 0 /\ NoCounter.reserved = 0
      BY DEF NoCounter, Counters
    <2> QED BY <1>0, <1>4, <2>1 DEF Deletes, RowsStay
  <1> QED BY <1>1, <1>2, <1>3, <1>4 DEF CounterStep

\* A call that ends reservations ends only rows that were RESERVED, and creates
\* none.
LEMMA TerminateSound ==
  ASSUME Types, MissingIsEmpty,
         NEW t \in Transactions, NEW ls \in SUBSET Limits, NEW status \in Terminal,
         Terminate(t, ls, status)
  PROVE  /\ counter' \in [Limits -> Counters]
         /\ rows' \in [Pairs -> {"none", "RESERVED"} \cup Terminal]
         /\ MissingIsEmpty'
         /\ \A p \in Pairs :
              /\ rows'[p] = "none" <=> rows[p] = "none"
              /\ rows[p] \in Terminal => rows'[p] = rows[p]
              /\ rows'[p] = "CONFIRMED" => rows[p] = "CONFIRMED" \/ (p[1] = t /\ status = "CONFIRMED")
  <1>1. /\ counter' = [l \in Limits |-> counter'[l]] /\ rows' = [p \in Pairs |-> rows'[p]]
        /\ \A l \in Limits : Same(l) \/ Ends(t, l, status)
    BY TerminateSteps
  <1>2. ASSUME NEW l \in Limits
        PROVE  /\ counter'[l] \in Counters
               /\ ~counter'[l].live => counter'[l].current = 0 /\ counter'[l].reserved = 0
               /\ \A u \in Transactions : rows'[<<u, l>>] \in {"none", "RESERVED"} \cup Terminal
    BY <1>1, CounterStepTyped DEF CounterStep
  <1>3. ASSUME NEW p \in Pairs
        PROVE  /\ rows'[p] \in {"none", "RESERVED"} \cup Terminal
               /\ rows'[p] = "none" <=> rows[p] = "none"
               /\ rows[p] \in Terminal => rows'[p] = rows[p]
               /\ rows'[p] = "CONFIRMED" => rows[p] = "CONFIRMED" \/ (p[1] = t /\ status = "CONFIRMED")
    <2>1. PICK u \in Transactions, l \in Limits : p = <<u, l>>
      BY DEF Pairs
    <2>2. CASE Same(l)
      BY <1>2, <2>1, <2>2 DEF Same, RowsStay
    <2>3. CASE Ends(t, l, status) /\ u # t
      BY <1>2, <2>1, <2>3 DEF Ends, RowsStay
    <2>4. CASE Ends(t, l, status) /\ u = t
      BY <1>2, <2>1, <2>4 DEF Ends, Terminal
    <2> QED BY <1>1, <2>2, <2>3, <2>4
  <1>4. MissingIsEmpty'
    BY <1>2 DEF MissingIsEmpty
  <1>5. counter' \in [Limits -> Counters]
    BY <1>1, <1>2
  <1>6. rows' \in [Pairs -> {"none", "RESERVED"} \cup Terminal]
    BY <1>1, <1>3
  <1> QED BY <1>3, <1>4, <1>5, <1>6

\* A granted reserve call creates rows on all the limits of its transaction,
\* and touches no other row.
LEMMA ReserveSound ==
  ASSUME Types, MissingIsEmpty, NEW t \in Transactions, Reserve(t)
  PROVE  /\ counter' \in [Limits -> Counters]
         /\ rows' \in [Pairs -> {"none", "RESERVED"} \cup Terminal]
         /\ handle' \in [Transactions -> SUBSET Limits]
         /\ MissingIsEmpty'
         /\ \A p \in Pairs : rows[p] # "none" => rows'[p] = rows[p]
         /\ \A p \in Pairs : rows'[p] # rows[p] => rows'[p] = "RESERVED" /\ p[1] = t /\ p[2] \in Applies[t]
         /\ \A u \in Transactions : \/ \A l \in Applies[u] : rows'[<<u, l>>] = rows[<<u, l>>]
                                    \/ \A l \in Applies[u] : rows'[<<u, l>>] # "none"
  <1>1. /\ counter' = [l \in Limits |-> counter'[l]] /\ rows' = [p \in Pairs |-> rows'[p]]
        /\ \/ \A l \in Limits : Same(l)
           \/ \A l \in Limits : IF l \in Applies[t] THEN Holds(t, l) ELSE Same(l)
    BY ReserveSteps
  <1>2. ASSUME NEW l \in Limits
        PROVE  /\ counter'[l] \in Counters
               /\ ~counter'[l].live => counter'[l].current = 0 /\ counter'[l].reserved = 0
               /\ \A u \in Transactions : rows'[<<u, l>>] \in {"none", "RESERVED"} \cup Terminal
    <2>1. CounterStep(l)
      BY <1>1 DEF CounterStep
    <2> QED BY <2>1, CounterStepTyped
  <1>3. ASSUME NEW p \in Pairs
        PROVE  /\ rows'[p] \in {"none", "RESERVED"} \cup Terminal
               /\ rows[p] # "none" => rows'[p] = rows[p]
               /\ rows'[p] # rows[p] => rows'[p] = "RESERVED" /\ p[1] = t /\ p[2] \in Applies[t]
    <2>1. PICK u \in Transactions, l \in Limits : p = <<u, l>>
      BY DEF Pairs
    <2>2. CASE Same(l)
      BY <1>2, <2>1, <2>2 DEF Same, RowsStay
    <2>3. CASE Holds(t, l) /\ u # t
      BY <1>2, <2>1, <2>3 DEF Holds, RowsStay
    <2>4. CASE Holds(t, l) /\ u = t
      BY <1>2, <2>1, <2>4 DEF Holds
    <2> QED BY <1>1, <2>2, <2>3, <2>4
  <1>4. MissingIsEmpty'
    BY <1>2 DEF MissingIsEmpty
  <1>5. counter' \in [Limits -> Counters]
    BY <1>1, <1>2
  <1>6. rows' \in [Pairs -> {"none", "RESERVED"} \cup Terminal]
    BY <1>1, <1>3
  <1>7. handle' \in [Transactions -> SUBSET Limits]
    <2> DEFINE fresh == {l \in Applies[t] : rows[<<t, l>>] = "none"}
    <2>1. fresh \in SUBSET Limits /\ handle \in [Transactions -> SUBSET Limits]
      BY TransactionsAssumption DEF Types
    <2>2. handle' \in {handle, [handle EXCEPT ![t] = fresh]}
      BY DEF Reserve
    <2> HIDE DEF fresh
    <2> QED BY <2>1, <2>2
  <1>8. ASSUME NEW u \in Transactions
        PROVE  \/ \A l \in Applies[u] : rows'[<<u, l>>] = rows[<<u, l>>]
               \/ \A l \in Applies[u] : rows'[<<u, l>>] # "none"
    <2>1. Applies[u] \subseteq Limits
      BY TransactionsAssumption
    <2>2. CASE \A l \in Limits : Same(l)
      BY <2>1, <2>2 DEF Same, RowsStay
    <2>3. CASE u # t /\ \A l \in Limits : IF l \in Applies[t] THEN Holds(t, l) ELSE Same(l)
      BY <2>1, <2>3, Zenon DEF Same, Holds, RowsStay
    <2>4. CASE u = t /\ \A l \in Limits : IF l \in Applies[t] THEN Holds(t, l) ELSE Same(l)
      BY <2>1, <2>4 DEF Holds
    <2> QED BY <1>1, <2>2, <2>3, <2>4
  <1> QED BY <1>3, <1>4, <1>5, <1>6, <1>7, <1>8

-----------------------------------------------------------------------------
(* The invariant *)

LEMMA InitialReservations == Init => ReservationInv
  <1> SUFFICES ASSUME Init PROVE ReservationInv
    OBVIOUS
  <1>1. Types
    BY DEF Init, Types, Pairs, Counters, NoCounter, Period
  <1>2. MissingIsEmpty /\ RowsApply /\ FirstReserve
    BY DEF Init, MissingIsEmpty, NoCounter, RowsApply, FirstReserve
  <1>3. ConfirmsFollowCommit
    BY DEF Init, ConfirmsFollowCommit
  <1>4. ConfirmedWasCommitted /\ AllOrNothing
    BY TransactionsAssumption DEF Init, ConfirmedWasCommitted, AllOrNothing
  <1> QED BY <1>1, <1>2, <1>3, <1>4 DEF ReservationInv

\* A step of the ledger may only add calls, and confirms only what committed.
LEMMA LedgerSound ==
  ASSUME ReservationInv, NEW t \in Transactions, LedgerStep(t)
  PROVE  ReservationInv'
  <1> USE DEF ReservationInv
  <1>1. UNCHANGED <<counter, rows, elapsed, sweep>>
    BY DEF LedgerStep, SendReserve, RetryReserve, ReceiveReply, ReserveUnavailable, BalancesCommit,
           BalancesFail, CommitPending, CancelPending, tracerVars
  <1>2. /\ tx' \in [Transactions -> {"created", "reserving", "rejected", "executing", "pending",
                                     "committed", "aborted"}]
        /\ \A u \in Transactions : tx[u] = "committed" => tx'[u] = "committed"
    BY DEF LedgerStep, SendReserve, RetryReserve, ReceiveReply, ReserveUnavailable, BalancesCommit,
           BalancesFail, CommitPending, CancelPending, ledgerVars, Types
  <1>3. handle' \in [Transactions -> SUBSET Limits]
    BY Zenon DEF LedgerStep, SendReserve, RetryReserve, ReceiveReply, ReserveUnavailable, BalancesCommit,
           BalancesFail, CommitPending, CancelPending, ledgerVars, Types
  <1>4. \A c \in calls' \ calls :
          c \in Calls /\ (c.op \in {"confirm", "confirmTx"} => tx'[c.t] = "committed")
    <2>1. handle[t] \subseteq Limits
      BY DEF Types
    <2>2. CASE SendReserve(t) \/ RetryReserve(t)
      BY <2>2 DEF SendReserve, RetryReserve, ReserveCall, Calls
    <2>3. CASE ReceiveReply(t) \/ ReserveUnavailable(t)
      BY <2>3 DEF ReceiveReply, ReserveUnavailable
    <2>4. CASE BalancesCommit(t)
      <3>1. CASE UNCHANGED calls
        BY <3>1
      <3>2. CASE /\ tx' = [tx EXCEPT ![t] = "committed"]
                 /\ calls' = calls \cup ByIdCalls("confirm", t, handle[t])
        BY <2>1, <3>2 DEF ByIdCalls, Calls, Types
      <3> QED BY <2>4, <3>1, <3>2 DEF BalancesCommit
    <2>5. CASE BalancesFail(t)
      BY <2>1, <2>5 DEF BalancesFail, ByIdCalls, Calls
    <2>6. CASE CommitPending(t)
      BY <2>6 DEF CommitPending, ByTransactionCall, Calls, Types
    <2>7. CASE CancelPending(t)
      BY <2>7 DEF CancelPending, ByTransactionCall, Calls
    <2> QED BY <2>2, <2>3, <2>4, <2>5, <2>6, <2>7 DEF LedgerStep
  <1>5. \A c \in Calls : c.t \in Transactions
    BY DEF Calls
  <1>6. Types'
    BY <1>1, <1>2, <1>3, <1>4 DEF Types
  <1>7. ConfirmsFollowCommit'
    BY <1>2, <1>4, <1>5 DEF ConfirmsFollowCommit, Types
  <1>8. ConfirmedWasCommitted'
    BY <1>1, <1>2, Zenon DEF ConfirmedWasCommitted
  <1>9. MissingIsEmpty' /\ AllOrNothing' /\ RowsApply'
    BY <1>1 DEF MissingIsEmpty, AllOrNothing, RowsApply
  <1>10. FirstReserve'
    <2>1. /\ retried \subseteq retried' /\ \A u \in Transactions : tx'[u] = "created" => tx[u] = "created"
          /\ \A u \in Transactions : ReserveCall(u) \in calls' \ calls =>
                tx'[u] # "created" /\ (tx[u] = "created" \/ u \in retried')
      <3>1. CASE SendReserve(t)
        BY <3>1 DEF SendReserve, Types, ReserveCall
      <3>2. CASE RetryReserve(t)
        BY <3>2 DEF RetryReserve, ledgerVars, Types, ReserveCall
      <3>3. CASE ReceiveReply(t) \/ ReserveUnavailable(t)
        BY <3>3, Zenon DEF ReceiveReply, ReserveUnavailable, Types
      <3>4. CASE BalancesCommit(t)
        BY <3>4 DEF BalancesCommit, Types, ReserveCall, ByIdCalls
      <3>5. CASE BalancesFail(t)
        BY <3>5, Zenon DEF BalancesFail, Types, ReserveCall, ByIdCalls
      <3>6. CASE CommitPending(t) \/ CancelPending(t)
        BY <3>6, Zenon DEF CommitPending, CancelPending, Types, ReserveCall, ByTransactionCall
      <3> QED BY <3>1, <3>2, <3>3, <3>4, <3>5, <3>6, Zenon DEF LedgerStep
    <2> QED BY <1>1, <2>1, Zenon DEF FirstReserve
  <1> QED BY <1>6, <1>7, <1>8, <1>9, <1>10, Zenon

\* What is left of the invariant once a call or the reaper ended rows of t.
LEMMA TerminationSound ==
  ASSUME ReservationInv, NEW t \in Transactions, NEW ls \in SUBSET Limits, NEW status \in Terminal,
         Terminate(t, ls, status), status = "CONFIRMED" => tx[t] = "committed",
         UNCHANGED <<tx, handle, retried>>, calls' \subseteq calls, sweep' \subseteq sweep
  PROVE  ReservationInv'
  <1> USE DEF ReservationInv
  <1>1. /\ counter' \in [Limits -> Counters]
        /\ rows' \in [Pairs -> {"none", "RESERVED"} \cup Terminal]
        /\ MissingIsEmpty'
        /\ \A p \in Pairs :
             /\ rows'[p] = "none" <=> rows[p] = "none"
             /\ rows'[p] = "CONFIRMED" => rows[p] = "CONFIRMED" \/ (p[1] = t /\ status = "CONFIRMED")
    BY TerminateSound, ZenonT(30)
  <1>2. Types' /\ ConfirmsFollowCommit'
    BY <1>1 DEF Types, ConfirmsFollowCommit
  <1>3. ConfirmedWasCommitted' /\ RowsApply' /\ FirstReserve'
    BY <1>1 DEF ConfirmedWasCommitted, RowsApply, FirstReserve, Pairs
  <1>4. AllOrNothing'
    <2>1. \A u \in Transactions : \A l \in Applies[u] : <<u, l>> \in Pairs
      BY TransactionsAssumption DEF Pairs
    <2> QED BY <1>1, <2>1, Zenon DEF AllOrNothing
  <1> QED BY <1>1, <1>2, <1>3, <1>4

\* Every call under way names a transaction, and every pair of a sweep a row.
LEMMA CallsNameTransactions ==
  ASSUME Types, NEW c \in calls
  PROVE  /\ c \in Calls
         /\ c.t \in Transactions
         /\ c.op \in {"confirm", "release"} => c.l \in Limits
  BY DEF Types, Calls

LEMMA ReservationInvPreserved ==
  ASSUME ReservationInv, [Next]_vars
  PROVE  ReservationInv'
  <1> USE DEF ReservationInv
  <1>1. ASSUME NEW t \in Transactions, Reserve(t) PROVE ReservationInv'
    <2>1. calls' = calls \ {ReserveCall(t)} /\ ReserveCall(t) \in calls /\ UNCHANGED <<sweep, tx, retried>>
      BY <1>1, Zenon DEF Reserve
    <2>2. Types' /\ MissingIsEmpty' /\ ConfirmsFollowCommit'
      BY <1>1, <2>1, ReserveSound, Zenon DEF Types, ConfirmsFollowCommit
    <2>3. ConfirmedWasCommitted'
      BY <1>1, <2>1, ReserveSound DEF ConfirmedWasCommitted, Pairs
    <2>4. AllOrNothing'
      <3>1. \A u \in Transactions : \/ \A l \in Applies[u] : rows'[<<u, l>>] = rows[<<u, l>>]
                                   \/ \A l \in Applies[u] : rows'[<<u, l>>] # "none"
        BY <1>1, ReserveSound
      <3> QED BY <3>1, Zenon DEF AllOrNothing
    <2>5. RowsApply'
      BY <1>1, ReserveSound DEF RowsApply, Pairs
    <2>6. FirstReserve'
      BY <1>1, <2>1, ReserveSound DEF FirstReserve, Pairs
    <2> QED BY <2>2, <2>3, <2>4, <2>5, <2>6, Zenon
  <1>2. ASSUME NEW t \in Transactions, TTLPasses(t) PROVE ReservationInv'
    BY <1>2, Zenon DEF TTLPasses, ledgerVars, Types, MissingIsEmpty, RowsApply, FirstReserve, ConfirmsFollowCommit,
                ConfirmedWasCommitted, AllOrNothing
  <1>3. ASSUME NEW c \in calls, Lose(c) PROVE ReservationInv'
    BY <1>3 DEF Lose, tracerVars, ledgerVars, Types, MissingIsEmpty, RowsApply, FirstReserve,
                ConfirmsFollowCommit, ConfirmedWasCommitted, AllOrNothing
  <1>4. ASSUME NEW c \in calls, TerminateById(c) PROVE ReservationInv'
    <2>1. c.t \in Transactions /\ {c.l} \in SUBSET Limits
      BY <1>4, CallsNameTransactions, Zenon DEF TerminateById
    <2>2. StatusOf(c.op) \in Terminal /\ (StatusOf(c.op) = "CONFIRMED" => tx[c.t] = "committed")
      BY <1>4 DEF TerminateById, StatusOf, Terminal, ConfirmsFollowCommit
    <2>3. calls' \subseteq calls /\ sweep' \subseteq sweep /\ UNCHANGED <<tx, handle, retried>>
          /\ Terminate(c.t, {c.l}, StatusOf(c.op))
      BY <1>4 DEF TerminateById, ledgerVars
    <2> QED BY <2>1, <2>2, <2>3, TerminationSound
  <1>5. ASSUME NEW c \in calls, TerminateByTransaction(c) PROVE ReservationInv'
    <2>1. c.t \in Transactions
      BY CallsNameTransactions
    <2>2. StatusOf(c.op) \in Terminal /\ (StatusOf(c.op) = "CONFIRMED" => tx[c.t] = "committed")
      BY <1>5 DEF TerminateByTransaction, StatusOf, Terminal, ConfirmsFollowCommit
    <2>3. calls' \subseteq calls /\ sweep' \subseteq sweep /\ UNCHANGED <<tx, handle, retried>>
          /\ Terminate(c.t, Limits, StatusOf(c.op))
      BY <1>5 DEF TerminateByTransaction, ledgerVars
    <2> QED BY <2>1, <2>2, <2>3, TerminationSound
  <1>6. ASSUME NEW l \in Limits, DeleteExpiredCounter(l) PROVE ReservationInv'
    <2>1. NoCounter \in Counters /\ NoCounter.current = 0 /\ NoCounter.reserved = 0
      BY DEF NoCounter, Counters
    <2>2. counter' = [counter EXCEPT ![l] = NoCounter] /\ UNCHANGED <<rows, sweep, tx, handle, calls, retried>>
      BY <1>6 DEF DeleteExpiredCounter, ledgerVars
    <2>3. Types' /\ MissingIsEmpty'
      BY <2>1, <2>2, Zenon DEF Types, MissingIsEmpty
    <2>4. ConfirmsFollowCommit' /\ ConfirmedWasCommitted' /\ AllOrNothing' /\ RowsApply' /\ FirstReserve'
      BY <2>2, Zenon DEF ConfirmsFollowCommit, ConfirmedWasCommitted, AllOrNothing, RowsApply, FirstReserve
    <2> QED BY <2>3, <2>4
  <1>7. ASSUME FindExpiredReservations PROVE ReservationInv'
    BY <1>7 DEF FindExpiredReservations, ledgerVars, Types, MissingIsEmpty, RowsApply, FirstReserve,
                ConfirmsFollowCommit, ConfirmedWasCommitted, AllOrNothing
  <1>8. ASSUME NEW t \in Transactions, NEW l \in Limits, ReleaseExpired(t, l) PROVE ReservationInv'
    <2>1. calls' \subseteq calls /\ sweep' \subseteq sweep /\ UNCHANGED <<tx, handle, retried>>
          /\ Terminate(t, {l}, "EXPIRED")
      BY <1>8 DEF ReleaseExpired, ledgerVars
    <2>2. "EXPIRED" \in Terminal /\ {l} \in SUBSET Limits
      BY Zenon DEF Terminal
    <2> QED BY <2>1, <2>2, TerminationSound, Zenon
  <1>9. CASE UNCHANGED vars
    BY <1>9 DEF vars, Types, MissingIsEmpty, RowsApply, FirstReserve, ConfirmsFollowCommit,
                ConfirmedWasCommitted, AllOrNothing
  <1> QED BY <1>1, <1>2, <1>3, <1>4, <1>5, <1>6, <1>7, <1>8, <1>9, LedgerSound, Zenon DEF Next

LEMMA ReservationInvariant == Spec => []ReservationInv
  <1>1. Init => ReservationInv
    BY InitialReservations
  <1>2. ReservationInv /\ [Next]_vars => ReservationInv'
    BY ReservationInvPreserved, Zenon
  <1> QED BY <1>1, <1>2, PTL DEF Spec

\* A row that is confirmed, released or expired stays so under every step.
LEMMA TerminalRowsStay ==
  ASSUME ReservationInv, [Next]_vars
  PROVE  \A p \in DOMAIN rows : rows[p] \in Terminal => rows'[p] = rows[p]
  <1> USE DEF ReservationInv
  <1>1. SUFFICES ASSUME NEW p \in Pairs, rows[p] \in Terminal PROVE rows'[p] = rows[p]
    BY Zenon DEF Types
  <1>2. ASSUME NEW t \in Transactions, LedgerStep(t) \/ TTLPasses(t) PROVE rows'[p] = rows[p]
    BY <1>2, Zenon DEF LedgerStep, SendReserve, RetryReserve, ReceiveReply, ReserveUnavailable,
                BalancesCommit, BalancesFail, CommitPending, CancelPending, TTLPasses, tracerVars
  <1>3. ASSUME NEW t \in Transactions, Reserve(t) PROVE rows'[p] = rows[p]
    BY <1>1, <1>3, ReserveSound DEF Terminal
  <1>4. ASSUME NEW t \in Transactions, NEW ls \in SUBSET Limits, NEW status \in Terminal,
               Terminate(t, ls, status)
        PROVE  rows'[p] = rows[p]
    <2>1. /\ rows'[p] = "none" <=> rows[p] = "none"
          /\ rows[p] \in Terminal => rows'[p] = rows[p]
          /\ rows'[p] = "CONFIRMED" => rows[p] = "CONFIRMED" \/ (p[1] = t /\ status = "CONFIRMED")
      BY <1>4, TerminateSound, Zenon
    <2> QED BY <1>1, <2>1
  <1>5. ASSUME NEW c \in calls, TerminateById(c) \/ TerminateByTransaction(c) PROVE rows'[p] = rows[p]
    <2>1. c.t \in Transactions /\ StatusOf(c.op) \in Terminal /\ Limits \in SUBSET Limits
      BY CallsNameTransactions DEF StatusOf, Terminal
    <2>2. CASE TerminateById(c)
      <3>1. {c.l} \in SUBSET Limits /\ Terminate(c.t, {c.l}, StatusOf(c.op))
        BY <2>2, CallsNameTransactions, Zenon DEF TerminateById
      <3> QED BY <1>4, <2>1, <3>1
    <2>3. CASE TerminateByTransaction(c)
      BY <1>4, <2>1, <2>3 DEF TerminateByTransaction
    <2> QED BY <1>5, <2>2, <2>3
  <1>6. ASSUME NEW t \in Transactions, NEW l \in Limits, ReleaseExpired(t, l) PROVE rows'[p] = rows[p]
    <2>1. {l} \in SUBSET Limits /\ "EXPIRED" \in Terminal /\ Terminate(t, {l}, "EXPIRED")
      BY <1>6 DEF ReleaseExpired, Terminal
    <2> QED BY <1>4, <2>1, Zenon
  <1>7. ASSUME NEW c \in calls, Lose(c) PROVE rows'[p] = rows[p]
    BY <1>7 DEF Lose, tracerVars
  <1>8. ASSUME NEW l \in Limits, DeleteExpiredCounter(l) PROVE rows'[p] = rows[p]
    BY <1>8, Zenon DEF DeleteExpiredCounter
  <1>9. CASE FindExpiredReservations \/ UNCHANGED vars
    BY <1>9 DEF FindExpiredReservations, vars
  <1> QED
    BY <1>2, <1>3, <1>5, <1>6, <1>7, <1>8, <1>9, Zenon DEF Next
-----------------------------------------------------------------------------
(* The counters *)

LEMMA StepsOnCounters ==
  ASSUME ReservationInv, [Next]_vars
  PROVE  /\ wiped \subseteq wiped' /\ retried \subseteq retried'
         /\ \A l \in Limits : CounterStep(l)
  <1>0. Types /\ (UNCHANGED <<counter, rows>> => \A l \in Limits : CounterStep(l))
    BY Zenon DEF ReservationInv, CounterStep, Same, RowsStay
  <1>1. ASSUME NEW t \in Transactions, LedgerStep(t) \/ TTLPasses(t)
        PROVE  wiped' = wiped /\ retried \subseteq retried' /\ UNCHANGED <<counter, rows>>
    BY <1>1, Zenon DEF LedgerStep, SendReserve, RetryReserve, ReceiveReply, ReserveUnavailable, BalancesCommit,
                BalancesFail, CommitPending, CancelPending, TTLPasses, tracerVars
  <1>2. ASSUME NEW t \in Transactions, Reserve(t)
        PROVE  UNCHANGED <<wiped, retried>> /\ \A l \in Limits : CounterStep(l)
    <2>1. \/ \A l \in Limits : Same(l)
          \/ \A l \in Limits : IF l \in Applies[t] THEN Holds(t, l) ELSE Same(l)
      BY <1>0, <1>2, ReserveSteps
    <2> QED BY <1>2, <2>1 DEF Reserve, CounterStep
  <1>3. ASSUME NEW t \in Transactions, NEW ls \in SUBSET Limits, NEW status \in Terminal,
               Terminate(t, ls, status)
        PROVE  \A l \in Limits : CounterStep(l)
    <2>1. \A l \in Limits : Same(l) \/ Ends(t, l, status)
      BY <1>0, <1>3, TerminateSteps
    <2> QED BY <2>1 DEF CounterStep
  <1>4. ASSUME NEW c \in calls, TerminateById(c) \/ TerminateByTransaction(c)
        PROVE  UNCHANGED <<wiped, retried>> /\ \A l \in Limits : CounterStep(l)
    <2>1. c.t \in Transactions /\ StatusOf(c.op) \in Terminal /\ Limits \in SUBSET Limits
      BY <1>0, CallsNameTransactions DEF StatusOf, Terminal
    <2>2. CASE TerminateById(c)
      <3>1. {c.l} \in SUBSET Limits /\ Terminate(c.t, {c.l}, StatusOf(c.op)) /\ UNCHANGED <<wiped, retried>>
        BY <1>0, <2>2, CallsNameTransactions DEF TerminateById
      <3> QED BY <1>3, <2>1, <3>1, Zenon
    <2>3. CASE TerminateByTransaction(c)
      BY <1>3, <2>1, <2>3, Zenon DEF TerminateByTransaction
    <2> QED BY <1>4, <2>2, <2>3
  <1>5. ASSUME NEW t \in Transactions, NEW l \in Limits, ReleaseExpired(t, l)
        PROVE  UNCHANGED <<wiped, retried>> /\ \A m \in Limits : CounterStep(m)
    <2>1. {l} \in SUBSET Limits /\ "EXPIRED" \in Terminal /\ Terminate(t, {l}, "EXPIRED")
      BY <1>5 DEF ReleaseExpired, Terminal
    <2> QED BY <1>3, <1>5, <2>1, Zenon DEF ReleaseExpired
  <1>6. ASSUME NEW c \in calls, Lose(c) PROVE UNCHANGED <<counter, rows, wiped, retried>>
    BY <1>6 DEF Lose, tracerVars
  <1>7. ASSUME NEW l \in Limits, DeleteExpiredCounter(l)
        PROVE  wiped \subseteq wiped' /\ retried' = retried /\ \A m \in Limits : CounterStep(m)
    <2>1. /\ counter' = [counter EXCEPT ![l] = NoCounter] /\ wiped' = wiped \cup {l}
          /\ UNCHANGED <<rows, retried>>
      BY <1>7 DEF DeleteExpiredCounter
    <2>2. ASSUME NEW m \in Limits PROVE CounterStep(m)
      <3>1. CASE m = l
        BY <1>0, <2>1, <3>1, Zenon DEF CounterStep, Deletes, RowsStay, Types
      <3>2. CASE m # l
        BY <1>0, <2>1, <3>2, Zenon DEF CounterStep, Same, RowsStay, Types
      <3> QED BY <3>1, <3>2, Zenon
    <2> QED BY <2>1, <2>2
  <1>8. CASE FindExpiredReservations \/ UNCHANGED vars
    BY <1>0, <1>8, Zenon DEF FindExpiredReservations, vars
  <1> QED BY <1>0, <1>1, <1>2, <1>4, <1>5, <1>6, <1>7, <1>8, Zenon DEF Next

\* No step on a counter takes it past the limit or below zero.
LEMMA WithinLimitStep ==
  ASSUME Types, MissingIsEmpty, WithinLimit, NEW l \in Limits, CounterStep(l)
  PROVE  /\ counter'[l].current >= 0 /\ counter'[l].reserved >= 0
         /\ counter'[l].current + counter'[l].reserved <= MaxAmount
  <1> DEFINE Bounded == /\ counter'[l].current >= 0 /\ counter'[l].reserved >= 0
                        /\ counter'[l].current + counter'[l].reserved <= MaxAmount
  <1>0. /\ counter[l] \in Counters /\ MaxAmount \in Nat
        /\ counter[l].current \in Int /\ counter[l].reserved \in Int
        /\ counter[l].current >= 0 /\ counter[l].reserved >= 0
        /\ counter[l].current + counter[l].reserved <= MaxAmount
    BY TransactionsAssumption, Zenon DEF Types, WithinLimit, Counters
  <1>1. CASE Same(l)
    BY <1>0, <1>1, Zenon DEF Same
  <1>2. ASSUME NEW t \in Transactions, Holds(t, l) PROVE Bounded
    <2>1. Fits(t, l) /\ counter'[l] = Held(counter[l], t) /\ Whole(t) \in Nat
      BY <1>2, WholeWithinLimit, Zenon DEF Holds
    <2>2. CASE Whole(t) = 0
      BY <1>0, <2>1, <2>2, HeldSound, Zenon
    <2>3. CASE Whole(t) > 0
      <3>1. counter'[l].current = counter[l].current /\ counter'[l].reserved = counter[l].reserved + Whole(t)
        BY <1>0, <2>1, <2>3, HeldSound, Zenon
      <3>2. CASE counter[l].live
        BY <1>0, <2>1, <2>3, <3>1, <3>2 DEF Fits
      <3>3. CASE ~counter[l].live
        <4>1. counter[l].current = 0 /\ counter[l].reserved = 0 /\ Whole(t) <= MaxAmount
          BY <2>1, <3>3, WholeWithinLimit, Zenon DEF Fits, MissingIsEmpty
        <4> QED BY <1>0, <2>1, <3>1, <4>1
      <3> QED BY <3>2, <3>3, Zenon
    <2> QED BY <2>1, <2>2, <2>3
  <1>3. ASSUME NEW t \in Transactions, NEW status \in Terminal, Ends(t, l, status) PROVE Bounded
    <2>1. /\ Whole(t) \in Nat /\ counter[l].reserved >= Whole(t)
          /\ counter'[l] = Terminated(counter[l], Whole(t), status)
      BY <1>3, WholeWithinLimit, Zenon DEF Ends, Movable
    <2>2. counter[l] \in Counters
      BY <1>0, Zenon
    <2>3. /\ counter'[l].reserved = counter[l].reserved - Whole(t)
          /\ counter'[l].current = IF status = "CONFIRMED" THEN counter[l].current + Whole(t)
                                   ELSE counter[l].current
      BY <2>1, <2>2, TerminatedSound
    <2> QED BY <1>0, <2>1, <2>3
  <1>4. CASE Deletes(l)
    BY <1>0, <1>4 DEF Deletes, NoCounter
  <1> QED BY <1>1, <1>2, <1>3, <1>4, Zenon DEF CounterStep

LEMMA TotalIsNatural ==
  ASSUME NEW ts \in SUBSET Transactions
  PROVE  Total(ts) \in Nat
  <1> DEFINE f == [u \in Transactions |-> Whole(u)]
  <1>1. IsFiniteSet(ts) /\ \A u \in ts : f[u] \in Nat
    BY TransactionsAssumption, FS_Subset, WholeWithinLimit
  <1>2. Total(ts) = SumFunctionOnSet(f, ts)
    BY Zenon DEF Total
  <1> HIDE DEF f
  <1> QED BY <1>1, <1>2, SumOfNaturals, Zenon

\* What one transaction more or less does to a total.
LEMMA TotalSound ==
  ASSUME NEW ts \in SUBSET Transactions, NEW t \in Transactions
  PROVE  /\ Total(ts) \in Nat
         /\ t \notin ts => Total(ts \cup {t}) = Whole(t) + Total(ts)
         /\ t \in ts => Total(ts) = Whole(t) + Total(ts \ {t})
  <1> DEFINE f == [u \in Transactions |-> Whole(u)]
  <1>1. IsFiniteSet(ts)
    BY TransactionsAssumption, FS_Subset
  <1>2. \A u \in Transactions : f[u] = Whole(u) /\ f[u] \in Nat
    BY WholeWithinLimit
  <1>3. \A us : Total(us) = SumFunctionOnSet(f, us)
    BY DEF Total
  <1> HIDE DEF f
  <1>4. (\A u \in ts : f[u] \in Nat) /\ (\A u \in ts \cup {t} : f[u] \in Nat)
    BY <1>2
  <1>5. SumFunctionOnSet(f, ts) \in Nat
    BY <1>1, <1>4, SumOfNaturals, Zenon
  <1>6. t \notin ts => SumFunctionOnSet(f, ts \cup {t}) = f[t] + SumFunctionOnSet(f, ts)
    BY <1>1, <1>4, SumWith, Zenon
  <1>7. t \in ts => SumFunctionOnSet(f, ts) = f[t] + SumFunctionOnSet(f, ts \ {t})
    BY <1>1, <1>4, SumWithout
  <1> QED BY <1>2, <1>3, <1>5, <1>6, <1>7, Zenon

\* current_usage moves with the CONFIRMED rows.
LEMMA ConfirmedStep ==
  ASSUME Types, NEW l \in Limits, CounterStep(l), l \notin wiped'
  PROVE  counter'[l].current + Total(WithStatus(l, "CONFIRMED"))
           = counter[l].current + Total(WithStatus(l, "CONFIRMED"))'
  <1> DEFINE ts == WithStatus(l, "CONFIRMED")
             us == {t \in Transactions : rows'[<<t, l>>] = "CONFIRMED"}
  <1>0. /\ counter[l] \in Counters /\ counter[l].current \in Int
        /\ ts \in SUBSET Transactions /\ us \in SUBSET Transactions
        /\ \A t \in Transactions : t \in ts <=> rows[<<t, l>>] = "CONFIRMED"
    BY Zenon DEF Types, WithStatus, Counters
  <1>a. Total(WithStatus(l, "CONFIRMED"))' = Total(us)
    BY Zenon DEF WithStatus, Total
  <1>b. SUFFICES counter'[l].current + Total(ts) = counter[l].current + Total(us)
    BY <1>a
  <1>1. CASE us = ts /\ counter'[l].current = counter[l].current
    BY <1>1, Zenon
  <1>2. CASE Same(l)
    <2>1. us = ts
      BY <1>0, <1>2, Zenon DEF Same, RowsStay
    <2> QED BY <1>1, <1>2, <2>1, Zenon DEF Same
  <1>3. ASSUME NEW t \in Transactions, Holds(t, l) PROVE us = ts /\ counter'[l].current = counter[l].current
    <2>1. counter'[l].current = counter[l].current
      BY <1>0, <1>3, HeldSound DEF Holds
    <2>2. us = ts
      BY <1>0, <1>3, Zenon DEF Holds, RowsStay
    <2> QED BY <2>1, <2>2, Zenon
  <1>4. ASSUME NEW t \in Transactions, NEW status \in Terminal, Ends(t, l, status)
        PROVE  counter'[l].current + Total(ts) = counter[l].current + Total(us)
    <2>1. Whole(t) \in Nat /\ counter'[l] = Terminated(counter[l], Whole(t), status) /\ t \notin ts
      BY <1>0, <1>4, WholeWithinLimit, Zenon DEF Ends
    <2>2. counter'[l].current = IF status = "CONFIRMED" THEN counter[l].current + Whole(t) ELSE counter[l].current
      BY <1>0, <2>1, TerminatedSound
    <2>3. CASE status = "CONFIRMED"
      <3>1. us = ts \cup {t}
        BY <1>0, <1>4, <2>3 DEF Ends, RowsStay
      <3>2. Total(us) = Whole(t) + Total(ts) /\ Total(ts) \in Nat
        BY <1>0, <2>1, <3>1, TotalSound, Zenon
      <3> QED BY <1>0, <2>1, <2>2, <2>3, <3>2
    <2>4. CASE status # "CONFIRMED"
      <3>1. us = ts
        BY <1>0, <1>4, <2>4 DEF Ends, RowsStay
      <3> QED BY <1>1, <2>2, <2>4, <3>1, Zenon
    <2> QED BY <2>3, <2>4, Zenon
  <1>5. ~Deletes(l)
    BY Zenon DEF Deletes
  <1> QED BY <1>1, <1>2, <1>3, <1>4, <1>5, Zenon DEF CounterStep

\* reserved_usage moves with the RESERVED rows, unless a repeated reserve call
\* arrives.
LEMMA ReservedStep ==
  ASSUME Types, FirstReserve, NEW l \in Limits, CounterStep(l), l \notin wiped',
         \A t \in retried : l \notin Applies[t]
  PROVE  counter'[l].reserved + Total(WithStatus(l, "RESERVED"))
           = counter[l].reserved + Total(WithStatus(l, "RESERVED"))'
  <1> DEFINE ts == WithStatus(l, "RESERVED")
             us == {t \in Transactions : rows'[<<t, l>>] = "RESERVED"}
  <1>0. /\ counter[l] \in Counters /\ counter[l].reserved \in Int
        /\ ts \in SUBSET Transactions /\ us \in SUBSET Transactions
        /\ \A t \in Transactions : t \in ts <=> rows[<<t, l>>] = "RESERVED"
    BY Zenon DEF Types, WithStatus, Counters
  <1>a. Total(WithStatus(l, "RESERVED"))' = Total(us)
    BY Zenon DEF WithStatus, Total
  <1>b. SUFFICES counter'[l].reserved + Total(ts) = counter[l].reserved + Total(us)
    BY <1>a
  <1>1. CASE Same(l)
    <2>1. us = ts
      BY <1>0, <1>1, Zenon DEF Same, RowsStay
    <2> QED BY <1>1, <2>1, Zenon DEF Same
  <1>2. ASSUME NEW t \in Transactions, Holds(t, l)
        PROVE  counter'[l].reserved + Total(ts) = counter[l].reserved + Total(us)
    <2>1. Whole(t) \in Nat /\ counter'[l] = Held(counter[l], t)
      BY <1>2, WholeWithinLimit, Zenon DEF Holds
    <2>2. counter'[l].reserved = counter[l].reserved + Whole(t)
      BY <1>0, <2>1, HeldSound
    <2>3. rows[<<t, l>>] = "none"
      BY <1>2, Zenon DEF Holds, FirstReserve
    <2>4. t \notin ts /\ us = ts \cup {t}
      BY <1>0, <1>2, <2>3 DEF Holds, RowsStay
    <2>5. Total(us) = Whole(t) + Total(ts) /\ Total(ts) \in Nat
      BY <1>0, <2>4, TotalSound, Zenon
    <2> QED BY <1>0, <2>1, <2>2, <2>5
  <1>3. ASSUME NEW t \in Transactions, NEW status \in Terminal, Ends(t, l, status)
        PROVE  counter'[l].reserved + Total(ts) = counter[l].reserved + Total(us)
    <2>1. Whole(t) \in Nat /\ counter'[l] = Terminated(counter[l], Whole(t), status) /\ t \in ts
      BY <1>0, <1>3, WholeWithinLimit, Zenon DEF Ends
    <2>2. counter'[l].reserved = counter[l].reserved - Whole(t)
      BY <1>0, <2>1, TerminatedSound
    <2>3. us = ts \ {t}
      BY <1>0, <1>3 DEF Ends, RowsStay, Terminal
    <2>4. Total(ts) = Whole(t) + Total(us) /\ Total(us) \in Nat
      BY <1>0, <2>1, <2>3, TotalSound, Zenon
    <2> QED BY <1>0, <2>1, <2>2, <2>4
  <1>4. ~Deletes(l)
    BY DEF Deletes
  <1> QED BY <1>1, <1>2, <1>3, <1>4, Zenon DEF CounterStep

CounterInv == ReservationInv /\ WithinLimit /\ CountersMatchRows

LEMMA CounterInvPreserved ==
  ASSUME CounterInv, [Next]_vars
  PROVE  CounterInv'
  <1>1. ReservationInv /\ WithinLimit /\ CountersMatchRows /\ Types /\ MissingIsEmpty /\ FirstReserve
    BY DEF CounterInv, ReservationInv
  <1>2. /\ wiped \subseteq wiped' /\ retried \subseteq retried'
        /\ \A l \in Limits : CounterStep(l)
    BY <1>1, StepsOnCounters
  <1>3. ReservationInv'
    BY <1>1, ReservationInvPreserved, Zenon
  <1>4. WithinLimit'
    BY <1>1, <1>2, WithinLimitStep, Zenon DEF WithinLimit
  <1>5. ASSUME NEW l \in Limits, l \notin wiped', \A t \in retried' : l \notin Applies[t]
        PROVE  CounterMatchesRows(l)'
    <2>1. CounterMatchesRows(l) /\ \A t \in retried : l \notin Applies[t]
      BY <1>1, <1>2, <1>5, Zenon DEF CountersMatchRows
    <2>2. counter'[l].current + Total(WithStatus(l, "CONFIRMED"))
            = counter[l].current + Total(WithStatus(l, "CONFIRMED"))'
      BY <1>1, <1>2, <1>5, ConfirmedStep, Zenon
    <2>3. counter'[l].reserved + Total(WithStatus(l, "RESERVED"))
            = counter[l].reserved + Total(WithStatus(l, "RESERVED"))'
      BY <1>1, <1>2, <1>5, <2>1, ReservedStep, Zenon
    <2>4. counter'[l].current \in Int /\ counter'[l].reserved \in Int
      BY <1>3 DEF ReservationInv, Types, Counters
    <2>5. /\ Total(WithStatus(l, "CONFIRMED")) \in Nat /\ Total(WithStatus(l, "RESERVED")) \in Nat
          /\ Total(WithStatus(l, "CONFIRMED"))' \in Nat /\ Total(WithStatus(l, "RESERVED"))' \in Nat
      <3>1. \A ts \in SUBSET Transactions : Total(ts) \in Nat
        BY TotalIsNatural, Zenon
      <3> QED BY <3>1, Zenon DEF WithStatus, Total
    <2> QED BY <2>1, <2>2, <2>3, <2>4, <2>5 DEF CounterMatchesRows
  <1>6. CountersMatchRows'
    BY <1>5 DEF CountersMatchRows
  <1> QED BY <1>3, <1>4, <1>6 DEF CounterInv

LEMMA CounterInvariant == Spec => []CounterInv
  <1>1. Init => CounterInv
    <2> SUFFICES ASSUME Init PROVE CounterInv
      BY Zenon
    <2>1. WithinLimit
      BY TransactionsAssumption DEF Init, WithinLimit, NoCounter
    <2>2. ASSUME NEW l \in Limits PROVE CounterMatchesRows(l)
      <3>1. WithStatus(l, "RESERVED") = {} /\ WithStatus(l, "CONFIRMED") = {}
        BY DEF Init, WithStatus
      <3>2. Total({}) = 0
        BY SumOfNone, Zenon DEF Total
      <3>3. counter[l].reserved = 0 /\ counter[l].current = 0
        BY DEF Init, NoCounter
      <3> QED BY <3>1, <3>2, <3>3, Zenon DEF CounterMatchesRows
    <2> QED BY <2>1, <2>2, InitialReservations DEF CounterInv, CountersMatchRows
  <1>2. CounterInv /\ [Next]_vars => CounterInv'
    BY CounterInvPreserved
  <1> QED BY <1>1, <1>2, PTL DEF Spec
-----------------------------------------------------------------------------
(* The theorems *)

\* Committed and outstanding usage never exceed a limit, and neither becomes
\* negative (UpsertAndReserveAtomic, execCounterMove, the cleanup worker).
THEOREM UsageWithinLimit == Spec => []WithinLimit
  <1>1. CounterInv => WithinLimit
    BY DEF CounterInv
  <1> QED BY <1>1, CounterInvariant, PTL

\* reserved_usage is what RESERVED rows hold and current_usage what CONFIRMED
\* rows used (UpsertAndReserveAtomic and execCounterMove move counter and row in
\* one database transaction), in whatever order confirms, releases and the
\* reaper reach a row; limits of repeated reserve calls and deleted counters
\* are excepted.
THEOREM CountersAgreeWithRows == Spec => []CountersMatchRows
  <1>1. CounterInv => CountersMatchRows
    BY DEF CounterInv
  <1> QED BY <1>1, CounterInvariant, PTL

\* ReservationService.Reserve holds capacity on all matching limits or none.
THEOREM ReservedOnAllOrNone == Spec => []AllOrNothing
  <1>1. ReservationInv => AllOrNothing
    BY DEF ReservationInv
  <1> QED BY <1>1, ReservationInvariant, PTL

\* Usage is confirmed only for a transaction whose balances committed, however
\* late the confirm arrives and whatever the reaper did before.
THEOREM ConfirmedOnlyCommitted == Spec => []ConfirmedWasCommitted
  <1>1. ReservationInv => ConfirmedWasCommitted
    BY DEF ReservationInv
  <1> QED BY <1>1, ReservationInvariant, PTL

\* Confirm, release and the reaper end a reservation once: the first wins.
THEOREM FirstTerminationWins == Spec => TerminalIsFinal
  <1>1. ReservationInv /\ [Next]_vars
          => [\A p \in DOMAIN rows : rows[p] \in Terminal => rows'[p] = rows[p]]_rows
    BY TerminalRowsStay
  <1> QED BY <1>1, ReservationInvariant, PTL DEF Spec, TerminalIsFinal

-----------------------------------------------------------------------------
(***************************************************************************)
(* Validations.                                                            *)
(***************************************************************************)
Steps == {"new", "checking", "finalizing", "auditing", "recorded", "done"}

OpenCalls == [step : Steps, decision : Decisions, todo : SUBSET Limits, taken : SUBSET Limits,
          locked : SUBSET Limits, exceeded : BOOLEAN]

Answers == [by : Validations \cup {"none"}, decision : Decisions \cup {"none", "error"}]

ValidationTypes ==
    /\ call \in [Validations -> OpenCalls]
    /\ records \in [Requests -> Answers]
    /\ answer \in [Validations -> Answers]

\* The unique index on request_id: a row waiting to be committed is the only
\* one of its request.
OneInsertPerRequest ==
    \A v \in Validations : call[v].step = "recorded" =>
        ~Recorded(RequestOf[v]) /\ Inserting(v) = {} /\ call[v].decision = "ALLOW"

\* After a rollback the decision is not ALLOW, and a call that recorded it
\* finds it in its record.
RecordedIsOwn ==
    \A v \in Validations :
        /\ call[v].step \in {"finalizing", "auditing"} => call[v].decision # "ALLOW"
        /\ call[v].step = "auditing" /\ v \notin unrecorded =>
              records[RequestOf[v]] = [by |-> v, decision |-> call[v].decision]

\* Only a call that ended has an answer.
AnsweredIsDone ==
    \A v \in Validations : answer[v].decision \in Decisions => call[v].step = "done"

\* An ALLOW commits with its audit event.
AllowIsAudited ==
    \A q \in Requests : records[q].decision = "ALLOW" => records[q].by \in audited

ValidationInv ==
    /\ ValidationTypes /\ OneInsertPerRequest /\ RecordedIsOwn /\ AnsweredIsDone /\ AllowIsAudited
    /\ AnswersAgree /\ AllowIsBacked
-----------------------------------------------------------------------------
LEMMA InitialValidations == ValidationInit => ValidationInv
  <1> SUFFICES ASSUME ValidationInit PROVE ValidationInv
    BY Zenon
  <1>1. ValidationTypes
    BY Zenon DEF ValidationInit, ValidationTypes, New, NoRecord, OpenCalls, Answers, Steps, Decisions
  <1>2. OneInsertPerRequest /\ RecordedIsOwn /\ AnsweredIsDone /\ AllowIsAudited
    BY ValidationsAssumption, Zenon
    DEF ValidationInit, OneInsertPerRequest, RecordedIsOwn, AnsweredIsDone, AllowIsAudited, New,
        NoRecord, Decisions
  <1>3. AnswersAgree /\ AllowIsBacked
    BY Zenon DEF ValidationInit, AnswersAgree, AllowIsBacked, NoRecord, Decisions
  <1> QED BY <1>1, <1>2, <1>3 DEF ValidationInv

\* The reservation side writes none of the tables of the validation path.
LEMMA ReservationsLeaveAnswers ==
  ASSUME ValidationInv, UNCHANGED validationVars
  PROVE  ValidationInv'
  BY Zenon DEF ValidationInv, validationVars, ValidationTypes, OneInsertPerRequest, RecordedIsOwn,
         AnsweredIsDone, AllowIsAudited, AnswersAgree, AllowIsBacked, Recorded, Inserting

\* A call may end with the record of its request, or with an error.
LEMMA FinishSound ==
  ASSUME ValidationInv, NEW v \in Validations, NEW a, Finish(v, a),
         a = Failed \/ (a = records[RequestOf[v]] /\ Recorded(RequestOf[v])),
         UNCHANGED <<records, audited, unrecorded>>
  PROVE  ValidationInv'
  <1> USE DEF ValidationInv
  <1>1. RequestOf[v] \in Requests /\ a \in Answers
    BY ValidationsAssumption DEF ValidationTypes, Failed, Answers
  <1>2. Done \in OpenCalls /\ Done.step = "done" 
    BY Zenon DEF Done, New, OpenCalls, Steps, Decisions
  <1>3. /\ call' = [call EXCEPT ![v] = Done] /\ answer' = [answer EXCEPT ![v] = a]
        /\ UNCHANGED <<records, audited, unrecorded>>
    BY Zenon DEF Finish
  <1>4. ValidationTypes'
    BY <1>1, <1>2, <1>3, Zenon DEF ValidationTypes
  <1>5. OneInsertPerRequest'
    BY <1>2, <1>3, Zenon DEF OneInsertPerRequest, Recorded, Inserting, ValidationTypes
  <1>6. RecordedIsOwn' /\ AnsweredIsDone'
    BY <1>2, <1>3, Zenon DEF RecordedIsOwn, AnsweredIsDone, ValidationTypes
  <1>7. AllowIsAudited'
    BY <1>3, Zenon DEF AllowIsAudited
  <1>8. AnswersAgree' /\ AllowIsBacked'
    BY <1>1, <1>3 DEF AnswersAgree, AllowIsBacked, AllowIsAudited, ValidationTypes, Failed, Decisions
  <1> QED BY <1>4, <1>5, <1>6, <1>7, <1>8, Zenon

\* A call may go on to its limits, or to a decision that is not ALLOW.
LEMMA MoveSound ==
  ASSUME ValidationInv, NEW v \in Validations, NEW c \in OpenCalls, call[v].step # "done",
         call' = [call EXCEPT ![v] = c], c.step \in {"checking", "finalizing"},
         c.step = "finalizing" => c.decision # "ALLOW",
         UNCHANGED <<records, audited, answer, unrecorded>>
  PROVE  ValidationInv'
  <1> USE DEF ValidationInv
  <1>1. ValidationTypes'
    BY Zenon DEF ValidationTypes
  <1>2. OneInsertPerRequest'
    BY Zenon DEF OneInsertPerRequest, Recorded, Inserting, ValidationTypes
  <1>3. RecordedIsOwn' /\ AnsweredIsDone'
    BY Zenon DEF RecordedIsOwn, AnsweredIsDone, ValidationTypes
  <1>4. AllowIsAudited' /\ AnswersAgree' /\ AllowIsBacked'
    BY DEF AllowIsAudited, AnswersAgree, AllowIsBacked
  <1> QED BY <1>1, <1>2, <1>3, <1>4, Zenon

LEMMA ValidateSound ==
  ASSUME ValidationInv, NEW v \in Validations, Validate(v)
  PROVE  ValidationInv'
  <1>1. CASE Recorded(RequestOf[v]) /\ Finish(v, records[RequestOf[v]])
    BY <1>1, FinishSound DEF Validate
  <1>2. ASSUME NEW d \in RuleOutcomes,
               call' = [call EXCEPT ![v] =
                   IF d = "DENY" THEN [New EXCEPT !.step = "finalizing", !.decision = d]
                   ELSE [New EXCEPT !.step = "checking", !.decision = d, !.todo = Matches[RequestOf[v]]]],
               UNCHANGED answer
        PROVE  ValidationInv'
    <2> DEFINE c == IF d = "DENY" THEN [New EXCEPT !.step = "finalizing", !.decision = d]
                    ELSE [New EXCEPT !.step = "checking", !.decision = d, !.todo = Matches[RequestOf[v]]]
    <2>1. d \in Decisions /\ Matches[RequestOf[v]] \subseteq Limits
      BY ValidationsAssumption DEF Decisions
    <2>2. /\ c \in OpenCalls /\ c.step \in {"checking", "finalizing"}
          /\ c.step = "finalizing" => c.decision # "ALLOW"
      BY <2>1, Zenon DEF New, OpenCalls, Steps, Decisions
    <2>3. call[v].step # "done" /\ UNCHANGED <<records, audited, answer, unrecorded>>
      BY <1>2, Zenon DEF Validate
    <2>4. call' = [call EXCEPT ![v] = c]
      BY <1>2
    <2> HIDE DEF c
    <2> QED BY <2>2, <2>3, <2>4, MoveSound, Zenon
  <1> QED BY <1>1, <1>2, Zenon DEF Validate

LEMMA ProcessLimitSound ==
  ASSUME ValidationInv, NEW v \in Validations, NEW l \in Limits, ProcessLimit(v, l)
  PROVE  ValidationInv'
  <1>1. call[v] \in OpenCalls /\ call \in [Validations -> OpenCalls]
    BY DEF ValidationInv, ValidationTypes
  <1>2. PICK c : /\ call' = [call EXCEPT ![v] = c]
                 /\ c \in OpenCalls /\ c.step = "checking"
    <2>1. call[v].step = "checking"
      BY DEF ProcessLimit
    <2>2. CASE call' = [call EXCEPT ![v].todo = @ \ {l}, ![v].exceeded = TRUE]
      <3> DEFINE c == [call[v] EXCEPT !.todo = @ \ {l}, !.exceeded = TRUE]
      <3>1. c \in OpenCalls /\ c.step = "checking"
        BY <1>1, <2>1, Zenon DEF OpenCalls
      <3>2. call' = [call EXCEPT ![v] = c]
        BY <1>1, <2>2, Zenon
      <3> QED BY <3>1, <3>2, Zenon
    <2>3. ASSUME NEW fits \in BOOLEAN,
                 call' = [call EXCEPT ![v].todo = @ \ {l}, ![v].locked = @ \cup {l},
                                      ![v].taken = IF fits THEN @ \cup {l} ELSE @,
                                      ![v].exceeded = @ \/ ~fits]
          PROVE  \E c : call' = [call EXCEPT ![v] = c] /\ c \in OpenCalls /\ c.step = "checking"
      <3> DEFINE c == [call[v] EXCEPT !.todo = @ \ {l}, !.locked = @ \cup {l},
                                      !.taken = IF fits THEN @ \cup {l} ELSE @,
                                      !.exceeded = @ \/ ~fits]
      <3>1. c \in OpenCalls /\ c.step = "checking"
        BY <1>1, <2>1, Zenon DEF OpenCalls
      <3>2. call' = [call EXCEPT ![v] = c]
        BY <1>1, <2>3, Zenon
      <3> QED BY <3>1, <3>2, Zenon
    <2> QED BY <2>2, <2>3, Zenon DEF ProcessLimit
  <1>3. call[v].step # "done" /\ UNCHANGED <<records, audited, answer, unrecorded>>
    BY DEF ProcessLimit
  <1> QED BY <1>2, <1>3, MoveSound, Zenon

LEMMA RollbackSound ==
  ASSUME ValidationInv, NEW v \in Validations, RollbackCounters(v)
  PROVE  ValidationInv'
  <1> DEFINE c == [New EXCEPT !.step = "finalizing",
                              !.decision = IF call[v].exceeded THEN "DENY" ELSE "REVIEW"]
  <1>1. c \in OpenCalls /\ c.step = "finalizing" /\ c.decision # "ALLOW"
    BY Zenon DEF New, OpenCalls, Steps, Decisions
  <1>2. /\ call' = [call EXCEPT ![v] = c] /\ call[v].step # "done"
        /\ UNCHANGED <<records, audited, answer, unrecorded>>
    BY DEF RollbackCounters, Checked
  <1> HIDE DEF c
  <1> QED BY <1>1, <1>2, MoveSound, Zenon

LEMMA InsertSound ==
  ASSUME ValidationInv, NEW v \in Validations, InsertWithTx(v)
  PROVE  ValidationInv'
  <1>1. CASE Recorded(RequestOf[v]) /\ Finish(v, records[RequestOf[v]])
    BY <1>1, FinishSound, Zenon DEF InsertWithTx
  <1>2. CASE ~Recorded(RequestOf[v]) /\ call' = [call EXCEPT ![v].step = "recorded"] /\ UNCHANGED answer
    <2> USE DEF ValidationInv
    <2>1. /\ call[v].step = "checking" /\ call[v].decision = "ALLOW" /\ Inserting(v) = {}
          /\ UNCHANGED <<records, audited, answer, unrecorded>>
      BY <1>2 DEF InsertWithTx, Checked
    <2>2. call[v] \in OpenCalls /\ call \in [Validations -> OpenCalls]
      BY DEF ValidationTypes
    <2>3. /\ call'[v].step = "recorded" /\ call'[v].decision = call[v].decision
          /\ \A u \in Validations \ {v} : call'[u] = call[u]
          /\ call' \in [Validations -> OpenCalls]
      BY <1>2, <2>2, Zenon DEF OpenCalls, Steps
    <2>4. ValidationTypes'
      BY <2>1, <2>3, Zenon DEF ValidationTypes
    <2>5. OneInsertPerRequest'
      <3>1. ASSUME NEW u \in Validations, call'[u].step = "recorded"
            PROVE  (~Recorded(RequestOf[u]))' /\ Inserting(u)' = {} /\ call'[u].decision = "ALLOW"
        <4>1. CASE u = v
          BY <1>2, <2>1, <2>3, <4>1, Zenon DEF Recorded, Inserting
        <4>2. CASE u # v
          <5>1. call[u].step = "recorded"
            BY <2>3, <3>1, <4>2, Zenon
          <5>2. RequestOf[u] # RequestOf[v]
            BY <2>1, <4>2, <5>1, Zenon DEF Inserting
          <5> QED BY <2>1, <2>3, <4>2, <5>1, <5>2, Zenon DEF OneInsertPerRequest, Recorded, Inserting
        <4> QED BY <4>1, <4>2
      <3> QED BY <3>1, Zenon DEF OneInsertPerRequest
    <2>6. RecordedIsOwn' /\ AnsweredIsDone'
      BY <2>1, <2>3, Zenon DEF RecordedIsOwn, AnsweredIsDone
    <2>7. AllowIsAudited' /\ AnswersAgree' /\ AllowIsBacked'
      BY <2>1, Zenon DEF AllowIsAudited, AnswersAgree, AllowIsBacked
    <2> QED BY <2>4, <2>5, <2>6, <2>7
  <1> QED BY <1>1, <1>2 DEF InsertWithTx

\* The record of a request is written once: by a commit, or by Persist while
\* no other call is inserting.
LEMMA RecordSound ==
  ASSUME ValidationInv, NEW v \in Validations, NEW d \in Decisions, NEW c \in OpenCalls, NEW a \in Answers,
         call[v].step # "done", ~Recorded(RequestOf[v]), Inserting(v) = {},
         records' = [records EXCEPT ![RequestOf[v]] = [by |-> v, decision |-> d]],
         call' = [call EXCEPT ![v] = c], answer' = [answer EXCEPT ![v] = a],
         audited \subseteq audited', UNCHANGED unrecorded,
         d = "ALLOW" => v \in audited',
         \/ c.step = "auditing" /\ c.decision = d /\ d # "ALLOW" /\ a = answer[v]
         \/ c.step = "done" /\ a \in {[by |-> v, decision |-> d], Failed}
  PROVE  ValidationInv'
  <1> USE DEF ValidationInv
  <1> DEFINE q == RequestOf[v]
             new == [by |-> v, decision |-> d]
  <1>1. q \in Requests /\ RequestOf \in [Validations -> Requests] /\ new \in Answers
    BY ValidationsAssumption, Zenon DEF Answers
  <1>2. /\ records'[q] = new
        /\ \A p \in Requests \ {q} : records'[p] = records[p]
        /\ records' \in [Requests -> Answers]
    BY <1>1, Zenon DEF ValidationTypes
  <1>3. /\ call'[v] = c /\ answer'[v] = a
        /\ \A u \in Validations \ {v} : call'[u] = call[u] /\ answer'[u] = answer[u]
    BY Zenon DEF ValidationTypes
  <1>4. ValidationTypes'
    BY <1>2, Zenon DEF ValidationTypes
  <1>5. OneInsertPerRequest'
    <2>1. ASSUME NEW u \in Validations, call'[u].step = "recorded"
          PROVE  (~Recorded(RequestOf[u]))' /\ Inserting(u)' = {} /\ call'[u].decision = "ALLOW"
      <3>1. u # v /\ call[u].step = "recorded"
        BY <1>3, <2>1, Zenon
      <3>2. RequestOf[u] # q
        BY <3>1, Zenon DEF Inserting
      <3>3. RequestOf[u] \in Requests \ {q}
        BY <1>1, <3>2, Zenon
      <3> QED BY <1>2, <1>3, <3>1, <3>3 DEF OneInsertPerRequest, Recorded, Inserting
    <2> QED BY <2>1, Zenon DEF OneInsertPerRequest
  <1>6. \A u \in Validations \ {v} : records[RequestOf[u]] # NoRecord => records'[RequestOf[u]] = records[RequestOf[u]]
    BY <1>1, <1>2, Zenon DEF Recorded
  <1>7. records[q] = NoRecord
    BY Zenon DEF Recorded
  <1>8. new.decision = d /\ new.by = v
    BY Zenon
  <1> HIDE DEF q, new
  <1>9. RecordedIsOwn'
    <2>1. ASSUME NEW u \in Validations \ {v}, call'[u].step = "auditing", u \notin unrecorded'
          PROVE  records'[RequestOf[u]] = [by |-> u, decision |-> call'[u].decision]
      <3>1. records[RequestOf[u]] = [by |-> u, decision |-> call[u].decision]
        BY <1>3, <2>1, Zenon DEF RecordedIsOwn
      <3>2. call[u].decision \in Decisions
        BY Zenon DEF ValidationTypes, OpenCalls
      <3>3. records[RequestOf[u]] # NoRecord
        BY <3>1, <3>2 DEF NoRecord, Decisions
      <3> QED BY <1>3, <1>6, <3>1, <3>3, Zenon
    <2>2. \A u \in Validations : call'[u].step \in {"finalizing", "auditing"} => call'[u].decision # "ALLOW"
      BY <1>3, Zenon DEF RecordedIsOwn
    <2>3. call'[v].step = "auditing" => records'[q] = [by |-> v, decision |-> call'[v].decision]
      BY <1>2, <1>3, Zenon DEF new
    <2> QED BY <2>1, <2>2, <2>3, Zenon DEF RecordedIsOwn, q
  <1>10. AnsweredIsDone'
    BY <1>3, Zenon DEF AnsweredIsDone
  <1>11. AllowIsAudited'
    BY <1>2, <1>8, Zenon DEF AllowIsAudited
  <1>12. \A u \in Validations \ {v} : answer[u].decision \in Decisions => records[RequestOf[u]] = answer[u] \/ u \in unrecorded
    BY Zenon DEF AnswersAgree
  <1>13. AnswersAgree'
    <2>1. ASSUME NEW u \in Validations, answer'[u].decision \in Decisions, u \notin unrecorded'
          PROVE  answer'[u] = records'[RequestOf[u]]
      <3>1. CASE u = v
        <4>1. a # Failed /\ a.decision \in Decisions
          BY <1>3, <2>1, <3>1 DEF Failed, Decisions
        <4>2. c.step = "done"
          BY <4>1, Zenon DEF AnsweredIsDone
        <4> QED BY <1>2, <1>3, <3>1, <4>1, <4>2, Zenon DEF new, q
      <3>2. CASE u # v
        BY <1>3, <1>6, <1>12, <2>1, <3>2 DEF NoRecord, Decisions
      <3> QED BY <3>1, <3>2, Zenon
    <2> QED BY <2>1, Zenon DEF AnswersAgree
  <1>14. AllowIsBacked'
    <2>1. ASSUME NEW u \in Validations, answer'[u].decision = "ALLOW"
          PROVE  records'[RequestOf[u]] = answer'[u] /\ answer'[u].by \in audited'
      <3>1. CASE u = v
        <4>1. a # Failed /\ a.decision \in Decisions
          BY <1>3, <2>1, <3>1 DEF Failed, Decisions
        <4>2. c.step = "done"
          BY <4>1 DEF AnsweredIsDone
        <4> QED BY <1>2, <1>3, <1>8, <2>1, <3>1, <4>1, <4>2 DEF new, q
      <3>2. CASE u # v
        BY <1>3, <1>6, <2>1, <3>2 DEF AllowIsBacked, NoRecord
      <3> QED BY <3>1, <3>2, Zenon
    <2> QED BY <2>1, Zenon DEF AllowIsBacked
  <1> QED BY <1>4, <1>5, <1>9, <1>10, <1>11, <1>13, <1>14, Zenon

LEMMA CommitSound ==
  ASSUME ValidationInv, NEW v \in Validations, Commit(v)
  PROVE  ValidationInv'
  <1>1. call[v].step = "recorded" /\ ~Recorded(RequestOf[v]) /\ Inserting(v) = {}
    BY Zenon DEF Commit, ValidationInv, OneInsertPerRequest
  <1>2. /\ records' = [records EXCEPT ![RequestOf[v]] = [by |-> v, decision |-> "ALLOW"]]
        /\ audited' = audited \cup {v} /\ UNCHANGED unrecorded
    BY Zenon DEF Commit
  <1>3. PICK a \in {[by |-> v, decision |-> "ALLOW"], Failed} :
            call' = [call EXCEPT ![v] = Done] /\ answer' = [answer EXCEPT ![v] = a]
    BY Zenon DEF Commit, Finish
  <1>4. a \in Answers /\ "ALLOW" \in Decisions
    BY <1>3 DEF Answers, Failed, Decisions
  <1>5. Done \in OpenCalls /\ Done.step = "done"
    BY Zenon DEF Decisions, Done, New, OpenCalls, Steps
  <1> QED BY <1>1, <1>2, <1>3, <1>4, <1>5, RecordSound, Zenon

LEMMA PersistSound ==
  ASSUME ValidationInv, NEW v \in Validations, Persist(v)
  PROVE  ValidationInv'
  <1> DEFINE c == [call[v] EXCEPT !.step = "auditing"]
  <1>1. call[v].step = "finalizing" /\ Inserting(v) = {} /\ UNCHANGED audited
    BY DEF Persist
  <1>2. /\ call \in [Validations -> OpenCalls] /\ call[v] \in OpenCalls
        /\ answer \in [Validations -> Answers] /\ answer[v] \in Answers
    BY DEF ValidationInv, ValidationTypes
  <1>3. /\ c \in OpenCalls /\ c.step = "auditing" /\ c.decision = call[v].decision
        /\ c.decision \in Decisions /\ c.decision # "ALLOW"
    BY <1>1, <1>2, Zenon DEF OpenCalls, Steps, ValidationInv, RecordedIsOwn
  <1>4. CASE /\ Recorded(RequestOf[v]) /\ Finish(v, records[RequestOf[v]])
             /\ UNCHANGED <<records, unrecorded>>
    BY <1>1, <1>4, FinishSound
  <1>5. CASE /\ ~Recorded(RequestOf[v])
             /\ records' = [records EXCEPT ![RequestOf[v]] = [by |-> v, decision |-> call[v].decision]]
             /\ call' = [call EXCEPT ![v].step = "auditing"]
             /\ UNCHANGED <<answer, unrecorded>>
    <2>1. call' = [call EXCEPT ![v] = c] /\ answer' = [answer EXCEPT ![v] = answer[v]]
      BY <1>2, <1>5
    <2>2. records' = [records EXCEPT ![RequestOf[v]] = [by |-> v, decision |-> c.decision]]
      BY <1>3, <1>5
    <2> HIDE DEF c
    <2> QED BY <1>1, <1>2, <1>3, <1>5, <2>1, <2>2, RecordSound, Zenon
  <1>6. CASE /\ unrecorded' = unrecorded \cup {v}
             /\ call' = [call EXCEPT ![v].step = "auditing"]
             /\ UNCHANGED <<records, answer>>
    <2> USE DEF ValidationInv
    <2>1. call' = [call EXCEPT ![v] = c]
      BY <1>2, <1>6
    <2> HIDE DEF c
    <2>2. call'[v] = c /\ \A u \in Validations \ {v} : call'[u] = call[u]
      BY <1>2, <2>1
    <2>3. ValidationTypes'
      BY <1>2, <1>3, <1>6, <2>1, Zenon DEF ValidationTypes
    <2>4. OneInsertPerRequest'
      BY <1>3, <1>6, <2>2 DEF OneInsertPerRequest, Recorded, Inserting
    <2>5. RecordedIsOwn' /\ AnsweredIsDone'
      BY <1>1, <1>3, <1>6, <2>2 DEF RecordedIsOwn, AnsweredIsDone
    <2>6. AllowIsAudited' /\ AnswersAgree' /\ AllowIsBacked'
      BY <1>1, <1>6, Zenon DEF AllowIsAudited, AnswersAgree, AllowIsBacked
    <2> QED BY <2>3, <2>4, <2>5, <2>6
  <1> QED BY <1>4, <1>5, <1>6 DEF Persist

LEMMA PersistAuditSound ==
  ASSUME ValidationInv, NEW v \in Validations, PersistAudit(v)
  PROVE  ValidationInv'
  <1> USE DEF ValidationInv
  <1> DEFINE a == [by |-> v, decision |-> call[v].decision]
  <1>1. /\ call' = [call EXCEPT ![v] = Done] /\ answer' = [answer EXCEPT ![v] = a]
        /\ UNCHANGED <<records, unrecorded>> /\ audited \subseteq audited'
    BY Zenon DEF PersistAudit, Finish
  <1>2. call[v].step = "auditing" /\ call[v].decision \in Decisions /\ call[v].decision # "ALLOW"
    BY Zenon DEF PersistAudit, RecordedIsOwn, ValidationTypes, OpenCalls
  <1>3. a \in Answers /\ a.decision # "ALLOW" /\ (v \notin unrecorded => a = records[RequestOf[v]])
    BY <1>2 DEF Answers, RecordedIsOwn
  <1>4. Done \in OpenCalls /\ Done.step = "done"
    BY Zenon DEF Done, New, OpenCalls, Steps, Decisions
  <1> HIDE DEF a
  <1>5. /\ call'[v] = Done /\ answer'[v] = a
        /\ \A u \in Validations \ {v} : call'[u] = call[u] /\ answer'[u] = answer[u]
    BY <1>1, Zenon DEF ValidationTypes
  <1>6. ValidationTypes'
    BY <1>1, <1>3, <1>4, Zenon DEF ValidationTypes
  <1>7. OneInsertPerRequest'
    BY <1>1, <1>4, <1>5 DEF OneInsertPerRequest, Recorded, Inserting
  <1>8. RecordedIsOwn' /\ AnsweredIsDone'
    BY <1>1, <1>4, <1>5, Zenon DEF RecordedIsOwn, AnsweredIsDone
  <1>9. AllowIsAudited'
    BY <1>1, Zenon DEF AllowIsAudited
  <1>10. AnswersAgree'
    BY <1>1, <1>3, <1>5, Zenon DEF AnswersAgree
  <1>11. AllowIsBacked'
    BY <1>1, <1>3, <1>5 DEF AllowIsBacked
  <1> QED BY <1>6, <1>7, <1>8, <1>9, <1>10, <1>11, Zenon

LEMMA ValidationInvPreserved ==
  ASSUME ValidationInv, [ValidationNext]_allVars
  PROVE  ValidationInv'
  <1>1. ASSUME NEW v \in Validations, Interrupt(v) PROVE ValidationInv'
    BY <1>1, FinishSound, Zenon DEF Interrupt
  <1>2. ASSUME NEW v \in Validations, ValidationStep(v) PROVE ValidationInv'
    BY <1>1, <1>2, ValidateSound, ProcessLimitSound, RollbackSound, InsertSound, CommitSound,
       PersistSound, PersistAuditSound, Zenon DEF ValidationStep
  <1>3. CASE ReservationStep \/ UNCHANGED allVars
    BY <1>3, ReservationsLeaveAnswers DEF ReservationStep, allVars
  <1> QED BY <1>2, <1>3, Zenon DEF ValidationNext

LEMMA ValidationInvariant == ValidationSpec => []ValidationInv
  <1>1. ValidationInit => ValidationInv
    BY InitialValidations
  <1>2. ValidationInv /\ [ValidationNext]_allVars => ValidationInv'
    BY ValidationInvPreserved, Zenon
  <1> QED BY <1>1, <1>2, PTL DEF ValidationSpec
-----------------------------------------------------------------------------
(* The counters *)

\* A counter row is locked by one validation at a time.
LocksExclusive ==
    \A v, u \in Validations : v # u => call[v].locked \cap call[u].locked = {}

\* An open transaction has incremented counters it locked, each with room for
\* its amount; without an exceeded limit it is on its way to all that match.
TakenFits ==
    \A v \in Validations :
        /\ call[v].taken \subseteq call[v].locked
        /\ \A l \in call[v].taken :
              /\ Cost[RequestOf[v]] <= MaxAmount
              /\ counter[l].live => counter[l].current + Cost[RequestOf[v]] <= MaxAmount
        /\ call[v].step = "checking" /\ ~call[v].exceeded =>
              call[v].taken \cup call[v].todo = Matches[RequestOf[v]]
        /\ call[v].step = "recorded" => call[v].taken = Matches[RequestOf[v]]

\* Counters are locked in rank order, by open transactions only.
LocksInOrder ==
    \A v \in Validations :
        /\ call[v].step \notin {"checking", "recorded"} => call[v].locked = {}
        /\ \A l \in call[v].locked, m \in call[v].todo : Rank[l] < Rank[m]

AccountInv ==
    /\ ReservationInv /\ ValidationInv
    /\ LocksExclusive /\ TakenFits /\ LocksInOrder
    /\ UsageIsAccounted /\ AllowedWithinLimit

\* What a step of a validation does to the counters it has locked.
Restarts(v) ==
    /\ call'[v].locked = {} /\ call'[v].taken = {} /\ call'[v].step # "recorded"
    /\ call'[v].step = "checking" => call'[v].todo = Matches[RequestOf[v]]

Records(v) == Checked(v) /\ ~call[v].exceeded /\ call' = [call EXCEPT ![v].step = "recorded"]

LEMMA CallSteps ==
  ASSUME AccountInv, NEW v \in Validations, ValidationStep(v)
  PROVE  /\ \A u \in Validations \ {v} : call'[u] = call[u]
         /\ Restarts(v) \/ Records(v) \/ \E l \in Limits : ProcessLimit(v, l)
  <1>0. call \in [Validations -> OpenCalls] /\ call[v] \in OpenCalls
    BY DEF AccountInv, ValidationInv, ValidationTypes
  <1>1. ASSUME NEW a, Finish(v, a) PROVE Restarts(v) /\ \A u \in Validations \ {v} : call'[u] = call[u]
    BY <1>0, <1>1 DEF Finish, Restarts, Done, New
  <1>2. CASE Validate(v)
    <2>1. CASE Finish(v, records[RequestOf[v]])
      BY <1>1, <2>1
    <2>2. ASSUME NEW d \in RuleOutcomes,
                 call' = [call EXCEPT ![v] =
                     IF d = "DENY" THEN [New EXCEPT !.step = "finalizing", !.decision = d]
                     ELSE [New EXCEPT !.step = "checking", !.decision = d, !.todo = Matches[RequestOf[v]]]]
          PROVE  Restarts(v) /\ \A u \in Validations \ {v} : call'[u] = call[u]
      BY <1>0, <2>2 DEF Restarts, New
    <2> QED BY <1>2, <2>1, <2>2, Zenon DEF Validate
  <1>3. CASE \E l \in Limits : ProcessLimit(v, l)
    BY <1>0, <1>3, Zenon DEF ProcessLimit
  <1>4. CASE RollbackCounters(v)
    BY <1>0, <1>4 DEF RollbackCounters, Restarts, New
  <1>5. CASE InsertWithTx(v)
    <2>1. CASE Finish(v, records[RequestOf[v]])
      BY <1>1, <2>1
    <2>2. CASE call' = [call EXCEPT ![v].step = "recorded"]
      BY <1>0, <1>5, <2>2, Zenon DEF InsertWithTx, Records
    <2> QED BY <1>5, <2>1, <2>2, Zenon DEF InsertWithTx
  <1>6. CASE Commit(v)
    BY <1>1, <1>6 DEF Commit
  <1>7. CASE Persist(v)
    <2>1. CASE Finish(v, records[RequestOf[v]])
      BY <1>1, <2>1, Zenon
    <2>2. CASE call' = [call EXCEPT ![v].step = "auditing"]
      <3>1. call[v].locked = {} /\ call[v].taken = {}
        BY <1>7, Zenon DEF Persist, AccountInv, LocksInOrder, TakenFits
      <3> QED BY <1>0, <2>2, <3>1, Zenon DEF Restarts, OpenCalls
    <2> QED BY <1>7, <2>1, <2>2, Zenon DEF Persist
  <1>8. CASE PersistAudit(v)
    BY <1>1, <1>8, Zenon DEF PersistAudit
  <1>9. CASE Interrupt(v)
    BY <1>1, <1>9 DEF Interrupt
  <1> QED BY <1>2, <1>3, <1>4, <1>5, <1>6, <1>7, <1>8, <1>9, Zenon DEF ValidationStep

\* processLimitAtomic takes a limit with room for the amount under its row
\* lock, or remembers that one was exceeded.
LEMMA ProcessLimitSteps ==
  ASSUME ValidationTypes, NEW v \in Validations, NEW l \in Limits, ProcessLimit(v, l)
  PROVE  /\ call[v].step = "checking" /\ NextLimit(v, l)
         /\ call'[v].step = "checking" /\ call'[v].todo = call[v].todo \ {l}
         /\ \/ /\ call'[v].locked = call[v].locked /\ call'[v].taken = call[v].taken
               /\ call'[v].exceeded
            \/ /\ Available(v, l) /\ call'[v].locked = call[v].locked \cup {l}
               /\ call'[v].taken = call[v].taken /\ call'[v].exceeded
            \/ /\ Available(v, l) /\ call'[v].locked = call[v].locked \cup {l}
               /\ call'[v].taken = call[v].taken \cup {l}
               /\ call'[v].exceeded = call[v].exceeded
               /\ Cost[RequestOf[v]] <= MaxAmount
               /\ counter[l].live => counter[l].current + Cost[RequestOf[v]] <= MaxAmount
  <1>1. call[v] \in OpenCalls /\ call \in [Validations -> OpenCalls] /\ call[v].step = "checking"
        /\ NextLimit(v, l) /\ call[v].exceeded \in BOOLEAN
    BY Zenon DEF ValidationTypes, ProcessLimit, OpenCalls
  <1>2. CASE call' = [call EXCEPT ![v].todo = @ \ {l}, ![v].exceeded = TRUE]
    <2> DEFINE c == [call[v] EXCEPT !.todo = @ \ {l}, !.exceeded = TRUE]
    <2>1. /\ c.step = "checking" /\ c.todo = call[v].todo \ {l}
          /\ c.locked = call[v].locked /\ c.taken = call[v].taken /\ c.exceeded
      BY <1>1 DEF OpenCalls
    <2>2. call'[v] = c
      BY <1>1, <1>2, Zenon
    <2> HIDE DEF c
    <2> QED BY <1>1, <2>1, <2>2, Zenon
  <1>3. CASE /\ Cost[RequestOf[v]] <= MaxAmount /\ Available(v, l)
             /\ LET fits == counter[l].live => counter[l].current + Cost[RequestOf[v]] <= MaxAmount IN
                call' = [call EXCEPT ![v].todo = @ \ {l}, ![v].locked = @ \cup {l},
                                     ![v].taken = IF fits THEN @ \cup {l} ELSE @,
                                     ![v].exceeded = @ \/ ~fits]
    <2> DEFINE fits == counter[l].live => counter[l].current + Cost[RequestOf[v]] <= MaxAmount
    <2>1. CASE fits
      <3> DEFINE c == [call[v] EXCEPT !.todo = @ \ {l}, !.locked = @ \cup {l}, !.taken = @ \cup {l},
                                      !.exceeded = @ \/ FALSE]
      <3>1. /\ c.step = "checking" /\ c.todo = call[v].todo \ {l}
            /\ c.locked = call[v].locked \cup {l} /\ c.taken = call[v].taken \cup {l}
            /\ c.exceeded = call[v].exceeded
        BY <1>1 DEF OpenCalls
      <3>2. call'[v] = c
        BY <1>1, <1>3, <2>1, Zenon
      <3> HIDE DEF c
      <3> QED BY <1>1, <1>3, <2>1, <3>1, <3>2, Zenon
    <2>2. CASE ~fits
      <3> DEFINE c == [call[v] EXCEPT !.todo = @ \ {l}, !.locked = @ \cup {l}, !.taken = @,
                                      !.exceeded = @ \/ TRUE]
      <3>1. /\ c.step = "checking" /\ c.todo = call[v].todo \ {l}
            /\ c.locked = call[v].locked \cup {l} /\ c.taken = call[v].taken
            /\ c.exceeded
        BY <1>1, Zenon DEF OpenCalls
      <3>2. call'[v] = c
        BY <1>1, <1>3, <2>2, Zenon
      <3> HIDE DEF c
      <3> QED BY <1>1, <1>3, <3>1, <3>2, Zenon
    <2> QED BY <2>1, <2>2, Zenon
  <1> QED BY <1>2, <1>3, Zenon DEF ProcessLimit

LEMMA LocksPreserved ==
  ASSUME AccountInv, NEW v \in Validations, ValidationStep(v)
  PROVE  LocksExclusive' /\ LocksInOrder'
  <1>0. /\ LocksExclusive /\ LocksInOrder /\ TakenFits /\ ValidationTypes
        /\ \A u \in Validations \ {v} : call'[u] = call[u]
        /\ Restarts(v) \/ Records(v) \/ \E l \in Limits : ProcessLimit(v, l)
    BY CallSteps, Zenon DEF AccountInv, ValidationInv
  <1>1. CASE Restarts(v)
    BY <1>0, <1>1, Zenon DEF LocksExclusive, LocksInOrder, Restarts
  <1>2. CASE Records(v)
    <2>1. /\ call'[v].locked = call[v].locked /\ call'[v].todo = call[v].todo
          /\ call'[v].step = "recorded"
      BY <1>0, <1>2 DEF Records, ValidationTypes, OpenCalls
    <2> QED BY <1>0, <2>1 DEF LocksExclusive, LocksInOrder
  <1>3. ASSUME NEW l \in Limits, ProcessLimit(v, l) PROVE LocksExclusive' /\ LocksInOrder'
    <2>1. /\ call[v].step = "checking" /\ NextLimit(v, l)
          /\ call'[v].step = "checking" /\ call'[v].todo = call[v].todo \ {l}
          /\ \/ call'[v].locked = call[v].locked
             \/ call'[v].locked = call[v].locked \cup {l} /\ Available(v, l)
      BY <1>0, <1>3, ProcessLimitSteps, Zenon
    <2>2. LocksExclusive'
      BY <1>0, <2>1 DEF LocksExclusive, Available, Free, LockedBy
    <2>3. \A m \in call'[v].locked, n \in call'[v].todo : Rank[m] < Rank[n]
      <3>1. \A n \in call[v].todo \ {l} : Rank[l] < Rank[n]
        <4>1. call[v].todo \subseteq Limits
          BY <1>0 DEF ValidationTypes, OpenCalls
        <4>2. \A n \in Limits : Rank[n] \in Nat /\ (Rank[l] = Rank[n] => l = n)
          BY ValidationsAssumption
        <4>3. \A n \in call[v].todo : Rank[l] <= Rank[n]
          BY <2>1 DEF NextLimit
        <4> QED BY <4>1, <4>2, <4>3
      <3> QED BY <1>0, <2>1, <3>1 DEF LocksInOrder
    <2>4. LocksInOrder'
      BY <1>0, <2>1, <2>3, Zenon DEF LocksInOrder
    <2> QED BY <2>2, <2>4
  <1> QED BY <1>0, <1>1, <1>2, <1>3, Zenon

\* Counters that open transactions hold stay as they are read.
LEMMA TakenPreserved ==
  ASSUME AccountInv, NEW v \in Validations, ValidationStep(v),
         \A u \in Validations \ {v} : \A l \in call[u].locked : counter'[l] = counter[l],
         ~Restarts(v) => \A l \in Limits : counter'[l] = counter[l]
  PROVE  TakenFits'
  <1>0. /\ LocksExclusive /\ LocksInOrder /\ TakenFits /\ ValidationTypes
        /\ \A u \in Validations \ {v} : call'[u] = call[u]
        /\ Restarts(v) \/ Records(v) \/ \E l \in Limits : ProcessLimit(v, l)
        /\ \A u \in Validations : call[u].locked \subseteq Limits /\ call[u].taken \subseteq Limits
    BY CallSteps, Zenon DEF AccountInv, ValidationInv, ValidationTypes, OpenCalls
  <1> DEFINE Fine(u) ==
        /\ call'[u].taken \subseteq call'[u].locked
        /\ \A l \in call'[u].taken :
              /\ Cost[RequestOf[u]] <= MaxAmount
              /\ counter'[l].live => counter'[l].current + Cost[RequestOf[u]] <= MaxAmount
        /\ call'[u].step = "checking" /\ ~call'[u].exceeded =>
              call'[u].taken \cup call'[u].todo = Matches[RequestOf[u]]
        /\ call'[u].step = "recorded" => call'[u].taken = Matches[RequestOf[u]]
  <1>1. ASSUME NEW u \in Validations \ {v} PROVE Fine(u)
    BY <1>0 DEF TakenFits
  <1>2. ASSUME Restarts(v) PROVE Fine(v)
    BY <1>2, Zenon DEF Restarts
  <1>3. ASSUME Records(v), ~Restarts(v) PROVE Fine(v)
    <2>1. /\ call'[v].taken = call[v].taken /\ call'[v].locked = call[v].locked
          /\ call'[v].step = "recorded" /\ call[v].step = "checking" /\ call[v].todo = {}
          /\ ~call[v].exceeded
      BY <1>0, <1>3 DEF Records, Checked, ValidationTypes, OpenCalls
    <2> QED BY <1>0, <1>3, <2>1, Zenon DEF TakenFits
  <1>4. ASSUME NEW l \in Limits, ProcessLimit(v, l), ~Restarts(v) PROVE Fine(v)
    <2>1. /\ call[v].step = "checking" /\ l \in call[v].todo
          /\ call'[v].step = "checking" /\ call'[v].todo = call[v].todo \ {l}
          /\ \/ /\ call[v].locked \subseteq call'[v].locked /\ call'[v].taken = call[v].taken
                /\ call'[v].exceeded
             \/ /\ call'[v].locked = call[v].locked \cup {l}
                /\ call'[v].taken = call[v].taken \cup {l}
                /\ call'[v].exceeded = call[v].exceeded
                /\ Cost[RequestOf[v]] <= MaxAmount
                /\ counter[l].live => counter[l].current + Cost[RequestOf[v]] <= MaxAmount
      BY <1>0, <1>4, ProcessLimitSteps DEF NextLimit
    <2>2. \A m \in Limits : counter'[m] = counter[m]
      BY <1>4, Zenon
    <2>3. /\ call[v].taken \subseteq call[v].locked /\ call[v].taken \subseteq Limits
          /\ \A m \in call[v].taken :
                /\ Cost[RequestOf[v]] <= MaxAmount
                /\ counter[m].live => counter[m].current + Cost[RequestOf[v]] <= MaxAmount
          /\ ~call[v].exceeded => call[v].taken \cup call[v].todo = Matches[RequestOf[v]]
      BY <1>0, <2>1, Zenon DEF TakenFits
    <2>4. ASSUME call[v].locked \subseteq call'[v].locked, call'[v].taken = call[v].taken, call'[v].exceeded
          PROVE  Fine(v)
      BY <2>1, <2>2, <2>3, <2>4, Zenon
    <2>5. ASSUME call'[v].locked = call[v].locked \cup {l}, call'[v].taken = call[v].taken \cup {l},
                 call'[v].exceeded = call[v].exceeded, Cost[RequestOf[v]] <= MaxAmount,
                 counter[l].live => counter[l].current + Cost[RequestOf[v]] <= MaxAmount
          PROVE  Fine(v)
      <3>1. call'[v].taken \subseteq call'[v].locked
        BY <2>3, <2>5, Zenon
      <3>2. \A m \in call'[v].taken :
                /\ Cost[RequestOf[v]] <= MaxAmount
                /\ counter'[m].live => counter'[m].current + Cost[RequestOf[v]] <= MaxAmount
        BY <2>2, <2>3, <2>5, Zenon
      <3>3. (call[v].taken \cup {l}) \cup (call[v].todo \ {l}) = call[v].taken \cup call[v].todo
        BY <2>1, Zenon
      <3> QED BY <2>1, <2>3, <2>5, <3>1, <3>2, <3>3, Zenon
    <2> QED BY <2>1, <2>4, <2>5, Zenon
  <1>5. Fine(v)
    <2> HIDE DEF Fine
    <2> QED BY <1>0, <1>2, <1>3, <1>4, Zenon
  <1> QED BY <1>1, <1>5, Zenon DEF TakenFits

\* No reservation touches a counter row that a validation has locked.
LEMMA LockedStay ==
  ASSUME ReservationInv, ReservationStep, NEW v \in Validations, NEW l \in Limits, l \in call[v].locked
  PROVE  counter'[l] = counter[l]
  <1>0. Types /\ RowsApply
    BY Zenon DEF ReservationInv
  <1>1. \A ls : Unlocked(ls) => l \notin ls
    BY Zenon DEF Unlocked, LockedBy
  <1>2. ASSUME NEW t \in Transactions, LedgerStep(t) \/ TTLPasses(t) PROVE counter' = counter
    BY <1>2, Zenon DEF LedgerStep, SendReserve, RetryReserve, ReceiveReply, ReserveUnavailable, BalancesCommit,
                BalancesFail, CommitPending, CancelPending, TTLPasses, tracerVars
  <1>3. ASSUME NEW t \in Transactions, Reserve(t), Unlocked(Applies[t]) PROVE counter'[l] = counter[l]
    <2>1. l \notin Applies[t]
      BY <1>1, <1>3, Zenon
    <2>2. Same(l)
      BY <1>0, <1>3, <2>1, ReserveSteps, Zenon
    <2> QED BY <2>2, Zenon DEF Same
  <1>4. ASSUME NEW t \in Transactions, NEW ls \in SUBSET Limits, NEW status \in Terminal,
               Terminate(t, ls, status), l \in ls => rows[<<t, l>>] # "RESERVED"
        PROVE  counter'[l] = counter[l]
    <2>1. Same(l) \/ (l \in ls /\ Ends(t, l, status))
      BY <1>0, <1>4, TerminateSteps
    <2> QED BY <1>4, <2>1, Zenon DEF Same, Ends
  <1>5. ASSUME NEW c \in calls, TerminateById(c), Unlocked({c.l}) PROVE counter'[l] = counter[l]
    <2>1. /\ c.t \in Transactions /\ StatusOf(c.op) \in Terminal /\ {c.l} \in SUBSET Limits
          /\ Terminate(c.t, {c.l}, StatusOf(c.op)) /\ l \notin {c.l}
      BY <1>0, <1>1, <1>5, CallsNameTransactions, Zenon DEF TerminateById, StatusOf, Terminal
    <2> QED BY <1>4, <2>1, Zenon
  <1>6. ASSUME NEW c \in calls, TerminateByTransaction(c), Unlocked(Applies[c.t])
        PROVE  counter'[l] = counter[l]
    <2>1. /\ c.t \in Transactions /\ StatusOf(c.op) \in Terminal /\ Limits \in SUBSET Limits
          /\ Terminate(c.t, Limits, StatusOf(c.op)) /\ l \notin Applies[c.t]
      BY <1>0, <1>1, <1>6, CallsNameTransactions, Zenon DEF TerminateByTransaction, StatusOf, Terminal
    <2>2. rows[<<c.t, l>>] # "RESERVED"
      BY <1>0, <2>1 DEF RowsApply
    <2> QED BY <1>4, <2>1, <2>2, Zenon
  <1>7. ASSUME NEW t \in Transactions, NEW m \in Limits, ReleaseExpired(t, m), Unlocked({m})
        PROVE  counter'[l] = counter[l]
    <2>1. {m} \in SUBSET Limits /\ "EXPIRED" \in Terminal /\ Terminate(t, {m}, "EXPIRED") /\ l \notin {m}
      BY <1>1, <1>7, Zenon DEF ReleaseExpired, Terminal
    <2> QED BY <1>4, <2>1, Zenon
  <1>8. ASSUME NEW m \in Limits, DeleteExpiredCounter(m), Unlocked({m}) PROVE counter'[l] = counter[l]
    BY <1>0, <1>1, <1>8, Zenon DEF DeleteExpiredCounter, Types
  <1>9. ASSUME NEW c \in calls, Lose(c) PROVE counter' = counter
    BY <1>9, Zenon DEF Lose, tracerVars
  <1>10. FindExpiredReservations => counter' = counter
    BY DEF FindExpiredReservations
  <1> QED BY <1>2, <1>3, <1>5, <1>6, <1>7, <1>8, <1>9, <1>10, Zenon DEF ReservationStep

LEMMA ReservationsStep ==
  ASSUME ReservationStep \/ UNCHANGED allVars
  PROVE  [Next]_vars /\ UNCHANGED validationVars
  BY Zenon DEF ReservationStep, Next, allVars

LEMMA NaturalTotals ==
  ASSUME NEW l \in Limits
  PROVE  Total(WithStatus(l, "CONFIRMED")) \in Nat /\ AllowedUsage(l) \in Nat
  <1>1. Total(WithStatus(l, "CONFIRMED")) \in Nat
    BY TotalIsNatural, Zenon DEF WithStatus
  <1>2. IsFiniteSet(Allowed(l)) /\ \A q \in Allowed(l) : Cost[q] \in Nat
    BY ValidationsAssumption, FS_Subset, Zenon DEF Allowed
  <1>3. AllowedUsage(l) \in Nat
    BY <1>2, SumOfNaturals, Zenon DEF AllowedUsage
  <1> QED BY <1>1, <1>3

\* What one ALLOWed request more does to the usage of a limit.
LEMMA AllowedWith ==
  ASSUME NEW l \in Limits, NEW q \in Requests, q \notin Allowed(l),
         Allowed(l)' = Allowed(l) \cup {q}
  PROVE  AllowedUsage(l)' = Cost[q] + AllowedUsage(l)
  <1>1. IsFiniteSet(Allowed(l)) /\ \A p \in Allowed(l) \cup {q} : Cost[p] \in Nat
    BY ValidationsAssumption, FS_Subset, Zenon DEF Allowed
  <1>2. SumFunctionOnSet(Cost, Allowed(l) \cup {q}) = Cost[q] + SumFunctionOnSet(Cost, Allowed(l))
    BY <1>1, SumWith, Zenon
  <1>3. AllowedUsage(l)' = SumFunctionOnSet(Cost, Allowed(l)')
    BY DEF AllowedUsage
  <1> QED BY <1>2, <1>3, Zenon DEF AllowedUsage

\* A reservation step moves current_usage with the CONFIRMED rows only.
LEMMA ReservationsAccounted ==
  ASSUME AccountInv, ReservationStep \/ UNCHANGED allVars
  PROVE  AccountInv'
  <1>0. /\ ReservationInv /\ ValidationInv /\ Types /\ LocksExclusive /\ TakenFits /\ LocksInOrder
        /\ UsageIsAccounted /\ AllowedWithinLimit /\ ValidationTypes
    BY DEF AccountInv, ReservationInv, ValidationInv
  <1>1. [Next]_vars /\ UNCHANGED validationVars
    BY ReservationsStep
  <1>2. UNCHANGED <<call, records>>
    BY <1>1 DEF validationVars
  <1>3. ReservationInv' /\ ValidationInv'
    BY <1>0, <1>1, ReservationInvPreserved, ReservationsLeaveAnswers, Zenon
  <1>4. wiped \subseteq wiped' /\ \A l \in Limits : CounterStep(l)
    BY <1>0, <1>1, StepsOnCounters, Zenon
  <1>5. LocksExclusive' /\ LocksInOrder'
    BY <1>0, <1>2, Zenon DEF LocksExclusive, LocksInOrder
  <1>6. TakenFits'
    <2>1. ASSUME NEW v \in Validations, NEW l \in call[v].taken PROVE counter'[l] = counter[l]
      <3>1. l \in Limits /\ l \in call[v].locked
        BY <1>0, Zenon DEF TakenFits, ValidationTypes, OpenCalls
      <3>2. CASE ReservationStep
        BY <1>0, <3>1, <3>2, LockedStay, Zenon
      <3>3. CASE UNCHANGED allVars
        BY <3>3, Zenon DEF allVars, vars
      <3> QED BY <3>2, <3>3, Zenon
    <2> QED BY <1>0, <1>2, <2>1, Zenon DEF TakenFits
  <1>7. ASSUME NEW l \in Limits PROVE AllowedUsage(l)' = AllowedUsage(l)
    BY <1>2, Zenon DEF AllowedUsage, Allowed
  <1>8. ASSUME NEW l \in Limits \ wiped'
        PROVE  counter'[l].current = Total(WithStatus(l, "CONFIRMED"))' + AllowedUsage(l)'
    <2>1. counter'[l].current + Total(WithStatus(l, "CONFIRMED"))
            = counter[l].current + Total(WithStatus(l, "CONFIRMED"))'
      BY <1>0, <1>4, ConfirmedStep, Zenon
    <2>2. counter[l].current = Total(WithStatus(l, "CONFIRMED")) + AllowedUsage(l)
      BY <1>0, <1>4, Zenon DEF UsageIsAccounted
    <2>3. counter'[l].current \in Int
      BY <1>3 DEF ReservationInv, Types, Counters
    <2>4. Total(WithStatus(l, "CONFIRMED"))' \in Nat
      BY TotalIsNatural, Zenon DEF WithStatus, Total
    <2>5. Total(WithStatus(l, "CONFIRMED")) \in Nat /\ AllowedUsage(l) \in Nat
      BY NaturalTotals
    <2>6. AllowedUsage(l)' = AllowedUsage(l)
      BY <1>7, Zenon
    <2>7. PICK used \in Nat, used1 \in Nat, allowed \in Nat, current \in Int :
            /\ used = Total(WithStatus(l, "CONFIRMED")) /\ used1 = Total(WithStatus(l, "CONFIRMED"))'
            /\ allowed = AllowedUsage(l) /\ current = counter'[l].current
      BY <2>3, <2>4, <2>5, Zenon
    <2>8. current + used = (used + allowed) + used1
      BY <2>1, <2>2, <2>7, Zenon
    <2>9. current = used1 + allowed
      BY <2>8
    <2> QED BY <2>6, <2>7, <2>9, Zenon
  <1>9. UsageIsAccounted'
    BY <1>8, Zenon DEF UsageIsAccounted
  <1>10. AllowedWithinLimit'
    BY <1>0, <1>4, <1>7, Zenon DEF AllowedWithinLimit
  <1> QED BY <1>3, <1>5, <1>6, <1>9, <1>10, Zenon DEF AccountInv

\* A validation that does not commit an ALLOW leaves no usage behind.
LEMMA UncommittedAccounted ==
  ASSUME AccountInv, NEW v \in Validations, ValidationStep(v), ~Commit(v)
  PROVE  AccountInv'
  <1>0. /\ ReservationInv /\ ValidationInv /\ TakenFits /\ UsageIsAccounted /\ AllowedWithinLimit
        /\ ValidationTypes /\ RecordedIsOwn
    BY DEF AccountInv, ValidationInv
  <1>1. UNCHANGED vars
    BY Zenon DEF ValidationStep, Validate, ProcessLimit, RollbackCounters, InsertWithTx, Persist, PersistAudit,
           Interrupt
  <1>2. UNCHANGED <<counter, rows, elapsed, sweep, tx, handle, calls, reply, retried, wiped>>
    BY <1>1 DEF vars
  <1>3. ReservationInv'
    BY <1>0, <1>1, ReservationInvPreserved, Zenon
  <1>4. ValidationInv' /\ LocksExclusive' /\ LocksInOrder'
    BY <1>0, LocksPreserved, ValidationInvPreserved, Zenon DEF ValidationNext
  <1>5. TakenFits'
    BY <1>2, TakenPreserved, Zenon
  <1>6. \A l \in Limits : Allowed(l)' = Allowed(l)
    <2>1. CASE UNCHANGED records
      BY <2>1, Zenon DEF Allowed
    <2>2. ASSUME ~Recorded(RequestOf[v]), call[v].step = "finalizing",
                 records' = [records EXCEPT ![RequestOf[v]] = [by |-> v, decision |-> call[v].decision]]
          PROVE  \A l \in Limits : Allowed(l)' = Allowed(l)
      <3>1. call[v].decision # "ALLOW" /\ records[RequestOf[v]].decision # "ALLOW"
        BY <1>0, <2>2 DEF RecordedIsOwn, Recorded, NoRecord
      <3>2. \A q \in Requests : records'[q].decision = "ALLOW" <=> records[q].decision = "ALLOW"
        BY <1>0, <2>2, <3>1, Zenon DEF ValidationTypes
      <3> QED BY <3>2, Zenon DEF Allowed
    <2> QED BY <2>1, <2>2, Zenon DEF ValidationStep, Validate, ProcessLimit, RollbackCounters, InsertWithTx,
                              Persist, PersistAudit, Interrupt
  <1>7. UsageIsAccounted' /\ AllowedWithinLimit'
    BY <1>0, <1>2, <1>6, Zenon DEF UsageIsAccounted, AllowedWithinLimit, AllowedUsage, WithStatus, Total
  <1> QED BY <1>3, <1>4, <1>5, <1>7, Zenon DEF AccountInv

\* A committed ALLOW adds its amount to every matching counter, all of which
\* had room for it since they were locked.
LEMMA CommitAccounted ==
  ASSUME AccountInv, NEW v \in Validations, Commit(v)
  PROVE  AccountInv'
  <1> DEFINE q == RequestOf[v]
  <1>0. /\ ReservationInv /\ ValidationInv /\ LocksExclusive /\ TakenFits /\ LocksInOrder
        /\ UsageIsAccounted /\ AllowedWithinLimit /\ ValidationTypes /\ OneInsertPerRequest
        /\ Types /\ MissingIsEmpty
    BY Zenon DEF AccountInv, ValidationInv, ReservationInv
  <1>1. /\ q \in Requests /\ Cost[q] \in Nat /\ MaxAmount \in Nat
        /\ call[v].step = "recorded" /\ ~Recorded(q) /\ call[v].taken = Matches[q]
        /\ call[v].taken \subseteq call[v].locked /\ Matches[q] \subseteq Limits
    BY <1>0, ValidationsAssumption, TransactionsAssumption, Zenon DEF Commit, OneInsertPerRequest, TakenFits
  <1>2. /\ counter' = [l \in Limits |-> IF l \in Matches[q] THEN Counted(v, l) ELSE counter[l]]
        /\ records' = [records EXCEPT ![q] = [by |-> v, decision |-> "ALLOW"]]
        /\ UNCHANGED <<rows, elapsed, sweep, tx, handle, calls, reply, retried, wiped>>
    BY <1>1, Zenon DEF Commit, ledgerVars
  <1>3. ValidationInv' /\ LocksExclusive' /\ LocksInOrder'
    BY <1>0, LocksPreserved, ValidationInvPreserved, Zenon DEF ValidationNext, ValidationStep
  <1>4. ASSUME NEW l \in Limits
        PROVE  /\ l \in Matches[q] => /\ counter'[l] \in Counters /\ counter'[l].live
                                      /\ counter'[l].current = counter[l].current + Cost[q]
               /\ l \notin Matches[q] => counter'[l] = counter[l]
    <2>1. counter'[l] = IF l \in Matches[q] THEN Counted(v, l) ELSE counter[l]
      BY <1>2, Zenon
    <2>2. counter[l] \in Counters
      BY <1>0, Zenon DEF Types
    <2> HIDE DEF q
    <2>3. Counted(v, l) = [live |-> TRUE, current |-> counter[l].current + Cost[q],
                           reserved |-> counter[l].reserved, expiry |-> Period]
      BY Zenon DEF Counted, q
    <2>4. /\ Counted(v, l) \in Counters /\ Counted(v, l).live
          /\ Counted(v, l).current = counter[l].current + Cost[q]
      BY <1>1, <2>2, <2>3 DEF Counters
    <2> QED BY <2>1, <2>4, Zenon
  <1>5. ReservationInv'
    <2>1. Types' /\ MissingIsEmpty'
      BY <1>0, <1>2, <1>4, ZenonT(30) DEF Types, MissingIsEmpty
    <2> QED BY <1>0, <1>2, <2>1, Zenon DEF ReservationInv, ConfirmsFollowCommit, ConfirmedWasCommitted,
                                    AllOrNothing, RowsApply, FirstReserve
  <1>6. TakenFits'
    <2>1. Restarts(v)
      BY <1>0 DEF Commit, Finish, Restarts, Done, New, ValidationTypes
    <2>2. ASSUME NEW u \in Validations \ {v}, NEW l \in call[u].locked PROVE counter'[l] = counter[l]
      <3>1. l \in Limits /\ l \notin Matches[q]
        BY <1>0, <1>1, Zenon DEF LocksExclusive, ValidationTypes, OpenCalls
      <3> QED BY <1>4, <3>1, Zenon
    <2> QED BY <2>1, <2>2, TakenPreserved, Zenon DEF ValidationStep
  <1>7. \A p \in Requests : records'[p].decision = "ALLOW" <=> records[p].decision = "ALLOW" \/ p = q
    BY <1>0, <1>1, <1>2, Zenon DEF ValidationTypes
  <1>8. records[q].decision # "ALLOW"
    BY <1>1 DEF Recorded, NoRecord
  <1>9. ASSUME NEW l \in Limits \ wiped'
        PROVE  /\ counter'[l].current = Total(WithStatus(l, "CONFIRMED"))' + AllowedUsage(l)'
               /\ AllowedUsage(l)' <= MaxAmount
    <2>1. Total(WithStatus(l, "CONFIRMED"))' = Total(WithStatus(l, "CONFIRMED"))
      BY <1>2, Zenon DEF WithStatus, Total
    <2>2. /\ counter[l].current = Total(WithStatus(l, "CONFIRMED")) + AllowedUsage(l)
          /\ AllowedUsage(l) <= MaxAmount
      BY <1>0, <1>2, Zenon DEF UsageIsAccounted, AllowedWithinLimit
    <2>3. CASE l \notin Matches[q]
      <3>1. Allowed(l)' = Allowed(l)
        BY <1>1, <1>7, <2>3, Zenon DEF Allowed
      <3> QED BY <1>4, <2>1, <2>2, <2>3, <3>1, Zenon DEF AllowedUsage
    <2>4. CASE l \in Matches[q]
      <3>1. q \notin Allowed(l) /\ Allowed(l)' = Allowed(l) \cup {q}
        BY <1>1, <1>7, <1>8, <2>4, Zenon DEF Allowed
      <3>2. AllowedUsage(l)' = Cost[q] + AllowedUsage(l)
        BY <1>1, <3>1, AllowedWith, Zenon
      <3>3. counter[l].current + Cost[q] <= MaxAmount
        <4>1. Cost[q] <= MaxAmount /\ (counter[l].live => counter[l].current + Cost[q] <= MaxAmount)
          BY <1>0, <1>1, <2>4, Zenon DEF TakenFits
        <4>2. ~counter[l].live => counter[l].current = 0
          BY <1>0, Zenon DEF MissingIsEmpty
        <4> HIDE DEF q
        <4>3. CASE ~counter[l].live
          <5>1. counter[l].current + Cost[q] = Cost[q]
            BY <1>1, <4>2, <4>3
          <5> QED BY <4>1, <5>1, Zenon
        <4> QED BY <4>1, <4>3, Zenon
      <3>4. counter'[l].current = counter[l].current + Cost[q]
        BY <1>4, <2>4, Zenon
      <3> HIDE DEF q
      <3> QED BY <1>1, <2>1, <2>2, <3>2, <3>3, <3>4, NaturalTotals
    <2> QED BY <2>3, <2>4, Zenon
  <1>10. UsageIsAccounted' /\ AllowedWithinLimit'
    BY <1>9 DEF UsageIsAccounted, AllowedWithinLimit
  <1> QED BY <1>3, <1>5, <1>6, <1>10, Zenon DEF AccountInv

LEMMA AccountInvariant == ValidationSpec => []AccountInv
  <1>1. ValidationInit => AccountInv
    <2> SUFFICES ASSUME ValidationInit PROVE AccountInv
      OBVIOUS
    <2>1. ReservationInv /\ ValidationInv
      BY InitialReservations, InitialValidations, Zenon DEF ValidationInit
    <2>2. LocksExclusive /\ TakenFits /\ LocksInOrder
      BY Zenon DEF ValidationInit, New, LocksExclusive, TakenFits, LocksInOrder
    <2>3. ASSUME NEW l \in Limits
          PROVE  counter[l].current = Total(WithStatus(l, "CONFIRMED")) + AllowedUsage(l)
                 /\ AllowedUsage(l) <= MaxAmount
      <3>1. WithStatus(l, "CONFIRMED") = {} /\ Allowed(l) = {}
        BY Zenon DEF ValidationInit, Init, WithStatus, Allowed, NoRecord
      <3>2. Total({}) = 0 /\ SumFunctionOnSet(Cost, {}) = 0
        BY SumOfNone, Zenon DEF Total
      <3>3. counter[l].current = 0 /\ MaxAmount \in Nat
        BY TransactionsAssumption, Zenon DEF ValidationInit, Init, NoCounter
      <3> QED BY <3>1, <3>2, <3>3 DEF AllowedUsage
    <2> QED BY <2>1, <2>2, <2>3, Zenon DEF AccountInv, UsageIsAccounted, AllowedWithinLimit
  <1>2. AccountInv /\ [ValidationNext]_allVars => AccountInv'
    BY ReservationsAccounted, UncommittedAccounted, CommitAccounted, Zenon DEF ValidationNext
  <1> QED BY <1>1, <1>2, PTL DEF ValidationSpec

-----------------------------------------------------------------------------
(* Waiting *)

\* A call that waits for an insert waits for one that waits for nobody.
LEMMA InserterWaitsForNobody ==
  ASSUME NEW v \in Validations, NEW u \in Inserting(v)
  PROVE  u \in Validations /\ WaitsFor(u) = {}
  BY DEF Inserting, WaitsFor, Checked

\* Along a chain of waits the limits waited for rise in rank, and there are
\* finitely many of them.
LEMMA WaitsEnd ==
  ASSUME ValidationTypes, LocksInOrder
  PROVE  NoDeadlock
  <1> SUFFICES ASSUME NEW vs \in SUBSET Validations, vs # {},
                      \A v \in vs : WaitsFor(v) \cap vs # {}
               PROVE  FALSE
    BY Zenon DEF NoDeadlock
  <1>1. ASSUME NEW v \in vs
        PROVE  \E u \in vs, l \in Limits : call[v].step = "checking" /\ NextLimit(v, l) /\ l \in call[u].locked
    <2>1. PICK u \in vs : u \in WaitsFor(v)
      OBVIOUS
    <2>2. u \notin Inserting(v)
      <3>1. WaitsFor(u) # {}
        BY Zenon
      <3> QED BY <3>1, InserterWaitsForNobody, Zenon
    <2>3. call[v].step = "checking" /\ \E l \in LockedBy(u) : NextLimit(v, l)
      BY <2>1, <2>2, Zenon DEF WaitsFor
    <2> QED BY <2>3 DEF LockedBy, ValidationTypes, OpenCalls
  <1> DEFINE Above(l) == {m \in Limits : Rank[l] < Rank[m]}
             Awaited == {l \in Limits : \E v \in vs : call[v].step = "checking" /\ NextLimit(v, l)}
             B == {Above(l) : l \in Awaited}
  <1>2. B \in SUBSET SUBSET Limits /\ B # {}
    <2>1. PICK v \in vs : TRUE
      BY Zenon
    <2>2. PICK l \in Limits : call[v].step = "checking" /\ NextLimit(v, l)
      BY <1>1, Zenon
    <2>3. Above(l) \in B
      BY <2>2, Zenon
    <2> QED BY <2>3, Zenon
  <1>3. IsFiniteSet(Limits)
    BY TransactionsAssumption, Zenon
  <1>4. PICK s \in B : \A r \in B : r \subseteq s => r = s
    <2> HIDE DEF B
    <2> QED BY <1>2, <1>3, SmallestSubset
  <1>5. PICK l \in Awaited : s = Above(l)
    BY Zenon
  <1>6. PICK v \in vs : call[v].step = "checking" /\ NextLimit(v, l)
    BY <1>5, Zenon
  <1>7. PICK u \in vs : l \in call[u].locked
    <2>1. PICK u \in vs, m \in Limits : NextLimit(v, m) /\ m \in call[u].locked
      BY <1>1, Zenon
    <2>2. m = l
      <3>1. Rank[m] <= Rank[l] /\ Rank[l] <= Rank[m]
        BY <1>6, <2>1, Zenon DEF NextLimit
      <3>2. Rank[m] \in Nat /\ Rank[l] \in Nat /\ (Rank[l] = Rank[m] => l = m)
        BY <1>5, ValidationsAssumption, Zenon
      <3> QED BY <3>1, <3>2
    <2> QED BY <2>1, <2>2, Zenon
  <1>8. PICK m \in Limits : call[u].step = "checking" /\ NextLimit(u, m)
    BY <1>1, Zenon
  <1>9. Rank[l] < Rank[m]
    BY <1>7, <1>8, Zenon DEF LocksInOrder, NextLimit
  <1>10. Above(m) \subseteq Above(l) /\ m \in Above(l) /\ m \notin Above(m)
    <2>1. \A n \in Limits : Rank[n] \in Nat
      BY ValidationsAssumption, Zenon
    <2> QED BY <1>5, <1>9, <2>1
  <1>11. Above(m) \in B
    BY <1>8
  <1> QED BY <1>4, <1>5, <1>10, <1>11, Zenon

-----------------------------------------------------------------------------
\* An answered ALLOW is recorded under the id the client was given, and
\* audited (commitAllowPath puts the three into one database transaction).
THEOREM AllowsAreBacked == ValidationSpec => []AllowIsBacked
  <1>1. ValidationInv => AllowIsBacked
    BY DEF ValidationInv
  <1> QED BY <1>1, ValidationInvariant, PTL

\* All answers to one request carry its one recorded decision, unless
\* persistTransactionValidation gave up.
THEOREM RepeatedRequestsAgree == ValidationSpec => []AnswersAgree
  <1>1. ValidationInv => AnswersAgree
    BY DEF ValidationInv
  <1> QED BY <1>1, ValidationInvariant, PTL

\* current_usage is what confirmed reservations and ALLOWed requests used: the
\* increments of processLimitAtomic become visible with the record, or never.
THEOREM UsageIsExact == ValidationSpec => []UsageIsAccounted
  <1>1. AccountInv => UsageIsAccounted
    BY DEF AccountInv
  <1> QED BY <1>1, AccountInvariant, PTL

\* The requests that CheckLimits allows fit the limit, however the calls
\* interleave: the room each found under the row lock is still there when it
\* commits.
THEOREM AllowedRequestsFit == ValidationSpec => []AllowedWithinLimit
  <1>1. AccountInv => AllowedWithinLimit
    BY DEF AccountInv
  <1> QED BY <1>1, AccountInvariant, PTL

\* Calls of Validate never wait for each other in a circle, because
\* getApplicableLimits orders the counters they lock.
THEOREM ValidationsDoNotDeadlock == ValidationSpec => []NoDeadlock
  <1>1. AccountInv => NoDeadlock
    BY WaitsEnd DEF AccountInv, ValidationInv
  <1> QED BY <1>1, AccountInvariant, PTL

=============================================================================
