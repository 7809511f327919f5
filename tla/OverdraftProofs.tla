--------------------------- MODULE OverdraftProofs ---------------------------
(***************************************************************************)
(* What TLAPS proves about the requests together, whatever happened        *)
(* between reading a balance and the script: holds add up, overdraft stays *)
(* within its limit, money is conserved, and the companion balance covers  *)
(* the overdraft in use.                                                   *)
(***************************************************************************)
EXTENDS OverdraftScriptProofs

-----------------------------------------------------------------------------
(* The types are kept *)

\* The script runs the operations of a request from the balances there are.
LEMMA ScriptTyped ==
  ASSUME Typed, NEW t \in Transactions, request[t] # Idle
  PROVE  Batch(EnrichOverdraftOperations(t)) \in ScriptStates
  <1>1. EnrichOverdraftOperations(t) \in Seq(Ops)
    BY OperationsAre, Zenon
  <1>2. bal \in [Balances -> Records]
    BY Zenon DEF Typed
  <1> QED BY <1>1, <1>2, BatchTyped, Zenon


\* The two outcomes of a request: refused and nothing moved, or applied.
LEMMA ProcessIs ==
  ASSUME Typed, NEW t \in Transactions, ProcessBalanceAtomicOperation(t),
         NEW out, out = Batch(EnrichOverdraftOperations(t))
  PROVE  /\ request[t] # Idle /\ request' = [request EXCEPT ![t] = Idle]
         /\ settings' = settings
         /\ \/ /\ out.refused /\ bal' = bal /\ overdrawn' = overdrawn
               /\ status' = [status EXCEPT ![t] = IF status[t] = "new" THEN "rejected" ELSE status[t]]
            \/ /\ ~out.refused /\ bal' = out.bal /\ overdrawn' \in [Transactions -> Nat]
               /\ status' = [status EXCEPT ![t] = request[t].stage]
  <1>1. request[t] # Idle /\ request' = [request EXCEPT ![t] = Idle] /\ settings' = settings
    BY DEF ProcessBalanceAtomicOperation, admin
  <1>2. CASE out.refused
    <2>1. bal' = bal /\ overdrawn' = overdrawn
          /\ status' = [status EXCEPT ![t] = IF @ = "new" THEN "rejected" ELSE @]
      BY <1>2, Zenon DEF ProcessBalanceAtomicOperation
    <2> QED BY <1>1, <1>2, <2>1, Zenon
  <1>3. CASE ~out.refused
    <2> DEFINE grown == out.bal[Default(From[t])].OverdraftUsed - bal[Default(From[t])].OverdraftUsed
    <2>1. /\ bal' = out.bal /\ status' = [status EXCEPT ![t] = request[t].stage]
          /\ overdrawn' = [overdrawn EXCEPT ![t] =
                             IF request[t].stage = "PENDING" THEN HeldOverdraft(BuildOperations(out), grown) ELSE @]
      BY <1>3, Zenon DEF ProcessBalanceAtomicOperation
    <2>2. HeldOverdraft(BuildOperations(out), grown) \in Nat
      <3>1. out \in ScriptStates
        BY <1>1, ScriptTyped, Zenon
      <3>2. grown \in Int
        <4>1. Default(From[t]) \in Balances
          BY TransfersAssumption DEF Default, Balances
        <4>2. out.bal[Default(From[t])] \in Records /\ bal[Default(From[t])] \in Records
          BY <3>1, <4>1 DEF ScriptStates, Typed
        <4> QED BY <4>2 DEF Records
      <3> HIDE DEF grown
      <3> QED BY <3>1, <3>2, HeldTyped, Zenon
    <2>3. overdrawn \in [Transactions -> Nat]
      BY DEF Typed
    <2>4. overdrawn' \in [Transactions -> Nat]
      <3> DEFINE h == HeldOverdraft(BuildOperations(out), grown)
      <3> HIDE DEF h
      <3>1. h \in Nat /\ overdrawn' = [overdrawn EXCEPT ![t] = IF request[t].stage = "PENDING" THEN h ELSE @]
        BY <2>1, <2>2 DEF h
      <3> QED BY <2>3, <3>1
    <2> QED BY <1>1, <1>3, <2>1, <2>4, Zenon
  <1> QED BY <1>2, <1>3

\* A request copies the balances and the settings it finds.
LEMMA GetIs ==
  ASSUME Typed, NEW t \in Transactions, GetBalances(t)
  PROVE  /\ request[t] = Idle
         /\ UNCHANGED <<bal, status, overdrawn, settings>>
         /\ \E r \in RequestSet :
              /\ request' = [request EXCEPT ![t] = r]
              /\ r.stage \in StagesOf(t) /\ (r.stage = "CREATED" => ~r.routes)
              /\ r.from = bal[Default(From[t])] /\ r.to = bal[Default(To[t])]
              /\ r.allows = {a \in {From[t], To[t]} : Allows(a)}
  <1>1. request[t] = Idle /\ UNCHANGED <<bal, status, overdrawn, settings>>
    BY DEF GetBalances, admin
  <1>2. PICK stage \in StagesOf(t), routes \in BOOLEAN, cached \in BOOLEAN :
         request' = [request EXCEPT ![t] =
            [stage |-> stage, routes |-> routes /\ stage # "CREATED",
             cached |-> cached /\ overdrawn[t] > 0 /\ stage = "CANCELED",
             from |-> bal[Default(From[t])], to |-> bal[Default(To[t])],
             allows |-> {a \in {From[t], To[t]} : Allows(a)}]]
    BY Zenon DEF GetBalances
  <1> DEFINE ro == routes /\ stage # "CREATED"
             ca == cached /\ overdrawn[t] > 0 /\ stage = "CANCELED"
             fr == bal[Default(From[t])]
             to == bal[Default(To[t])]
             al == {a \in {From[t], To[t]} : Allows(a)}
             r == [stage |-> stage, routes |-> ro, cached |-> ca, from |-> fr, to |-> to, allows |-> al]
  <1>3. stage \in Stages
    BY DEF StagesOf, Stages
  <1>4. ro \in BOOLEAN /\ ca \in BOOLEAN
    OBVIOUS
  <1>5. fr \in Records /\ to \in Records
    <2>1. From[t] \in Accounts /\ To[t] \in Accounts
      BY TransfersAssumption
    <2>2. Default(From[t]) \in Balances /\ Default(To[t]) \in Balances
      BY <2>1, BalancesAre
    <2> QED BY <2>2 DEF Typed
  <1>6. al \in SUBSET Overdrafted
    BY DEF Allows
  <1>7. stage = "CREATED" => ~ro
    OBVIOUS
  <1> HIDE DEF ro, ca, fr, to, al
  <1>8. r \in RequestSet
    BY <1>3, <1>4, <1>5, <1>6, Zenon DEF RequestSet
  <1>9. r.stage = stage /\ r.routes = ro /\ r.from = fr /\ r.to = to /\ r.allows = al
    OBVIOUS
  <1>10. request' = [request EXCEPT ![t] = r]
    BY <1>2, Zenon DEF r, ro, ca, fr, to, al
  <1> HIDE DEF r
  <1>11. r.stage \in StagesOf(t) /\ (r.stage = "CREATED" => ~r.routes)
    BY <1>7, <1>9
  <1>12. r.from = bal[Default(From[t])] /\ r.to = bal[Default(To[t])]
    BY <1>9 DEF fr, to
  <1>13. r.allows = {a \in {From[t], To[t]} : Allows(a)}
    BY <1>9, Zenon DEF al
  <1> QED BY <1>1, <1>8, <1>10, <1>11, <1>12, <1>13, Zenon

\* The types hold at first.
LEMMA TypedAtFirst == Init => Typed
  <1> SUFFICES ASSUME Init PROVE Typed
    OBVIOUS
  <1>1. bal \in [Balances -> Records]
    <2> DEFINE first(b) == [Available |-> IF b[2] = "default" THEN Funds[b[1]] ELSE 0,
                            OnHold |-> 0, OverdraftUsed |-> 0, Version |-> 0]
    <2>1. ASSUME NEW b \in Balances PROVE first(b) \in Records
      <3>1. b[2] = "default" => b[1] \in Accounts
        BY DEF Balances
      <3>2. (IF b[2] = "default" THEN Funds[b[1]] ELSE 0) \in Int
        BY <3>1, TransfersAssumption
      <3> QED BY <3>2 DEF Records
    <2>2. bal = [b \in Balances |-> first(b)]
      BY DEF Init
    <2> HIDE DEF first
    <2> QED BY <2>1, <2>2
  <1>2. settings \in [Overdrafted -> [AllowOverdraft : BOOLEAN, OverdraftLimit : Nat]]
    BY TransfersAssumption DEF Init
  <1>3. /\ request \in [Transactions -> {Idle} \cup RequestSet]
        /\ overdrawn \in [Transactions -> Nat]
        /\ status \in [Transactions -> {"new", "rejected", "CREATED", "PENDING", "APPROVED", "CANCELED"}]
        /\ \A t \in Transactions : request[t] = Idle /\ status[t] = "new"
    BY DEF Init
  <1> QED BY <1>1, <1>2, <1>3, Zenon DEF Typed

\* Every step keeps the types.
LEMMA TypedKept == Typed /\ [Next]_vars => Typed'
  <1> DEFINE Statuses == {"new", "rejected", "CREATED", "PENDING", "APPROVED", "CANCELED"}
             Settings == [AllowOverdraft : BOOLEAN, OverdraftLimit : Nat]
             Held1 == \A t \in Transactions : status[t] = "PENDING" => t \in Pending
             Asked(t) == request[t] # Idle =>
                           request[t].stage \in StagesOf(t) /\ (request[t].stage = "CREATED" => ~request[t].routes)
  <1> SUFFICES ASSUME Typed, [Next]_vars PROVE Typed'
    OBVIOUS
  <1>0. /\ bal \in [Balances -> Records] /\ status \in [Transactions -> Statuses]
        /\ request \in [Transactions -> {Idle} \cup RequestSet] /\ overdrawn \in [Transactions -> Nat]
        /\ settings \in [Overdrafted -> Settings] /\ Held1 /\ \A t \in Transactions : Asked(t)
    BY DEF Typed
  <1>10. /\ bal' \in [Balances -> Records] /\ status' \in [Transactions -> Statuses]
         /\ request' \in [Transactions -> {Idle} \cup RequestSet] /\ overdrawn' \in [Transactions -> Nat]
         /\ settings' \in [Overdrafted -> Settings] /\ Held1' /\ (\A t \in Transactions : Asked(t)')
         => Typed'
    BY DEF Typed
  <1>1. ASSUME NEW t \in Transactions, GetBalances(t) PROVE Typed'
    <2>1. UNCHANGED <<bal, status, overdrawn, settings>>
      BY <1>1, GetIs
    <2>2. PICK r \in RequestSet :
             /\ request' = [request EXCEPT ![t] = r]
             /\ r.stage \in StagesOf(t) /\ (r.stage = "CREATED" => ~r.routes)
      BY <1>1, GetIs
    <2>3. request' \in [Transactions -> {Idle} \cup RequestSet]
      BY <1>0, <2>2
    <2>4. request'[t] = r /\ \A u \in Transactions \ {t} : request'[u] = request[u]
      BY <1>0, <2>2
    <2>5. \A u \in Transactions : StagesOf(u)' = StagesOf(u)
      BY <2>1, Zenon DEF StagesOf
    <2>6. ASSUME NEW u \in Transactions PROVE Asked(u)'
      <3>1. CASE u = t
        BY <2>2, <2>4, <2>5, <3>1, Zenon
      <3>2. CASE u # t
        <4>1. request'[u] = request[u] /\ StagesOf(u)' = StagesOf(u) /\ Asked(u)
          BY <1>0, <2>4, <2>5, <3>2, Zenon
        <4> QED BY <4>1, Zenon
      <3> QED BY <3>1, <3>2
    <2>7. Held1' /\ (bal \in [Balances -> Records])' /\ (status \in [Transactions -> Statuses])'
          /\ (overdrawn \in [Transactions -> Nat])' /\ (settings \in [Overdrafted -> Settings])'
      BY <1>0, <2>1, Zenon
    <2> QED BY <1>10, <2>3, <2>6, <2>7, Zenon
  <1>2. ASSUME NEW t \in Transactions, ProcessBalanceAtomicOperation(t) PROVE Typed'
    <2> DEFINE out == Batch(EnrichOverdraftOperations(t))
               s == status'[t]
    <2>1. /\ request[t] # Idle /\ request' = [request EXCEPT ![t] = Idle]
          /\ settings' = settings
          /\ \/ /\ out.refused /\ bal' = bal /\ overdrawn' = overdrawn
                /\ status' = [status EXCEPT ![t] = IF status[t] = "new" THEN "rejected" ELSE status[t]]
             \/ /\ ~out.refused /\ bal' = out.bal /\ overdrawn' \in [Transactions -> Nat]
                /\ status' = [status EXCEPT ![t] = request[t].stage]
      BY <1>2, ProcessIs, Zenon
    <2>2. out \in ScriptStates
      BY <2>1, ScriptTyped, Zenon
    <2> HIDE DEF out
    <2>3. bal' \in [Balances -> Records] /\ overdrawn' \in [Transactions -> Nat]
          /\ settings' \in [Overdrafted -> Settings]
      BY <1>0, <2>1, <2>2, Zenon DEF ScriptStates
    <2>4. request' \in [Transactions -> {Idle} \cup RequestSet] /\ request'[t] = Idle
          /\ \A u \in Transactions \ {t} : request'[u] = request[u]
      BY <1>0, <2>1, Zenon
    <2>5. request[t].stage \in StagesOf(t) /\ request[t].stage \in Stages
      BY <2>1, RequestIs, Zenon
    <2>6. request[t].stage = "PENDING" => t \in Pending
      BY <2>5 DEF StagesOf
    <2>7. \A u \in Transactions \ {t} : status'[u] = status[u]
      BY <1>0, <2>1, Zenon
    <2>8. status' \in [Transactions -> Statuses]
      BY <1>0, <2>1, <2>5, Zenon DEF Stages
    <2>9. s \in {"rejected", status[t], request[t].stage}
      BY <1>0, <2>1, Zenon
    <2>10. Held1'
      BY <1>0, <2>6, <2>7, <2>9, Zenon
    <2>11. ASSUME NEW u \in Transactions PROVE Asked(u)'
      <3>1. CASE u = t
        BY <2>4, <3>1 DEF Idle
      <3>2. CASE u # t
        <4>1. request'[u] = request[u] /\ Asked(u) /\ status'[u] = status[u]
          BY <1>0, <2>4, <2>7, <3>2, Zenon
        <4>2. StagesOf(u)' = StagesOf(u)
          BY <4>1, Zenon DEF StagesOf
        <4> QED BY <4>1, <4>2, Zenon
      <3> QED BY <3>1, <3>2, Zenon
    <2> QED BY <1>10, <2>3, <2>4, <2>8, <2>10, <2>11, Zenon
  <1>3. ASSUME bal' = bal, status' = status, request' = request, overdrawn' = overdrawn,
               settings' \in [Overdrafted -> Settings]
        PROVE  Typed'
    <2>1. \A u \in Transactions : StagesOf(u)' = StagesOf(u)
      BY <1>3, Zenon DEF StagesOf
    <2>2. \A u \in Transactions : Asked(u)'
      BY <1>0, <1>3, <2>1, Zenon
    <2> QED BY <1>0, <1>3, <1>10, <2>2, Zenon
  <1>4. ASSUME NEW a \in Overdrafted, Flush(a) PROVE Typed'
    BY <1>0, <1>3, <1>4, Zenon DEF Flush
  <1>5. ASSUME NEW a \in Overdrafted, Update(a) PROVE Typed'
    <2>1. PICK s \in NewSettings : settings' = [settings EXCEPT ![a] = s]
      BY <1>5, Zenon DEF Update
    <2>2. s \in Settings
      BY TransfersAssumption
    <2>3. settings' \in [Overdrafted -> Settings]
      BY <1>0, <2>1, <2>2
    <2> QED BY <1>3, <1>5, <2>3, Zenon DEF Update
  <1>6. CASE UNCHANGED vars
    BY <1>0, <1>3, <1>6 DEF vars
  <1> QED BY <1>1, <1>2, <1>4, <1>5, <1>6, Zenon DEF Next

-----------------------------------------------------------------------------
(* What the accounts hold, take and receive *)

Holding(a) == {t \in Transactions : status[t] = "PENDING" /\ From[t] = a}
Settled == {t \in Transactions : status[t] \in {"CREATED", "APPROVED"}}
Brought(a) == {t \in Settled : To[t] = a}
Taken(a) == {t \in Settled : From[t] = a}

\* The total of some transactions, with one more and with one less.
LEMMA TotalIs ==
  ASSUME NEW S \in SUBSET Transactions
  PROVE  /\ Total(S) \in Nat
         /\ \A t \in Transactions \ S : Total(S \cup {t}) = Total(S) + Amount[t]
         /\ \A t \in S : Total(S \ {t}) = Total(S) - Amount[t]
  <1>1. IsFiniteSet(S) /\ \A t \in Transactions : Amount[t] \in Nat
    BY TransfersAssumption, FS_Subset
  <1>2. Total(S) \in Nat
    BY <1>1, SumOfNaturals DEF Total
  <1>3. ASSUME NEW t \in Transactions \ S PROVE Total(S \cup {t}) = Total(S) + Amount[t]
    <2>1. t \notin S /\ \A y \in S \cup {t} : Amount[y] \in Nat
      BY <1>1
    <2>2. Total(S \cup {t}) = Amount[t] + Total(S)
      BY <1>1, <2>1, SumWith, Zenon DEF Total
    <2> QED BY <1>1, <1>2, <2>2
  <1>4. ASSUME NEW t \in S PROVE Total(S \ {t}) = Total(S) - Amount[t]
    <2>1. \A y \in S : Amount[y] \in Nat
      BY <1>1, Zenon
    <2>2. Total(S) = Amount[t] + Total(S \ {t})
      BY <1>1, <2>1, SumWithout DEF Total
    <2>3. IsFiniteSet(S \ {t}) /\ \A y \in S \ {t} : Amount[y] \in Nat
      BY <1>1, FS_Subset, Zenon
    <2>4. Total(S \ {t}) \in Nat
      BY <2>3, SumOfNaturals DEF Total
    <2> QED BY <1>1, <2>2, <2>4
  <1> QED BY <1>2, <1>3, <1>4

\* A transaction that takes the status of its stage.
LEMMA SettledSets ==
  ASSUME Typed, NEW t \in Transactions, request[t] # Idle, NEW a \in Accounts,
         status' = [status EXCEPT ![t] = request[t].stage]
  PROVE  LET stage == request[t].stage
             done == stage \in {"CREATED", "APPROVED"}
         IN
         /\ Holding(a)' = IF a # From[t] \/ stage = "CREATED" THEN Holding(a)
                          ELSE IF stage = "PENDING" THEN Holding(a) \cup {t} ELSE Holding(a) \ {t}
         /\ Brought(a)' = IF a = To[t] /\ done THEN Brought(a) \cup {t} ELSE Brought(a)
         /\ Taken(a)' = IF a = From[t] /\ done THEN Taken(a) \cup {t} ELSE Taken(a)
         /\ t \notin Brought(a) /\ t \notin Taken(a)
         /\ a = From[t] => (t \in Holding(a) <=> stage \in {"APPROVED", "CANCELED"})
  <1> DEFINE stage == request[t].stage
             done == stage \in {"CREATED", "APPROVED"}
  <1>1. stage \in StagesOf(t) /\ stage \in Stages
    BY RequestIs
  <1>2. IF stage \in {"APPROVED", "CANCELED"} THEN status[t] = "PENDING" ELSE status[t] = "new"
    BY <1>1 DEF StagesOf, Stages
  <1>3. status'[t] = stage /\ \A u \in Transactions \ {t} : status'[u] = status[u]
    BY DEF Typed
  <1> HIDE DEF stage
  <1>4. Holding(a)' = IF a # From[t] \/ stage = "CREATED" THEN Holding(a)
                      ELSE IF stage = "PENDING" THEN Holding(a) \cup {t} ELSE Holding(a) \ {t}
    BY <1>1, <1>2, <1>3, Zenon DEF Holding, Stages
  <1>5. Brought(a)' = IF a = To[t] /\ done THEN Brought(a) \cup {t} ELSE Brought(a)
    BY <1>1, <1>2, <1>3, Zenon DEF Brought, Settled, Stages
  <1>6. Taken(a)' = IF a = From[t] /\ done THEN Taken(a) \cup {t} ELSE Taken(a)
    BY <1>1, <1>2, <1>3, Zenon DEF Taken, Settled, Stages
  <1>7. t \notin Brought(a) /\ t \notin Taken(a)
    BY <1>2 DEF Brought, Taken, Settled
  <1>8. a = From[t] => (t \in Holding(a) <=> stage \in {"APPROVED", "CANCELED"})
    BY <1>2 DEF Holding
  <1> QED BY <1>4, <1>5, <1>6, <1>7, <1>8, Zenon DEF stage

\* What the status of its stage adds to, or takes from, the totals of an account.
LEMMA SettledTotals ==
  ASSUME Typed, NEW t \in Transactions, request[t] # Idle, NEW a \in Accounts,
         status' = [status EXCEPT ![t] = request[t].stage]
  PROVE  LET stage == request[t].stage
             done == stage \in {"CREATED", "APPROVED"}
             A == Amount[t]
         IN
         /\ Total(Holding(a)') = Total(Holding(a)) + (IF a # From[t] \/ stage = "CREATED" THEN 0
                                                      ELSE IF stage = "PENDING" THEN A ELSE -A)
         /\ Total(Brought(a)') = Total(Brought(a)) + (IF a = To[t] /\ done THEN A ELSE 0)
         /\ Total(Taken(a)') = Total(Taken(a)) + (IF a = From[t] /\ done THEN A ELSE 0)
         /\ Total(Holding(a)) \in Nat /\ Total(Brought(a)) \in Nat /\ Total(Taken(a)) \in Nat
  <1> DEFINE stage == request[t].stage
             done == stage \in {"CREATED", "APPROVED"}
             A == Amount[t]
             h == Holding(a)
             b == Brought(a)
             k == Taken(a)
             h2 == Holding(a)'
             b2 == Brought(a)'
             k2 == Taken(a)'
  <1>1. /\ h2 = IF a # From[t] \/ stage = "CREATED" THEN h
                ELSE IF stage = "PENDING" THEN h \cup {t} ELSE h \ {t}
        /\ b2 = IF a = To[t] /\ done THEN b \cup {t} ELSE b
        /\ k2 = IF a = From[t] /\ done THEN k \cup {t} ELSE k
        /\ t \notin b /\ t \notin k
        /\ a = From[t] => (t \in h <=> stage \in {"APPROVED", "CANCELED"})
    BY SettledSets, Zenon
  <1>2. h \in SUBSET Transactions /\ b \in SUBSET Transactions /\ k \in SUBSET Transactions
    BY DEF Holding, Brought, Taken, Settled
  <1>3. A \in Nat /\ stage \in Stages
    BY RequestIs
  <1> HIDE DEF h, b, k, h2, b2, k2
  <1>4. Total(h) \in Nat /\ Total(b) \in Nat /\ Total(k) \in Nat
    BY <1>2, TotalIs, Zenon
  <1>5. Total(b2) = Total(b) + (IF a = To[t] /\ done THEN A ELSE 0)
    <2>1. Total(b \cup {t}) = Total(b) + A
      BY <1>1, <1>2, TotalIs, Zenon
    <2> QED BY <1>1, <1>4, <2>1
  <1>6. Total(k2) = Total(k) + (IF a = From[t] /\ done THEN A ELSE 0)
    <2>1. Total(k \cup {t}) = Total(k) + A
      BY <1>1, <1>2, TotalIs, Zenon
    <2> QED BY <1>1, <1>4, <2>1
  <1>7. Total(h2) = Total(h) + (IF a # From[t] \/ stage = "CREATED" THEN 0
                                ELSE IF stage = "PENDING" THEN A ELSE -A)
    <2>1. CASE a # From[t] \/ stage = "CREATED"
      BY <1>1, <1>4, <2>1
    <2>2. CASE a = From[t] /\ stage = "PENDING"
      <3>1. t \notin h
        BY <1>1, <2>2, Zenon
      <3>2. Total(h \cup {t}) = Total(h) + A
        BY <1>2, <3>1, TotalIs, Zenon
      <3> QED BY <1>1, <1>4, <2>2, <3>2, Zenon
    <2>3. CASE a = From[t] /\ stage \in {"APPROVED", "CANCELED"}
      <3>1. t \in h
        BY <1>1, <2>3, Zenon
      <3>2. Total(h \ {t}) = Total(h) - A
        BY <1>2, <3>1, TotalIs, Zenon
      <3> QED BY <1>1, <1>3, <1>4, <2>3, <3>2, Zenon
    <2> QED BY <1>3, <2>1, <2>2, <2>3, Zenon DEF Stages
  <1> QED BY <1>4, <1>5, <1>6, <1>7, Zenon DEF h, b, k, h2, b2, k2

\* A request that is refused settles nothing.
LEMMA RefusedSets ==
  ASSUME Typed, NEW t \in Transactions, NEW a \in Accounts,
         status' = [status EXCEPT ![t] = IF status[t] = "new" THEN "rejected" ELSE status[t]]
  PROVE  Holding(a)' = Holding(a) /\ Brought(a)' = Brought(a) /\ Taken(a)' = Taken(a)
  <1>1. \A u \in Transactions : status'[u] = status[u] \/ (status[u] = "new" /\ status'[u] = "rejected")
    BY DEF Typed
  <1> QED BY <1>1 DEF Holding, Brought, Taken, Settled

-----------------------------------------------------------------------------
(* What a step does to an account *)

Sound == \A a \in Accounts : Solvent(a, bal[Default(a)])

\* The holds of an account, and its worth.
Backed(a) == bal[Default(a)].OnHold = Total(Holding(a))
Reflected(a) == Worth(bal[Default(a)]) = Funds[a] + Total(Brought(a)) - Total(Taken(a))

\* No pending transaction credits an account with overdraft.
PlainDestinations == \A t \in Pending : To[t] \notin Overdrafted

\* What no step breaks.
Kept(a) ==
    /\ Solvent(a, bal'[Default(a)])
    /\ Newer(bal[Default(a)], bal'[Default(a)])
    /\ WithinLimit(a, bal[Default(a)], bal'[Default(a)])
    /\ Backed(a) => Backed(a)'
    /\ PlainDestinations /\ Reflected(a) => Reflected(a)'

\* An account that a step does not concern.
LEMMA NothingMoves ==
  ASSUME Typed, Sound, NEW a \in Accounts, bal'[Default(a)] = bal[Default(a)],
         Holding(a)' = Holding(a), Brought(a)' = Brought(a), Taken(a)' = Taken(a)
  PROVE  Kept(a)
  <1> DEFINE b == bal[Default(a)]
  <1>1. b \in Records
    BY BalancesAre, Zenon DEF Typed
  <1>2. b.OverdraftUsed \in Nat /\ b.Version \in Nat
    BY <1>1, Zenon DEF Records
  <1>3. Solvent(a, b) /\ bal'[Default(a)] = b
    BY DEF Sound
  <1>4. Backed(a)' <=> Backed(a)
    BY Zenon DEF Backed, Total
  <1>5. Reflected(a)' <=> Reflected(a)
    BY Zenon DEF Reflected, Worth, Total
  <1> HIDE DEF b
  <1>6. Newer(b, b) /\ WithinLimit(a, b, b)
    BY <1>2 DEF Newer, WithinLimit
  <1> QED BY <1>3, <1>4, <1>5, <1>6, Zenon DEF Kept, b

\* A request, applied or refused, breaks nothing at any account.
LEMMA AccountKept ==
  ASSUME Typed, Sound, NEW t \in Transactions, ProcessBalanceAtomicOperation(t), NEW a \in Accounts
  PROVE  Kept(a)
  <1> DEFINE out == Batch(EnrichOverdraftOperations(t))
             stage == request[t].stage
             A == Amount[t]
             b == bal[Default(a)]
             c == bal'[Default(a)]
             h == Total(Holding(a))
             i == Total(Brought(a))
             k == Total(Taken(a))
             done == stage \in {"CREATED", "APPROVED"}
  <1>1. request[t] # Idle
        /\ \/ /\ out.refused /\ bal' = bal
              /\ status' = [status EXCEPT ![t] = IF status[t] = "new" THEN "rejected" ELSE status[t]]
           \/ /\ ~out.refused /\ bal' = out.bal
              /\ status' = [status EXCEPT ![t] = request[t].stage]
    BY ProcessIs, Zenon
  <1>2. CASE out.refused
    <2>1. bal'[Default(a)] = bal[Default(a)]
          /\ Holding(a)' = Holding(a) /\ Brought(a)' = Brought(a) /\ Taken(a)' = Taken(a)
      BY <1>1, <1>2, RefusedSets, Zenon
    <2> QED BY <2>1, NothingMoves, Zenon
  <1>3. CASE ~out.refused
    <2>1. bal' = out.bal /\ status' = [status EXCEPT ![t] = request[t].stage]
      BY <1>1, <1>3, Zenon
    <2>2. /\ Total(Holding(a)') = h + (IF a # From[t] \/ stage = "CREATED" THEN 0
                                      ELSE IF stage = "PENDING" THEN A ELSE -A)
          /\ Total(Brought(a)') = i + (IF a = To[t] /\ done THEN A ELSE 0)
          /\ Total(Taken(a)') = k + (IF a = From[t] /\ done THEN A ELSE 0)
          /\ h \in Nat /\ i \in Nat /\ k \in Nat
      BY <1>1, <2>1, SettledTotals, Zenon
    <2>3. /\ A \in Nat /\ stage \in Stages /\ From[t] \in Accounts /\ To[t] \in Accounts /\ From[t] # To[t]
          /\ Funds[a] \in Int
      BY <1>1, RequestIs, TransfersAssumption
    <2>4. b \in Records
      BY BalancesAre DEF Typed
    <2>5. b.OnHold \in Int /\ Worth(b) \in Int
      BY <2>4 DEF Records, Worth
    <2>6. Solvent(a, b)
      BY DEF Sound
    <2>7. CASE a = From[t]
      <3>1. /\ Solvent(a, c) /\ Newer(b, c) /\ WithinLimit(a, b, c)
            /\ c.OnHold = b.OnHold + (IF stage = "PENDING" THEN A ELSE IF stage = "CREATED" THEN 0 ELSE -A)
            /\ Worth(c) = Worth(b) - (IF done THEN A ELSE 0)
        BY <1>1, <1>3, <2>1, <2>6, <2>7, SourceEffect, Zenon
      <3> HIDE DEF b, c, h, i, k, A, stage
      <3>2. b.OnHold = h => c.OnHold = Total(Holding(a)')
        BY <2>2, <2>3, <2>5, <2>7, <3>1, Zenon
      <3>3. Worth(b) = Funds[a] + i - k => Worth(c) = Funds[a] + Total(Brought(a)') - Total(Taken(a)')
        BY <2>2, <2>3, <2>5, <2>7, <3>1
      <3>4. Backed(a) => Backed(a)'
        BY <3>2, Zenon DEF Backed, b, c, h, Total
      <3>5. Reflected(a) => Reflected(a)'
        BY <3>3, Zenon DEF Reflected, b, c, i, k, Total, Worth
      <3> QED BY <3>1, <3>4, <3>5, Zenon DEF Kept, b, c
    <2>8. CASE a = To[t]
      <3>1. /\ Solvent(a, c) /\ Newer(b, c) /\ WithinLimit(a, b, c) /\ c.OnHold = b.OnHold
            /\ (t \in Pending => To[t] \notin Overdrafted) => Worth(c) = Worth(b) + (IF done THEN A ELSE 0)
        BY <1>1, <1>3, <2>1, <2>6, <2>8, DestinationEffect, Zenon
      <3> HIDE DEF b, c, h, i, k, A, stage
      <3>2. b.OnHold = h => c.OnHold = Total(Holding(a)')
        BY <2>2, <2>3, <2>5, <2>8, <3>1
      <3>3. (t \in Pending => To[t] \notin Overdrafted) /\ Worth(b) = Funds[a] + i - k
            => Worth(c) = Funds[a] + Total(Brought(a)') - Total(Taken(a)')
        <4> SUFFICES ASSUME t \in Pending => To[t] \notin Overdrafted, Worth(b) = Funds[a] + i - k
                     PROVE  Worth(c) = Funds[a] + Total(Brought(a)') - Total(Taken(a)')
          OBVIOUS
        <4>1. Worth(c) = Worth(b) + (IF done THEN A ELSE 0)
          BY <3>1, Zenon
        <4>2. Total(Brought(a)') = i + (IF done THEN A ELSE 0) /\ Total(Taken(a)') = k
          BY <2>2, <2>3, <2>8
        <4> QED BY <2>2, <2>3, <2>5, <4>1, <4>2
      <3>4. Backed(a) => Backed(a)'
        BY <3>2, Zenon DEF Backed, b, c, h, Total
      <3>5. PlainDestinations /\ Reflected(a) => Reflected(a)'
        BY <3>3, Zenon DEF Reflected, b, c, i, k, Total, Worth, PlainDestinations
      <3> QED BY <3>1, <3>4, <3>5, Zenon DEF Kept, b, c
    <2>9. CASE a # From[t] /\ a # To[t]
      <3>1. c = b
        BY <1>1, <1>3, <2>1, <2>9, ScriptEffect
      <3>2. Holding(a)' = Holding(a) /\ Brought(a)' = Brought(a) /\ Taken(a)' = Taken(a)
        <4>1. /\ Holding(a)' = IF a # From[t] \/ stage = "CREATED" THEN Holding(a)
                               ELSE IF stage = "PENDING" THEN Holding(a) \cup {t} ELSE Holding(a) \ {t}
              /\ Brought(a)' = IF a = To[t] /\ done THEN Brought(a) \cup {t} ELSE Brought(a)
              /\ Taken(a)' = IF a = From[t] /\ done THEN Taken(a) \cup {t} ELSE Taken(a)
          BY <1>1, <2>1, SettledSets, Zenon
        <4> QED BY <2>9, <4>1, Zenon
      <3> QED BY <3>1, <3>2, NothingMoves, Zenon
    <2> QED BY <2>7, <2>8, <2>9, Zenon
  <1> QED BY <1>2, <1>3, Zenon

\* No step does.
LEMMA StepKeeps ==
  ASSUME Typed, Sound, [Next]_vars
  PROVE  \A a \in Accounts : Kept(a)
  <1>1. ASSUME bal' = bal, status' = status, NEW a \in Accounts PROVE Kept(a)
    <2>1. Holding(a)' = Holding(a) /\ Brought(a)' = Brought(a) /\ Taken(a)' = Taken(a)
      BY <1>1, Zenon DEF Holding, Brought, Taken, Settled
    <2>2. bal'[Default(a)] = bal[Default(a)]
      BY <1>1, Zenon
    <2> QED BY <2>1, <2>2, NothingMoves, Zenon
  <1>2. \/ \E t \in Transactions : ProcessBalanceAtomicOperation(t)
        \/ bal' = bal /\ status' = status
    BY Zenon DEF Next, vars, GetBalances, Flush, Update
  <1> QED BY <1>1, <1>2, AccountKept, Zenon

-----------------------------------------------------------------------------
(* The theorems about default balances *)

\* The inductive invariant: with the types, that nobody but an external
\* account is negative or, without a companion, uses overdraft, and that the
\* holds are those of the pending transactions.
Inv == Typed /\ Sound /\ \A a \in Accounts : Backed(a)

\* At first nothing is held, overdrawn or settled.
LEMMA NothingAtFirst ==
  ASSUME Init, NEW a \in Accounts
  PROVE  /\ bal[Default(a)].Available = Funds[a] /\ bal[Default(a)].OnHold = 0
         /\ bal[Default(a)].OverdraftUsed = 0
         /\ Total(Holding(a)) = 0 /\ Total(Brought(a)) = 0 /\ Total(Taken(a)) = 0
  <1>1. bal[Default(a)] = [Available |-> Funds[a], OnHold |-> 0, OverdraftUsed |-> 0, Version |-> 0]
    BY BalancesAre, Zenon DEF Init
  <1>2. \A t \in Transactions : status[t] = "new"
    BY DEF Init
  <1>3. Holding(a) = {} /\ Brought(a) = {} /\ Taken(a) = {}
    BY <1>2 DEF Holding, Brought, Taken, Settled
  <1>4. Total({}) = 0
    BY SumOfNone, Zenon DEF Total
  <1>5. bal[Default(a)].Available = Funds[a] /\ bal[Default(a)].OnHold = 0 /\ bal[Default(a)].OverdraftUsed = 0
    BY <1>1
  <1> QED BY <1>3, <1>4, <1>5, Zenon

\* The invariant holds at first.
LEMMA InvAtFirst == Init => Inv
  <1> SUFFICES ASSUME Init PROVE Inv
    OBVIOUS
  <1>1. ASSUME NEW a \in Accounts PROVE Solvent(a, bal[Default(a)]) /\ Backed(a)
    <2>1. a \notin External => Funds[a] >= 0
      BY TransfersAssumption
    <2> QED BY <2>1, NothingAtFirst, Zenon DEF Solvent, Backed
  <1> QED BY <1>1, TypedAtFirst, Zenon DEF Inv, Sound

\* Every step keeps the invariant.
LEMMA InvKept == Inv /\ [Next]_vars => Inv'
  <1> SUFFICES ASSUME Inv, [Next]_vars PROVE Inv'
    OBVIOUS
  <1>1. Typed /\ Sound /\ Typed'
    BY TypedKept DEF Inv
  <1>2. ASSUME NEW a \in Accounts PROVE Solvent(a, bal[Default(a)])' /\ Backed(a)'
    <2>1. Kept(a)
      BY <1>1, StepKeeps, Zenon
    <2>2. Backed(a)
      BY DEF Inv
    <2> QED BY <2>1, <2>2, Zenon DEF Kept, Solvent
  <1> QED BY <1>1, <1>2, Zenon DEF Inv, Sound

\* The invariant always holds.
LEMMA Invariant == Spec => []Inv
  BY InvAtFirst, InvKept, PTL DEF Spec

\* Property HoldsAreBacked for any accounts, transactions and settings: what a
\* balance has on hold is the sum of its account's pending transactions
\* whatever the requests read before the script ran, whether route validation
\* was on at the hold, at its commit or at its cancel, and only an external
\* account is negative.
THEOREM HoldsBacked == Spec => []HoldsAreBacked
  <1>1. ASSUME Inv PROVE HoldsAreBacked
    <2>1. ASSUME NEW a \in Accounts
          PROVE  /\ a \notin External => bal[Default(a)].Available >= 0
                 /\ bal[Default(a)].OnHold = Total({t \in Transactions : status[t] = "PENDING" /\ From[t] = a})
      BY <1>1, Zenon DEF Inv, Sound, Solvent, Backed, Holding
    <2> QED BY <2>1, Zenon DEF HoldsAreBacked
  <1> QED BY <1>1, Invariant, PTL

\* Property WithinOverdraftLimit for any accounts, transactions and settings:
\* the script accrues overdraft only while the cached settings allow it and up
\* to their limit, although the request split its amount by the balance and
\* the settings it had read earlier.
THEOREM OverdraftStaysWithinLimit == Spec => WithinOverdraftLimit
  <1> DEFINE Grows(a) == bal'[Default(a)].OverdraftUsed > bal[Default(a)].OverdraftUsed
                         => Allows(a) /\ bal'[Default(a)].OverdraftUsed <= settings[a].OverdraftLimit
  <1>1. Inv /\ [Next]_vars => [\A a \in Overdrafted : Grows(a)]_vars
    <2> SUFFICES ASSUME Inv, [Next]_vars, NEW a \in Overdrafted PROVE Grows(a)
      OBVIOUS
    <2>1. a \in Accounts
      BY BalancesAre
    <2>2. Typed /\ Sound
      BY DEF Inv
    <2>3. Kept(a)
      BY <2>1, <2>2, StepKeeps, Zenon
    <2> QED BY <2>3, Zenon DEF Kept, WithinLimit
  <1> QED BY <1>1, Invariant, PTL DEF Spec, WithinOverdraftLimit

\* Property AccountsReflectTransactions for any accounts, transactions and
\* settings, provided no pending transaction credits an account with
\* overdraft: a credit of a hold repays there although it gives nothing, which
\* the run pending_destination shows.  Overdraft, repayment, holds, commits,
\* cancels and refused batches neither create nor lose money.
THEOREM AccountsReflect == PlainDestinations => (Spec => []AccountsReflectTransactions)
  <1> SUFFICES ASSUME PlainDestinations PROVE Spec => []AccountsReflectTransactions
    OBVIOUS
  <1> DEFINE Books == \A a \in Accounts : Reflected(a)
  <1>1. Init => Books
    <2> SUFFICES ASSUME Init, NEW a \in Accounts PROVE Reflected(a)
      OBVIOUS
    <2>1. Funds[a] \in Int
      BY TransfersAssumption
    <2> QED BY <2>1, NothingAtFirst, Zenon DEF Reflected, Worth
  <1>2. Inv /\ Books /\ [Next]_vars => Books'
    <2> SUFFICES ASSUME Inv, Books, [Next]_vars, NEW a \in Accounts PROVE Reflected(a)'
      BY Zenon
    <2>1. Typed /\ Sound
      BY DEF Inv
    <2>2. Kept(a)
      BY <2>1, StepKeeps, Zenon
    <2>3. Reflected(a)
      OBVIOUS
    <2> QED BY <2>2, <2>3, Zenon DEF Kept
  <1>3. Books => AccountsReflectTransactions
    <2> SUFFICES ASSUME Books, NEW a \in Accounts
                 PROVE LET b == bal[Default(a)]
                           settled == {t \in Transactions : status[t] \in {"CREATED", "APPROVED"}}
                       IN  b.Available + b.OnHold - b.OverdraftUsed
                             = Funds[a] + Total({t \in settled : To[t] = a}) - Total({t \in settled : From[t] = a})
      BY Zenon DEF AccountsReflectTransactions
    <2>1. Reflected(a)
      BY Zenon
    <2> QED BY <2>1, Zenon DEF Reflected, Worth, Brought, Taken, Settled
  <1> QED BY <1>1, <1>2, <1>3, Invariant, PTL DEF Spec

-----------------------------------------------------------------------------
(* The companion balance *)

\* What the companion operation of an operation leaves on the companion.
LEMMA CompanionEffect ==
  ASSUME Typed, NEW a \in Overdrafted, NEW o \in Ops, o.b = Default(a), o.allowed => o.b[1] \in Overdrafted,
         HasCompanion(o), NEW b \in Records, b.Available >= 0, ~Refused(CompanionOp(o), b),
         NEW c, c = Applied(CompanionOp(o), b)
  PROVE  /\ c.Available >= 0
         /\ DebitSplit(o) > 0 /\ (~o.pending \/ o.stage = "PENDING") => c.Available = b.Available + DebitSplit(o)
         /\ DebitSplit(o) = 0 => c.Available >= b.Available - CreditSplit(o)
  <1> DEFINE k == CompanionOp(o)
             m == IF DebitSplit(o) > 0 THEN DebitSplit(o) ELSE CreditSplit(o)
  <1>1. /\ k \in Ops /\ k.b = Companion(o.b[1])
        /\ k.op = (IF DebitSplit(o) > 0 THEN "DEBIT" ELSE "CREDIT")
        /\ k.amount = m /\ k.stage = o.stage /\ k.pending = o.pending
    BY CompanionIs, Zenon
  <1>2. o.b[1] = a /\ k.b[2] = "overdraft" /\ k.b[1] = a
    BY <1>1, BalancesAre
  <1>3. a \notin External
    BY TransfersAssumption, Zenon
  <1>4. DebitSplit(o) \in Nat /\ CreditSplit(o) \in Nat
    BY SplitsAre, Zenon
  <1> HIDE DEF k
  <1>5. ~Short(k, b)
    BY <1>2, Zenon DEF Refused, MayOverdraw, k
  <1>6. Result(k, b) \in Int /\ Result(k, b) = b.Available - Given(k)
    BY <1>1, <1>2, ResultIs, Zenon
  <1>7. Result(k, b) >= 0
    BY <1>2, <1>3, <1>5, <1>6 DEF Short
  <1>8. c.Available = Result(k, b)
    BY <1>1, <1>5, AppliedFields, Zenon DEF k
  <1>9. b.Available \in Int
    BY Zenon DEF Records
  <1>10. DebitSplit(o) > 0 /\ (~o.pending \/ o.stage = "PENDING") => Given(k) = -DebitSplit(o)
    <2> SUFFICES ASSUME DebitSplit(o) > 0, ~o.pending \/ o.stage = "PENDING" PROVE Given(k) = -DebitSplit(o)
      BY Zenon
    <2>1. k.op = "DEBIT" /\ k.amount = DebitSplit(o)
      BY <1>1, Zenon
    <2>2. Takes(k)
      BY <1>1, <1>2, <2>1, Zenon DEF Takes
    <2>3. ~Gives(k)
      BY <2>1, Zenon DEF Gives
    <2> QED BY <1>4, <2>1, <2>2, <2>3 DEF Given
  <1>11. DebitSplit(o) = 0 => Given(k) <= CreditSplit(o)
    <2> SUFFICES ASSUME DebitSplit(o) = 0 PROVE Given(k) <= CreditSplit(o)
      BY Zenon
    <2>1. k.amount = CreditSplit(o)
      BY <1>1
    <2> QED BY <1>4, <2>1 DEF Given
  <1>12. Given(k) \in Int
    BY <1>1, ResultIs, Zenon
  <1> QED BY <1>4, <1>6, <1>7, <1>8, <1>9, <1>10, <1>11, <1>12

\* An operation that repays the overdraft of a balance that has not changed
\* since it was read, or has changed by its own batch only, splits the same
\* amount.
LEMMA SameRepayment ==
  ASSUME NEW a \in Overdrafted, NEW o \in Ops, o.b = Default(a), NEW b \in Records,
         Repays(o, b), b.OverdraftUsed = o.read.OverdraftUsed
  PROVE  CreditSplit(o) = Repayment(o, b)
  <1>1. Repayment(o, b) = Least(o.amount, b.OverdraftUsed, o.overdraft)
    BY RepaymentBounds, Zenon
  <1>2. o.b[1] \in Overdrafted
    BY BalancesAre
  <1>3. o.op = "CREDIT" \/ (o.op = "RELEASE" /\ o.overdraft > 0)
    BY Zenon DEF Repays
  <1>4. CASE o.read.OverdraftUsed > 0
    <2>1. CreditSplit(o) = Minimum({o.amount, o.read.OverdraftUsed} \cup (IF o.overdraft > 0 THEN {o.overdraft} ELSE {}))
      BY <1>2, <1>3, <1>4, Zenon DEF CreditSplit
    <2>2. Repayment(o, b) = Least(o.amount, o.read.OverdraftUsed, o.overdraft)
      BY <1>1, Zenon
    <2> QED BY <2>1, <2>2 DEF Least
  <1>5. CASE ~(o.read.OverdraftUsed > 0)
    <2>1. CreditSplit(o) = 0
      BY <1>5, Zenon DEF CreditSplit
    <2>2. o.read.OverdraftUsed \in Nat
      BY DEF Ops, Records
    <2>3. b.OverdraftUsed = 0
      BY <1>5, <2>2
    <2>4. Repayment(o, b) \in Nat /\ Repayment(o, b) <= b.OverdraftUsed
      BY RepaymentBounds, Zenon
    <2> QED BY <2>1, <2>3, <2>4
  <1> QED BY <1>4, <1>5, Zenon

\* A debit that overdraws a balance splits off just the shortfall.
LEMMA SameShortfall ==
  ASSUME NEW a \in Overdrafted, NEW o \in Ops, o.b = Default(a), NEW b \in Records, o.allowed,
         b = o.read, Short(o, b), Given(o) = -o.amount, Repayment(o, b) = 0,
         o.op = "DEBIT" \/ (o.op = "ON_HOLD" /\ o.stage = "PENDING" /\ ~o.routes)
  PROVE  DebitSplit(o) = -Result(o, b) /\ DebitSplit(o) > 0
  <1>1. o.b[2] = "default"
    BY BalancesAre
  <1>2. Result(o, b) = b.Available + Given(o) - Repayment(o, b)
    BY <1>1, ResultIs, Zenon
  <1>3. b.Available \in Int /\ o.amount \in Nat
    BY DEF Records, Ops
  <1>4. Result(o, b) = b.Available - o.amount
    BY <1>2, <1>3
  <1>5. Result(o, b) < 0
    BY Zenon DEF Short
  <1>6. o.amount > o.read.Available
    BY <1>3, <1>4, <1>5
  <1>7. DebitSplit(o) = o.amount - o.read.Available
    BY <1>6, Zenon DEF DebitSplit
  <1> QED BY <1>3, <1>4, <1>5, <1>7

\* A request has read balances that may have changed since, and no account
\* allows overdraft that did not when the request read it.
ReadEarlier(t) ==
    request[t] # Idle =>
      /\ Newer(request[t].from, bal[Default(From[t])])
      /\ Newer(request[t].to, bal[Default(To[t])])
      /\ \A a \in {From[t], To[t]} : Allows(a) => a \in request[t].allows

\* A direct debit and a hold.
LEMMA DebitUsage ==
  ASSUME Typed, Sound, NEW t \in Transactions, request[t] # Idle, ReadEarlier(t), From[t] \in Overdrafted,
         request[t].stage \in {"CREATED", "PENDING"},
         NEW b, b = bal[Default(From[t])], ~Refused(First(t), b), NEW c, c = Applied(First(t), b)
  PROVE  /\ CreditSplit(First(t)) = 0
         /\ \/ DebitSplit(First(t)) > 0 /\ c.OverdraftUsed = b.OverdraftUsed + DebitSplit(First(t))
            \/ c.OverdraftUsed = b.OverdraftUsed
  <1> DEFINE o == First(t)
             a == From[t]
  <1>1. a \in Accounts /\ Amount[t] \in Nat
    BY RequestIs, Zenon
  <1>2. b \in Records
    BY <1>1, BalancesAre, Zenon DEF Typed
  <1>3. b.OverdraftUsed \in Nat
    BY <1>2, Zenon DEF Records
  <1>4. o \in Ops /\ o.b = Default(a)
    BY RequestOps, Zenon
  <1>5. /\ o.op = FirstName(t) /\ o.amount = Amount[t] /\ o.read = request[t].from
        /\ (o.allowed <=> a \in request[t].allows) /\ o.stage = request[t].stage
        /\ (o.routes <=> request[t].routes)
    BY FirstIs, Zenon
  <1>6. o.op = "DEBIT" \/ (o.op = "ON_HOLD" /\ o.stage = "PENDING" /\ ~o.routes)
    BY <1>5, Zenon DEF FirstName
  <1>7. Given(o) = -o.amount /\ ~Repays(o, b)
    <2>1. (request[t].stage = "CREATED" => Given(o) = -Amount[t]) /\ (request[t].stage = "PENDING" => Given(o) = -Amount[t])
          /\ \A r \in Records : Repays(o, r) => request[t].stage = "CANCELED"
      BY FirstMoves, Zenon
    <2> QED BY <1>2, <1>5, <2>1, Zenon
  <1> HIDE DEF o
  <1>8. CreditSplit(o) = 0
    BY <1>6, Zenon DEF CreditSplit
  <1>9. Repayment(o, b) = 0
    BY <1>2, <1>4, <1>7, RepaymentBounds, Zenon
  <1>10. c.OverdraftUsed = b.OverdraftUsed - (IF Short(o, b) THEN Result(o, b) ELSE Repayment(o, b))
    BY <1>2, <1>4, AppliedFields, Zenon DEF o
  <1>11. CASE ~Short(o, b)
    BY <1>3, <1>8, <1>9, <1>10, <1>11 DEF o
  <1>12. CASE Short(o, b)
    <2>1. o.b[1] = a
      BY <1>1, <1>4, BalancesAre, Zenon
    <2>2. MayOverdraw(o) /\ ~Stale(o, b)
      BY <1>12 DEF Refused, o
    <2>3. Allows(a) /\ b.Version = o.read.Version
      BY <2>1, <2>2, Zenon DEF MayOverdraw, Stale
    <2>4. Newer(o.read, b) /\ (Allows(a) => a \in request[t].allows)
      BY <1>5, Zenon DEF ReadEarlier
    <2>5. o.read = b /\ o.allowed
      BY <1>5, <2>3, <2>4, Zenon DEF Newer
    <2>6. DebitSplit(o) = -Result(o, b) /\ DebitSplit(o) > 0
      BY <1>2, <1>4, <1>6, <1>7, <1>9, <1>12, <2>5, SameShortfall, Zenon
    <2>7. Result(o, b) \in Int
      BY <1>2, <1>4, ResultIs, Zenon
    <2>8. c.OverdraftUsed = b.OverdraftUsed + DebitSplit(o)
      BY <1>3, <1>10, <1>12, <2>6, <2>7, Zenon
    <2> QED BY <1>8, <2>6, <2>8, Zenon DEF o
  <1> QED BY <1>11, <1>12, Zenon

\* An operation that gives or leaves Available alone is not short.
LEMMA GivesUsage ==
  ASSUME Typed, NEW a \in Accounts, a \notin External, NEW o \in Ops, o.b = Default(a), NEW b \in Records,
         b.Available >= 0, Given(o) >= Repayment(o, b)
  PROVE  /\ ~Short(o, b)
         /\ Applied(o, b).OverdraftUsed = b.OverdraftUsed - Repayment(o, b)
         /\ Applied(o, b).Available >= 0
  <1>1. o.b[2] = "default"
    BY BalancesAre, Zenon
  <1>2. Result(o, b) = b.Available + Given(o) - Repayment(o, b) /\ Given(o) \in Int /\ Repayment(o, b) \in Nat
    BY <1>1, ResultIs, RepaymentBounds, Zenon
  <1>3. b.Available \in Int
    BY DEF Records
  <1>4. Result(o, b) >= 0 /\ Result(o, b) \in Int
    BY <1>2, <1>3
  <1>5. ~Short(o, b)
    BY <1>4 DEF Short
  <1> QED BY <1>4, <1>5, AppliedFields, Zenon

\* A commit, which is not enriched, leaves the overdraft of the source alone.
LEMMA CommitUsage ==
  ASSUME Typed, Sound, NEW t \in Transactions, request[t] # Idle, From[t] \in Overdrafted,
         request[t].stage = "APPROVED",
         NEW b, b = bal[Default(From[t])], NEW c, c = Applied(First(t), b)
  PROVE  c.OverdraftUsed = b.OverdraftUsed
  <1> DEFINE o == First(t)
             a == From[t]
  <1>1. a \in Accounts /\ a \notin External
    BY RequestIs, TransfersAssumption, Zenon
  <1>2. b \in Records /\ b.Available >= 0
    BY <1>1, BalancesAre, Zenon DEF Typed, Sound, Solvent
  <1>3. b.OverdraftUsed \in Nat
    BY <1>2, Zenon DEF Records
  <1>4. o \in Ops /\ o.b = Default(a)
    BY RequestOps, Zenon
  <1>5. Given(o) = 0 /\ ~Repays(o, b)
    BY <1>2, FirstMoves, Zenon
  <1> HIDE DEF o
  <1>6. Repayment(o, b) = 0
    BY <1>2, <1>4, <1>5, RepaymentBounds, Zenon
  <1>7. Applied(o, b).OverdraftUsed = b.OverdraftUsed - Repayment(o, b)
    BY <1>1, <1>2, <1>4, <1>5, <1>6, GivesUsage
  <1> QED BY <1>3, <1>6, <1>7 DEF o

\* A cancel in one operation repays what the request has split off.
LEMMA ReleaseUsage ==
  ASSUME Typed, Sound, NEW t \in Transactions, request[t] # Idle, ReadEarlier(t), From[t] \in Overdrafted,
         request[t].stage = "CANCELED", ~Double(t),
         NEW b, b = bal[Default(From[t])], ~Refused(First(t), b), NEW c, c = Applied(First(t), b)
  PROVE  /\ DebitSplit(First(t)) = 0
         /\ c.OverdraftUsed = b.OverdraftUsed - CreditSplit(First(t))
  <1> DEFINE o == First(t)
             a == From[t]
  <1>1. a \in Accounts /\ a \notin External /\ Amount[t] \in Nat /\ request[t].routes \in BOOLEAN
    BY RequestIs, TransfersAssumption, Zenon
  <1>2. b \in Records /\ b.Available >= 0
    BY <1>1, BalancesAre, Zenon DEF Typed, Sound, Solvent
  <1>3. o \in Ops /\ o.b = Default(a) /\ o.b[1] = a /\ o.b[2] = "default"
    BY <1>1, RequestOps, BalancesAre
  <1>4. /\ o.op = FirstName(t) /\ o.amount = Amount[t] /\ o.read = request[t].from
        /\ o.stage = "CANCELED" /\ (o.routes <=> request[t].routes)
    BY FirstIs, Zenon
  <1>5. ~request[t].routes
    BY Zenon DEF Double
  <1>6. o.op = "RELEASE" /\ ~o.routes
    BY <1>4, <1>5, Zenon DEF FirstName
  <1>7. Given(o) = Amount[t]
    BY FirstMoves, Zenon
  <1> HIDE DEF o
  <1>8. DebitSplit(o) = 0
    BY <1>6, Zenon DEF DebitSplit
  <1>9. Repayment(o, b) \in Nat /\ Repayment(o, b) <= o.amount /\ (~Repays(o, b) => Repayment(o, b) = 0)
    BY <1>2, <1>3, RepaymentBounds, Zenon
  <1>10. Applied(o, b).OverdraftUsed = b.OverdraftUsed - Repayment(o, b)
    BY <1>1, <1>2, <1>3, <1>4, <1>7, <1>9, GivesUsage, Zenon
  <1>11. CreditSplit(o) = Repayment(o, b)
    <2>1. CASE Repays(o, b)
      <3>1. ~Stale(o, b)
        BY <1>6, <2>1, Zenon DEF Refused, SameBatchCancelCredit, o
      <3>2. Newer(o.read, b)
        BY <1>4, Zenon DEF ReadEarlier
      <3>3. o.read = b
        BY <3>1, <3>2, Zenon DEF Newer, Stale
      <3> QED BY <1>2, <1>3, <2>1, <3>3, SameRepayment, Zenon
    <2>2. CASE ~Repays(o, b)
      <3>1. ~(o.overdraft > 0)
        BY <1>1, <1>3, <1>4, <1>6, <2>2, Zenon DEF Repays
      <3>2. CreditSplit(o) = 0
        BY <1>6, <3>1, Zenon DEF CreditSplit
      <3> QED BY <1>9, <2>2, <3>2, Zenon
    <2> QED BY <2>1, <2>2, Zenon
  <1> QED BY <1>8, <1>10, <1>11, Zenon DEF o

\* A cancel in two operations: the release makes the balance one version
\* newer, so the credit repays only what was split by the balance before it.
LEMMA CancelUsage ==
  ASSUME Typed, Sound, NEW t \in Transactions, request[t] # Idle, ReadEarlier(t), From[t] \in Overdrafted,
         request[t].stage = "CANCELED", Double(t),
         NEW b, b = bal[Default(From[t])], NEW d, d = Applied(First(t), b), ~Refused(Second(t), d),
         NEW c, c = Applied(Second(t), d)
  PROVE  /\ DebitSplit(Second(t)) = 0
         /\ c.OverdraftUsed = 0 \/ c.OverdraftUsed = b.OverdraftUsed - CreditSplit(Second(t))
  <1> DEFINE o == First(t)
             p == Second(t)
             a == From[t]
  <1>1. a \in Accounts /\ a \notin External /\ Amount[t] \in Nat /\ Amount[t] > 0
    BY RequestIs, TransfersAssumption, Zenon
  <1>2. b \in Records /\ b.Available >= 0
    BY <1>1, BalancesAre, Zenon DEF Typed, Sound, Solvent
  <1>3. b.OverdraftUsed \in Nat /\ b.Version \in Nat /\ b.OnHold \in Int
    BY <1>2, Zenon DEF Records
  <1>4. o \in Ops /\ o.b = Default(a) /\ p \in Ops /\ p.b = Default(a) /\ p.b[1] = a /\ p.b[2] = "default"
    BY <1>1, RequestOps, BalancesAre
  <1>5. p.op = "CREDIT" /\ p.amount = Amount[t] /\ p.read = request[t].from
    BY SecondIs, Zenon
  <1>6. Given(o) = 0 /\ Held(o) = -Amount[t] /\ ~Repays(o, b)
    BY <1>2, FirstMoves, Zenon
  <1>7. Given(p) = Amount[t]
    BY SecondMoves, Zenon
  <1> HIDE DEF o, p
  <1>8. Repayment(o, b) = 0
    BY <1>2, <1>4, <1>6, RepaymentBounds, Zenon
  <1>9. d.OverdraftUsed = b.OverdraftUsed /\ d.Available >= 0
    <2>1. d.OverdraftUsed = b.OverdraftUsed - Repayment(o, b) /\ d.Available >= 0
      BY <1>1, <1>2, <1>4, <1>6, <1>8, GivesUsage DEF o
    <2> QED BY <1>3, <1>8, <2>1
  <1>10. d \in Records /\ d.OnHold = b.OnHold + Held(o) /\ d.Version = (IF d = b THEN b.Version ELSE b.Version + 1)
    BY <1>2, <1>4, AppliedFields, Zenon DEF o
  <1>11. d.Version = b.Version + 1
    BY <1>1, <1>3, <1>6, <1>10
  <1>12. DebitSplit(p) = 0
    BY <1>5, Zenon DEF DebitSplit
  <1>13. Repayment(p, d) \in Nat /\ Repayment(p, d) <= p.amount /\ (~Repays(p, d) => Repayment(p, d) = 0)
    BY <1>4, <1>10, RepaymentBounds, Zenon
  <1>14. c.OverdraftUsed = d.OverdraftUsed - Repayment(p, d)
    BY <1>1, <1>4, <1>5, <1>7, <1>9, <1>10, <1>13, GivesUsage, Zenon DEF p
  <1>15. CASE Repays(p, d)
    <2>1. ~Stale(p, d) \/ SameBatchCancelCredit(p, d)
      BY <1>15, Zenon DEF Refused, p
    <2>2. d.Version = p.read.Version \/ d.Version = p.read.Version + 1
      BY <2>1, Zenon DEF Stale, SameBatchCancelCredit
    <2>3. Newer(p.read, b)
      BY <1>5, Zenon DEF ReadEarlier
    <2>4. p.read.Version \in Nat
      BY <1>4, Zenon DEF Ops, Records
    <2>5. p.read = b
      BY <1>3, <1>11, <2>2, <2>3, <2>4 DEF Newer
    <2>6. CreditSplit(p) = Repayment(p, d)
      BY <1>4, <1>9, <1>10, <1>15, <2>5, SameRepayment, Zenon
    <2> QED BY <1>9, <1>12, <1>14, <2>6, Zenon DEF p
  <1>16. CASE ~Repays(p, d)
    <2>1. d.OverdraftUsed = 0
      BY <1>1, <1>3, <1>4, <1>5, <1>9, <1>16 DEF Repays
    <2>2. c.OverdraftUsed = 0
      BY <1>13, <1>14, <1>16, <2>1
    <2> QED BY <1>12, <2>2, Zenon DEF p
  <1> QED BY <1>15, <1>16, Zenon

\* The second half of a hold leaves the overdraft alone.
LEMMA HoldUsage ==
  ASSUME Typed, Sound, NEW t \in Transactions, request[t] # Idle, From[t] \in Overdrafted,
         request[t].stage = "PENDING", Double(t),
         NEW b, b = bal[Default(From[t])], ~Refused(First(t), b), NEW d, d = Applied(First(t), b),
         NEW c, c = Applied(Second(t), d)
  PROVE  c.OverdraftUsed = d.OverdraftUsed
  <1> DEFINE p == Second(t)
             a == From[t]
  <1>1. a \in Accounts /\ a \notin External
    BY RequestIs, TransfersAssumption, Zenon
  <1>2. b \in Records /\ Solvent(a, b)
    BY <1>1, BalancesAre, Zenon DEF Typed, Sound
  <1>3. First(t) \in Ops /\ First(t).b = Default(a) /\ p \in Ops /\ p.b = Default(a)
    BY RequestOps, Zenon
  <1>4. d \in Records /\ Solvent(a, d)
    BY <1>1, <1>2, <1>3, OperationEffect, Zenon
  <1>5. d.Available >= 0 /\ d.OverdraftUsed \in Nat
    BY <1>1, <1>4, Zenon DEF Solvent, Records
  <1>6. Given(p) = 0 /\ ~Repays(p, d)
    BY <1>4, SecondMoves, Zenon
  <1> HIDE DEF p
  <1>7. Repayment(p, d) = 0
    BY <1>3, <1>4, <1>6, RepaymentBounds, Zenon
  <1>8. Applied(p, d).OverdraftUsed = d.OverdraftUsed - Repayment(p, d)
    BY <1>1, <1>3, <1>4, <1>5, <1>6, <1>7, GivesUsage
  <1> QED BY <1>5, <1>7, <1>8 DEF p

\* What a request did to the overdraft of its source, in terms of the split.
LEMMA SourceUsage ==
  ASSUME Typed, Sound, NEW t \in Transactions, request[t] # Idle, ReadEarlier(t), From[t] \in Overdrafted,
         NEW out, out = Batch(EnrichOverdraftOperations(t)), ~out.refused,
         NEW b, b = bal[Default(From[t])], NEW c, c = out.bal[Default(From[t])]
  PROVE  LET stage == request[t].stage
             o == Main(t)
         IN
         \/ stage = "APPROVED" /\ c.OverdraftUsed = b.OverdraftUsed
         \/ /\ stage \in {"CREATED", "PENDING"} /\ CreditSplit(o) = 0
            /\ \/ DebitSplit(o) > 0 /\ c.OverdraftUsed = b.OverdraftUsed + DebitSplit(o)
               \/ c.OverdraftUsed = b.OverdraftUsed
         \/ /\ stage = "CANCELED" /\ DebitSplit(o) = 0
            /\ c.OverdraftUsed = 0 \/ c.OverdraftUsed = b.OverdraftUsed - CreditSplit(o)
  <1> DEFINE stage == request[t].stage
             d == Applied(First(t), b)
  <1>1. /\ ~Refused(First(t), b)
        /\ ~Double(t) => c = d
        /\ Double(t) => ~Refused(Second(t), d) /\ c = Applied(Second(t), d)
    BY ScriptEffect, Zenon
  <1>2. stage \in Stages
    BY RequestIs, Zenon
  <1>3. CASE stage = "APPROVED"
    <2>1. ~Double(t)
      BY <1>3, Zenon DEF Double
    <2> QED BY <1>1, <1>3, <2>1, CommitUsage, Zenon
  <1>4. CASE stage \in {"CREATED", "PENDING"}
    <2>1. Main(t) = First(t)
      BY <1>4, Zenon DEF Main
    <2>2. /\ CreditSplit(First(t)) = 0
          /\ \/ DebitSplit(First(t)) > 0 /\ d.OverdraftUsed = b.OverdraftUsed + DebitSplit(First(t))
             \/ d.OverdraftUsed = b.OverdraftUsed
      BY <1>1, <1>4, DebitUsage, Zenon
    <2>3. c.OverdraftUsed = d.OverdraftUsed
      <3>1. CASE ~Double(t)
        BY <1>1, <3>1, Zenon
      <3>2. CASE Double(t)
        <4>1. stage = "PENDING"
          BY <1>4, <3>2, Zenon DEF Double
        <4> QED BY <1>1, <3>2, <4>1, HoldUsage, Zenon
      <3> QED BY <3>1, <3>2, Zenon
    <2> HIDE DEF d
    <2> QED BY <1>4, <2>1, <2>2, <2>3, Zenon
  <1>5. CASE stage = "CANCELED"
    <2>1. CASE ~Double(t)
      <3>1. Main(t) = First(t)
        BY <2>1, Zenon DEF Main
      <3>2. DebitSplit(First(t)) = 0 /\ c.OverdraftUsed = b.OverdraftUsed - CreditSplit(First(t))
        BY <1>1, <1>5, <2>1, ReleaseUsage, Zenon
      <3> QED BY <1>5, <3>1, <3>2, Zenon
    <2>2. CASE Double(t)
      <3>1. Main(t) = Second(t)
        BY <1>5, <2>2, Zenon DEF Main
      <3>2. /\ DebitSplit(Second(t)) = 0
            /\ c.OverdraftUsed = 0 \/ c.OverdraftUsed = b.OverdraftUsed - CreditSplit(Second(t))
        BY <1>1, <1>5, <2>2, CancelUsage
      <3> QED BY <1>5, <3>1, <3>2, Zenon
    <2> QED BY <2>1, <2>2, Zenon
  <1> QED BY <1>2, <1>3, <1>4, <1>5, Zenon DEF Stages

\* The companion balance of an account is no less than the overdraft in use.
Covers(a, balances) == balances[Companion(a)].Available >= balances[Default(a)].OverdraftUsed

\* The companion of the source covers its overdraft after a request.
LEMMA SourceCovered ==
  ASSUME Typed, Sound, NEW t \in Transactions, request[t] # Idle, ReadEarlier(t), From[t] \in Overdrafted,
         NEW out, out = Batch(EnrichOverdraftOperations(t)), ~out.refused, Covers(From[t], bal)
  PROVE  Covers(From[t], out.bal)
  <1> DEFINE a == From[t]
             o == Main(t)
             stage == request[t].stage
             b == bal[Default(a)]
             c == out.bal[Default(a)]
             k == bal[Companion(a)]
             m == out.bal[Companion(a)]
  <1>1. /\ SourceSplit(t) => ~Refused(CompanionOp(o), k) /\ m = Applied(CompanionOp(o), k)
        /\ ~SourceSplit(t) => m = k
    <2>1. a # To[t]
      BY RequestIs, Zenon
    <2> QED BY <2>1, ScriptEffect, Zenon
  <1>2. b \in Records /\ k \in Records
    BY BalancesAre, Zenon DEF Typed
  <1>3. b.OverdraftUsed \in Nat /\ k.Available \in Int
    BY <1>2, Zenon DEF Records
  <1>4. k.Available >= b.OverdraftUsed
    BY Zenon DEF Covers
  <1>5. k.Available >= 0
    BY <1>3, <1>4
  <1>6. /\ o \in Ops /\ o.b = Default(a) /\ (o.allowed => o.b[1] \in Overdrafted)
    BY RequestOps, Zenon
  <1>7. o.stage = stage /\ (o.pending <=> t \in Pending) /\ (stage = "CREATED" <=> t \notin Pending)
    BY FirstIs, SecondIs, RequestIs, Zenon DEF Main
  <1>8. DebitSplit(o) \in Nat /\ CreditSplit(o) \in Nat
    BY <1>6, SplitsAre, Zenon
  <1>9. SourceSplit(t) <=> stage # "APPROVED" /\ (DebitSplit(o) > 0 \/ CreditSplit(o) > 0)
    BY Zenon DEF SourceSplit, HasCompanion
  <1>10. SourceSplit(t) =>
           /\ m.Available >= 0
           /\ DebitSplit(o) > 0 /\ (~o.pending \/ o.stage = "PENDING") => m.Available = k.Available + DebitSplit(o)
           /\ DebitSplit(o) = 0 => m.Available >= k.Available - CreditSplit(o)
    <2> SUFFICES ASSUME SourceSplit(t)
                 PROVE  /\ m.Available >= 0
                        /\ DebitSplit(o) > 0 /\ (~o.pending \/ o.stage = "PENDING") => m.Available = k.Available + DebitSplit(o)
                        /\ DebitSplit(o) = 0 => m.Available >= k.Available - CreditSplit(o)
      BY Zenon
    <2>1. HasCompanion(o)
      BY Zenon DEF SourceSplit
    <2> HIDE DEF o, a, k, m
    <2> QED BY <1>1, <1>2, <1>5, <1>6, <2>1, CompanionEffect, Zenon DEF a
  <1>11. \/ stage = "APPROVED" /\ c.OverdraftUsed = b.OverdraftUsed
         \/ /\ stage \in {"CREATED", "PENDING"} /\ CreditSplit(o) = 0
            /\ \/ DebitSplit(o) > 0 /\ c.OverdraftUsed = b.OverdraftUsed + DebitSplit(o)
               \/ c.OverdraftUsed = b.OverdraftUsed
         \/ /\ stage = "CANCELED" /\ DebitSplit(o) = 0
            /\ c.OverdraftUsed = 0 \/ c.OverdraftUsed = b.OverdraftUsed - CreditSplit(o)
    BY SourceUsage, Zenon
  <1> HIDE DEF o, b, c, k, m, stage
  <1>12. m.Available >= c.OverdraftUsed
    <2>1. CASE stage = "APPROVED" /\ c.OverdraftUsed = b.OverdraftUsed
      BY <1>1, <1>4, <1>9, <2>1, Zenon
    <2>2. CASE /\ stage \in {"CREATED", "PENDING"} /\ CreditSplit(o) = 0
               /\ \/ DebitSplit(o) > 0 /\ c.OverdraftUsed = b.OverdraftUsed + DebitSplit(o)
                  \/ c.OverdraftUsed = b.OverdraftUsed
      <3>1. CASE DebitSplit(o) > 0
        <4>1. m.Available = k.Available + DebitSplit(o)
          BY <1>7, <1>9, <1>10, <2>2, <3>1, Zenon
        <4> QED BY <1>3, <1>4, <1>8, <2>2, <4>1
      <3>2. CASE DebitSplit(o) = 0
        <4>1. m = k
          BY <1>1, <1>9, <2>2, <3>2
        <4> QED BY <1>4, <2>2, <3>2, <4>1
      <3> QED BY <1>8, <3>1, <3>2
    <2>3. CASE /\ stage = "CANCELED" /\ DebitSplit(o) = 0
               /\ c.OverdraftUsed = 0 \/ c.OverdraftUsed = b.OverdraftUsed - CreditSplit(o)
      <3>1. CASE CreditSplit(o) > 0
        <4>1. SourceSplit(t)
          BY <1>9, <2>3, <3>1, Zenon
        <4>2. m.Available >= 0 /\ m.Available >= k.Available - CreditSplit(o)
          BY <1>10, <2>3, <4>1, Zenon
        <4>3. m \in Records
          BY ScriptEffect, BalancesAre DEF m
        <4>4. m.Available \in Int
          BY <4>3, Zenon DEF Records
        <4> QED BY <1>3, <1>4, <1>8, <2>3, <4>2, <4>4
      <3>2. CASE CreditSplit(o) = 0
        <4>1. m = k
          BY <1>1, <1>9, <2>3, <3>2
        <4> QED BY <1>3, <1>4, <1>5, <2>3, <3>2, <4>1
      <3> QED BY <1>8, <3>1, <3>2
    <2> QED BY <1>11, <2>1, <2>2, <2>3, Zenon
  <1> QED BY <1>12, Zenon DEF Covers, m, c

\* A direct transaction repays at its destination what the request has split.
LEMMA DestinationCovered ==
  ASSUME Typed, Sound, NEW t \in Transactions, request[t] # Idle, ReadEarlier(t), To[t] \in Overdrafted,
         t \notin Pending,
         NEW out, out = Batch(EnrichOverdraftOperations(t)), ~out.refused, Covers(To[t], bal)
  PROVE  Covers(To[t], out.bal)
  <1> DEFINE a == To[t]
             o == DestinationOp(t)
             b == bal[Default(a)]
             c == out.bal[Default(a)]
             k == bal[Companion(a)]
             m == out.bal[Companion(a)]
  <1>0. a \in Accounts /\ a \notin External /\ a # From[t] /\ Amount[t] \in Nat /\ request[t].stage = "CREATED"
    BY RequestIs, TransfersAssumption, Zenon
  <1>1. /\ DestinationSplit(t) => ~Refused(CompanionOp(o), k) /\ m = Applied(CompanionOp(o), k)
        /\ ~DestinationSplit(t) => m = k
        /\ ~Refused(o, b) /\ c = Applied(o, b)
    BY <1>0, ScriptEffect, Zenon
  <1>2. b \in Records /\ k \in Records /\ m \in Records /\ b.Available >= 0
    <2>1. out.bal \in [Balances -> Records]
      BY ScriptEffect, Zenon
    <2> QED BY <1>0, <2>1, BalancesAre DEF Typed, Sound, Solvent
  <1>3. b.OverdraftUsed \in Nat /\ k.Available \in Int /\ m.Available \in Int
    BY <1>2, Zenon DEF Records
  <1>4. k.Available >= b.OverdraftUsed
    BY Zenon DEF Covers
  <1>5. k.Available >= 0
    BY <1>3, <1>4
  <1>6. /\ o \in Ops /\ o.b = Default(a) /\ (o.allowed => o.b[1] \in Overdrafted) /\ o.b[1] = a /\ o.b[2] = "default"
    BY <1>0, RequestOps, BalancesAre
  <1>7. o.op = "CREDIT" /\ o.amount = Amount[t] /\ o.read = request[t].to /\ o.stage = "CREATED"
    BY <1>0, DestinationOpIs, Zenon
  <1>8. Given(o) = Amount[t]
    BY <1>0, DestinationMoves, Zenon
  <1>9. DestinationSplit(t) <=> HasCompanion(o)
    BY <1>0, Zenon DEF DestinationSplit
  <1> HIDE DEF o, b, c, k, m
  <1>10. DebitSplit(o) = 0
    BY <1>7, Zenon DEF DebitSplit
  <1>11. CreditSplit(o) \in Nat /\ (HasCompanion(o) <=> CreditSplit(o) > 0)
    BY <1>6, <1>10, SplitsAre DEF HasCompanion
  <1>12. Repayment(o, b) \in Nat /\ Repayment(o, b) <= o.amount /\ (~Repays(o, b) => Repayment(o, b) = 0)
    BY <1>2, <1>6, RepaymentBounds, Zenon
  <1>13. c.OverdraftUsed = b.OverdraftUsed - Repayment(o, b)
    BY <1>0, <1>1, <1>2, <1>6, <1>7, <1>8, <1>12, GivesUsage, Zenon
  <1>14. c.OverdraftUsed = 0 \/ c.OverdraftUsed = b.OverdraftUsed - CreditSplit(o)
    <2>1. CASE Repays(o, b)
      <3>1. ~Stale(o, b)
        BY <1>1, <1>7, <2>1, Zenon DEF Refused, SameBatchCancelCredit
      <3>2. Newer(o.read, b)
        BY <1>7, Zenon DEF ReadEarlier, b
      <3>3. o.read = b
        BY <3>1, <3>2, Zenon DEF Newer, Stale
      <3>4. CreditSplit(o) = Repayment(o, b)
        BY <1>2, <1>6, <2>1, <3>3, SameRepayment, Zenon
      <3> QED BY <1>13, <3>4, Zenon
    <2>2. CASE ~Repays(o, b)
      <3>1. b.OverdraftUsed = 0
        BY <1>0, <1>3, <1>6, <1>7, <2>2 DEF Repays
      <3> QED BY <1>12, <1>13, <2>2, <3>1
    <2> QED BY <2>1, <2>2, Zenon
  <1>15. CASE HasCompanion(o)
    <2>1. ~Refused(CompanionOp(o), k) /\ m = Applied(CompanionOp(o), k)
      BY <1>1, <1>9, <1>15, Zenon
    <2>2. m.Available >= 0 /\ m.Available >= k.Available - CreditSplit(o)
      BY <1>2, <1>5, <1>6, <1>10, <1>15, <2>1, CompanionEffect, Zenon
    <2>3. m.Available >= c.OverdraftUsed
      BY <1>3, <1>4, <1>11, <1>14, <2>2
    <2> QED BY <2>3, Zenon DEF Covers, m, c
  <1>16. CASE ~HasCompanion(o)
    <2>1. m = k /\ CreditSplit(o) = 0
      BY <1>1, <1>9, <1>11, <1>16
    <2>2. m.Available >= c.OverdraftUsed
      BY <1>3, <1>4, <1>5, <1>14, <2>1
    <2> QED BY <2>2, Zenon DEF Covers, m, c
  <1> QED BY <1>15, <1>16, Zenon

\* No request leaves an account with less on the companion than overdraft in use.
LEMMA ScriptCovers ==
  ASSUME Typed, Sound, PlainDestinations, NEW t \in Transactions, ProcessBalanceAtomicOperation(t), ReadEarlier(t),
         NEW a \in Overdrafted, Covers(a, bal)
  PROVE  Covers(a, bal')
  <1> DEFINE out == Batch(EnrichOverdraftOperations(t))
  <1>1. request[t] # Idle /\ (bal' = bal \/ (~out.refused /\ bal' = out.bal))
    BY ProcessIs, Zenon
  <1>2. CASE bal' = bal
    BY <1>2, Zenon
  <1>3. CASE ~out.refused /\ bal' = out.bal
    <2>1. a \in Accounts
      BY BalancesAre, Zenon
    <2>2. CASE a = From[t]
      BY <1>1, <1>3, <2>2, SourceCovered, Zenon
    <2>3. CASE a = To[t]
      <3>1. t \notin Pending
        BY <2>3, Zenon DEF PlainDestinations
      <3> QED BY <1>1, <1>3, <2>3, <3>1, DestinationCovered, Zenon
    <2>4. CASE a # From[t] /\ a # To[t]
      <3>1. out.bal[Default(a)] = bal[Default(a)] /\ out.bal[Companion(a)] = bal[Companion(a)]
        BY <1>1, <1>3, <2>1, <2>4, ScriptEffect
      <3> QED BY <1>3, <3>1, Zenon DEF Covers
    <2> QED BY <2>2, <2>3, <2>4, Zenon
  <1> QED BY <1>1, <1>2, <1>3, Zenon

\* No account gets its overdraft back.
NeverReenabled == [][\A a \in Overdrafted : Allows(a)' => Allows(a)]_vars

\* A balance newer than a newer one.
LEMMA NewerTrans ==
  ASSUME NEW b \in Records, NEW c \in Records, NEW d \in Records, Newer(b, c), Newer(c, d)
  PROVE  Newer(b, d)
  <1>1. b.Version \in Nat /\ c.Version \in Nat /\ d.Version \in Nat
    BY DEF Records
  <1>2. /\ b.Version <= c.Version /\ (b.Version = c.Version => b = c)
        /\ c.Version <= d.Version /\ (c.Version = d.Version => c = d)
    BY Zenon DEF Newer
  <1>3. b.Version <= d.Version
    BY <1>1, <1>2
  <1>4. ASSUME b.Version = d.Version PROVE b = d
    <2>1. b.Version = c.Version /\ c.Version = d.Version
      BY <1>1, <1>2, <1>4
    <2> QED BY <1>2, <2>1, Zenon
  <1> QED BY <1>3, <1>4, Zenon DEF Newer

\* What a request has read stays older than the cache.
LEMMA ReadKept ==
  ASSUME Typed, Typed', Sound, [Next]_vars, [\A a \in Overdrafted : Allows(a)' => Allows(a)]_vars,
         NEW u \in Transactions, ReadEarlier(u)
  PROVE  ReadEarlier(u)'
  <1>0. From[u] \in Accounts /\ To[u] \in Accounts
    BY TransfersAssumption, Zenon
  <1>1. CASE request'[u] = Idle
    BY <1>1, Zenon DEF ReadEarlier, Idle
  <1>2. CASE request'[u] = request[u] /\ request[u] # Idle
    <2>1. request[u].from \in Records /\ request[u].to \in Records
      BY <1>2, RequestIs, Zenon
    <2>2. \A a \in Accounts : Newer(bal[Default(a)], bal'[Default(a)])
      BY StepKeeps, Zenon DEF Kept
    <2>3. \A a \in Accounts : bal[Default(a)] \in Records /\ bal'[Default(a)] \in Records
      BY BalancesAre, Zenon DEF Typed
    <2>4. /\ Newer(request[u].from, bal[Default(From[u])]) /\ Newer(request[u].to, bal[Default(To[u])])
          /\ \A a \in {From[u], To[u]} : Allows(a) => a \in request[u].allows
      BY <1>2, Zenon DEF ReadEarlier
    <2>5. Newer(request[u].from, bal'[Default(From[u])])
      BY <1>0, <2>1, <2>2, <2>3, <2>4, NewerTrans, Zenon
    <2>6. Newer(request[u].to, bal'[Default(To[u])])
      BY <1>0, <2>1, <2>2, <2>3, <2>4, NewerTrans, Zenon
    <2>7. ASSUME NEW a PROVE Allows(a)' => Allows(a)
      <3>1. CASE \A x \in Overdrafted : Allows(x)' => Allows(x)
        BY <3>1, Zenon DEF Allows
      <3>2. CASE UNCHANGED vars
        BY <3>2, Zenon DEF Allows, vars
      <3> QED BY <3>1, <3>2, Zenon
    <2>8. ASSUME NEW a \in {From[u], To[u]}, Allows(a)' PROVE a \in request'[u].allows
      <3>1. Allows(a)
        BY <2>7, <2>8, Zenon
      <3>2. a \in request[u].allows
        BY <2>4, <3>1, Zenon
      <3> QED BY <1>2, <3>2, Zenon
    <2>9. Newer(request[u].from, bal[Default(From[u])])' /\ Newer(request[u].to, bal[Default(To[u])])'
      BY <1>2, <2>5, <2>6, Zenon DEF Newer
    <2> QED BY <2>8, <2>9, Zenon DEF ReadEarlier
  <1>3. ASSUME GetBalances(u) PROVE ReadEarlier(u)'
    <2>1. UNCHANGED <<bal, settings>>
      BY <1>3, GetIs, Zenon
    <2>2. PICK r \in RequestSet :
             /\ request' = [request EXCEPT ![u] = r]
             /\ r.from = bal[Default(From[u])] /\ r.to = bal[Default(To[u])]
             /\ r.allows = {a \in {From[u], To[u]} : Allows(a)}
      BY <1>3, GetIs, Zenon
    <2>3. request'[u] = r
      BY <2>2, Zenon DEF Typed
    <2>4. \A a : Allows(a)' <=> Allows(a)
      BY <2>1, Zenon DEF Allows
    <2>5. bal[Default(From[u])] \in Records /\ bal[Default(To[u])] \in Records
      BY <1>0, BalancesAre, Zenon DEF Typed
    <2>6. \A b \in Records : Newer(b, b)
      BY DEF Newer, Records
    <2>7. request'[u].from = bal'[Default(From[u])] /\ request'[u].to = bal'[Default(To[u])]
      BY <2>1, <2>2, <2>3, Zenon
    <2>8. Newer(request[u].from, bal[Default(From[u])])' /\ Newer(request[u].to, bal[Default(To[u])])'
      <3>1. Newer(bal[Default(From[u])], bal[Default(From[u])]) /\ Newer(bal[Default(To[u])], bal[Default(To[u])])
        BY <2>5, <2>6, Zenon
      <3> QED BY <2>1, <2>7, <3>1, Zenon DEF Newer
    <2>9. \A a \in {From[u], To[u]} : Allows(a)' => a \in request'[u].allows
      BY <2>2, <2>3, <2>4, Zenon
    <2> QED BY <2>8, <2>9, Zenon DEF ReadEarlier
  <1>4. request'[u] = request[u] \/ request'[u] = Idle \/ GetBalances(u)
    <2>1. ASSUME NEW t \in Transactions, t # u, GetBalances(t) PROVE request'[u] = request[u]
      <3>1. PICK r : request' = [request EXCEPT ![t] = r]
        BY <2>1, GetIs, Zenon
      <3> QED BY <2>1, <3>1, Zenon DEF Typed
    <2>2. ASSUME NEW t \in Transactions, ProcessBalanceAtomicOperation(t)
          PROVE  request'[u] = request[u] \/ request'[u] = Idle
      BY <2>2, Zenon DEF ProcessBalanceAtomicOperation, Typed
    <2>3. \/ \E t \in Transactions : GetBalances(t) \/ ProcessBalanceAtomicOperation(t)
          \/ request' = request
      BY Zenon DEF Next, vars, Flush, Update
    <2> QED BY <2>1, <2>2, <2>3, Zenon
  <1> QED BY <1>1, <1>2, <1>3, <1>4, Zenon

\* Property CompanionCoversUsage for any accounts, transactions and settings,
\* provided no pending transaction credits an account with overdraft, and
\* overdraft is not enabled for an account again: an update leaves the version
\* of the balance as it is, so a request that read it while overdraft was off
\* would accrue without a companion operation.
THEOREM CompanionCovers == PlainDestinations => (Spec /\ NeverReenabled => []CompanionCoversUsage)
  <1> SUFFICES ASSUME PlainDestinations PROVE Spec /\ NeverReenabled => []CompanionCoversUsage
    OBVIOUS
  <1> DEFINE Read == \A t \in Transactions : ReadEarlier(t)
             Cover == \A a \in Overdrafted : Covers(a, bal)
  <1>1. Init => Read /\ Cover
    <2> SUFFICES ASSUME Init PROVE Read /\ Cover
      BY Zenon
    <2>1. Read
      BY Zenon DEF Init, ReadEarlier
    <2>2. ASSUME NEW a \in Overdrafted PROVE Covers(a, bal)
      <3>1. Default(a) \in Balances /\ Default(a)[2] = "default" /\ Companion(a) \in Balances /\ Companion(a)[2] = "overdraft"
        BY BalancesAre, Zenon
      <3>2. bal[Companion(a)].Available = 0 /\ bal[Default(a)].OverdraftUsed = 0
        BY <3>1, Zenon DEF Init
      <3> QED BY <3>2 DEF Covers
    <2> QED BY <2>1, <2>2, Zenon
  <1>2. Inv /\ Inv' /\ Read /\ [Next]_vars /\ [\A a \in Overdrafted : Allows(a)' => Allows(a)]_vars => Read'
    <2> SUFFICES ASSUME Inv, Inv', Read, [Next]_vars, [\A a \in Overdrafted : Allows(a)' => Allows(a)]_vars,
                        NEW t \in Transactions
                 PROVE  ReadEarlier(t)'
      BY Zenon
    <2>1. Typed /\ Sound /\ Typed' /\ ReadEarlier(t)
      BY Zenon DEF Inv
    <2> QED BY <2>1, ReadKept, Zenon
  <1>3. Inv /\ Read /\ Cover /\ [Next]_vars => Cover'
    <2> SUFFICES ASSUME Inv, Read, Cover, [Next]_vars, NEW a \in Overdrafted PROVE Covers(a, bal')
      BY Zenon
    <2>1. Typed /\ Sound /\ Covers(a, bal)
      BY Zenon DEF Inv
    <2>2. (\E t \in Transactions : ProcessBalanceAtomicOperation(t)) \/ bal' = bal
      BY Zenon DEF Next, vars, GetBalances, Flush, Update
    <2>3. ASSUME NEW t \in Transactions, ProcessBalanceAtomicOperation(t) PROVE Covers(a, bal')
      <3>1. ReadEarlier(t)
        OBVIOUS
      <3> QED BY <2>1, <2>3, <3>1, ScriptCovers, Zenon
    <2>4. CASE bal' = bal
      BY <2>1, <2>4, Zenon
    <2> QED BY <2>2, <2>3, <2>4, Zenon
  <1>4. Cover => CompanionCoversUsage
    BY Zenon DEF Covers, CompanionCoversUsage
  <1> HIDE DEF Read, Cover
  <1>5. Spec => []Inv
    BY Invariant
  <1> QED BY <1>1, <1>2, <1>3, <1>4, <1>5, PTL DEF Spec, NeverReenabled

=============================================================================
