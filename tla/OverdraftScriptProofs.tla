------------------------ MODULE OverdraftScriptProofs ------------------------
(***************************************************************************)
(* What TLAPS proves about one request: the operations it builds from what *)
(* it has read, the companion operations, and what a batch of the script   *)
(* does to every balance.  OverdraftProofs has the theorems.               *)
(***************************************************************************)
EXTENDS Overdraft, Sums

-----------------------------------------------------------------------------
(* Recursion over 0..N *)

\* Induction over 0..N, for a set of indices.
LEMMA Induction ==
  ASSUME NEW N \in Nat, NEW P, 0 \in P, \A i \in 0..N : i \in P /\ i # N => i + 1 \in P
  PROVE  \A i \in 0..N : i \in P
  <1> SUFFICES ASSUME NEW n \in 0..N, n \notin P PROVE FALSE
    OBVIOUS
  <1> DEFINE D == 0..N
             B == {s \in SUBSET D : \E m \in 0..N : s = 0..m /\ m \notin P}
  <1>1. B \in SUBSET SUBSET D /\ IsFiniteSet(D)
    BY FS_Interval
  <1>2. B # {}
    <2>1. 0..n \in B
      OBVIOUS
    <2> QED BY <2>1, Zenon
  <1>3. PICK s \in B : \A r \in B : r \subseteq s => r = s
    <2> HIDE DEF B, D
    <2> QED BY <1>1, <1>2, SmallestSubset
  <1>4. PICK m \in 0..N : s = 0..m /\ m \notin P
    OBVIOUS
  <1>5. m # 0 /\ m - 1 \in 0..N /\ m - 1 # N /\ (m - 1) + 1 = m
    BY <1>4
  <1>6. m - 1 \notin P
    BY <1>4, <1>5
  <1>7. 0..(m - 1) \in B /\ 0..(m - 1) \subseteq 0..m
    BY <1>5, <1>6
  <1>8. 0..(m - 1) = 0..m
    BY <1>3, <1>4, <1>7, Zenon
  <1>9. m \in 0..m /\ m \notin 0..(m - 1)
    BY <1>5
  <1> QED BY <1>8, <1>9

\* A recursive definition over 0..N, as the script and Joined use it, has a value.
LEMMA Recursion ==
  ASSUME NEW S, NEW s0 \in S, NEW N \in Nat, NEW F \in [1..N -> [S -> S]]
  PROVE  \E f \in [0..N -> S] : f[0] = s0 /\ \A i \in 1..N : f[i] = F[i][f[i - 1]]
  <1> DEFINE Defines(f, n) == f[0] = s0 /\ \A i \in 1..n : f[i] = F[i][f[i - 1]]
             P == {n \in 0..N : \E f \in [0..n -> S] : Defines(f, n)}
  <1>1. 0 \in P
    <2> DEFINE f == [i \in 0..0 |-> s0]
    <2>1. f \in [0..0 -> S] /\ f[0] = s0
      OBVIOUS
    <2>2. Defines(f, 0)
      BY <2>1
    <2> HIDE DEF Defines, f
    <2> QED BY <2>1, <2>2
  <1>2. ASSUME NEW n \in 0..N, n \in P, n # N PROVE n + 1 \in P
    <2>1. PICK f \in [0..n -> S] : Defines(f, n)
      BY <1>2
    <2> DEFINE g == [i \in 0..(n + 1) |-> IF i = n + 1 THEN F[n + 1][f[n]] ELSE f[i]]
    <2>2. n + 1 \in 1..N /\ n \in 0..n
      BY <1>2
    <2>3. F[n + 1] \in [S -> S] /\ f[n] \in S
      BY <2>2
    <2>4. g \in [0..(n + 1) -> S]
      BY <2>3
    <2>5. g[0] = s0
      BY <2>1
    <2>6. ASSUME NEW i \in 1..(n + 1) PROVE g[i] = F[i][g[i - 1]]
      <3>1. CASE i = n + 1
        BY <3>1
      <3>2. CASE i # n + 1
        <4>1. i \in 1..n /\ i - 1 \in 0..n /\ i - 1 # n + 1
          BY <3>2
        <4> QED BY <2>1, <4>1
      <3> QED BY <3>1, <3>2
    <2>7. Defines(g, n + 1)
      BY <2>5, <2>6, Zenon
    <2> HIDE DEF Defines, g
    <2> QED BY <2>2, <2>4, <2>7
  <1>3. \A n \in 0..N : n \in P
    <2> HIDE DEF P
    <2> QED BY <1>1, <1>2, Induction, Zenon
  <1> QED BY <1>3

-----------------------------------------------------------------------------
(* Sequences one after the other *)

Joins(g, seqs) ==
    /\ g[0] = <<>>
    /\ \A n \in 1..Len(seqs) : g[n] = g[n - 1] \o seqs[n]

Nested(seqs, X) == seqs \in Seq(Seq(X))

\* Joined is the last of the partial concatenations.
LEMMA JoinedIs ==
  ASSUME NEW X, NEW seqs, Nested(seqs, X)
  PROVE  \E g : Joins(g, seqs) /\ Joined(seqs) = g[Len(seqs)]
  <1> DEFINE S == Seq(X)
             N == Len(seqs)
             e == <<>>
             F == [i \in 1..N |-> [s \in S |-> s \o seqs[i]]]
             Def(f) == f = [n \in 0..N |-> IF n = 0 THEN <<>> ELSE f[n - 1] \o seqs[n]]
             g == CHOOSE f : Def(f)
  <1>1. N \in Nat /\ e \in S /\ \A i \in 1..N : seqs[i] \in S
    BY DEF Nested
  <1>2. F \in [1..N -> [S -> S]]
    BY <1>1
  <1>3. PICK f \in [0..N -> S] : f[0] = e /\ \A i \in 1..N : f[i] = F[i][f[i - 1]]
    <2>1. N \in Nat /\ e \in S
      BY <1>1
    <2> HIDE DEF S, N, e, F
    <2> QED BY <1>2, <2>1, Recursion
  <1>4. ASSUME NEW i \in 0..N PROVE f[i] = IF i = 0 THEN <<>> ELSE f[i - 1] \o seqs[i]
    <2>1. CASE i = 0
      BY <1>3, <2>1
    <2>2. CASE i # 0
      <3>1. i \in 1..N /\ i - 1 \in 0..N
        BY <1>1, <2>2
      <3>2. f[i] = F[i][f[i - 1]] /\ f[i - 1] \in S
        BY <1>3, <3>1, Zenon
      <3> QED BY <2>2, <3>1, <3>2, Zenon
    <2> QED BY <2>1, <2>2
  <1>5. Def(f)
    BY <1>4
  <1>6. Def(g)
    <2> HIDE DEF Def
    <2> QED BY <1>5
  <1>7. Joined(seqs) = g[N]
    BY DEF Joined
  <1> HIDE DEF g
  <1>8. Joins(g, seqs)
    <2>1. 0 \in 0..N /\ \A n \in 1..N : n \in 0..N /\ n # 0
      BY <1>1
    <2>2. \A n \in 0..N : g[n] = IF n = 0 THEN <<>> ELSE g[n - 1] \o seqs[n]
      BY <1>6, Zenon
    <2> QED BY <2>1, <2>2, Zenon DEF Joins
  <1> QED BY <1>7, <1>8

\* What Joined returns, written out for two and for three sequences.
LEMMA JoinedSeq ==
  ASSUME NEW X, NEW seqs \in Seq(Seq(X))
  PROVE  /\ Joined(seqs) \in Seq(X)
         /\ Len(seqs) = 2 => Joined(seqs) = seqs[1] \o seqs[2]
         /\ Len(seqs) = 3 => Joined(seqs) = (seqs[1] \o seqs[2]) \o seqs[3]
  <1> DEFINE N == Len(seqs)
  <1>1. PICK g : Joins(g, seqs) /\ Joined(seqs) = g[N]
    BY JoinedIs DEF Nested
  <1>2. N \in Nat /\ <<>> \in Seq(X) /\ \A i \in 1..N : seqs[i] \in Seq(X)
    OBVIOUS
  <1>3. g[0] = <<>> /\ \A n \in 1..N : g[n] = g[n - 1] \o seqs[n]
    BY <1>1, Zenon DEF Joins
  <1>4. \A i \in 0..N : g[i] \in Seq(X)
    <2> DEFINE P == {i \in 0..N : g[i] \in Seq(X)}
    <2>1. 0 \in P
      <3>1. 0 \in 0..N
        BY <1>2
      <3>2. g[0] \in Seq(X)
        BY <1>2, <1>3, Zenon
      <3> QED BY <3>1, <3>2, Zenon
    <2>2. ASSUME NEW i \in 0..N, i \in P, i # N PROVE i + 1 \in P
      <3>1. i + 1 \in 1..N /\ (i + 1) - 1 = i
        BY <1>2, <2>2
      <3>2. g[i + 1] = g[i] \o seqs[i + 1] /\ seqs[i + 1] \in Seq(X) /\ g[i] \in Seq(X)
        BY <1>2, <1>3, <2>2, <3>1, Zenon
      <3>3. g[i + 1] \in Seq(X)
        BY <3>2
      <3> QED BY <3>1, <3>3
    <2>3. \A i \in 0..N : i \in P
      <3> HIDE DEF P, N
      <3> QED BY <1>2, <2>1, <2>2, Induction, Zenon
    <2> QED BY <2>3
  <1>5. ASSUME N = 2 \/ N = 3 PROVE g[2] = seqs[1] \o seqs[2]
    <2>1. g[1] = g[0] \o seqs[1] /\ g[2] = g[1] \o seqs[2] /\ seqs[1] \in Seq(X)
      <3>1. 1 \in 1..N /\ 2 \in 1..N /\ 1 - 1 = 0 /\ 2 - 1 = 1
        BY <1>5
      <3> HIDE DEF N
      <3> QED BY <1>2, <1>3, <3>1, Zenon
    <2>2. <<>> \o seqs[1] = seqs[1]
      BY <2>1
    <2>3. g[1] = seqs[1]
      BY <1>3, <2>1, <2>2, Zenon
    <2> QED BY <2>1, <2>3
  <1>6. ASSUME N = 3 PROVE g[3] = g[2] \o seqs[3]
    BY <1>3, <1>6
  <1>7. N \in 0..N
    BY <1>2
  <1> HIDE DEF N
  <1>8. Joined(seqs) \in Seq(X)
    BY <1>1, <1>4, <1>7
  <1>9. N = 2 => Joined(seqs) = seqs[1] \o seqs[2]
    BY <1>1, <1>5, Zenon
  <1>10. N = 3 => Joined(seqs) = (seqs[1] \o seqs[2]) \o seqs[3]
    BY <1>1, <1>5, <1>6, Zenon
  <1> QED BY <1>8, <1>9, <1>10, Zenon DEF N

-----------------------------------------------------------------------------
(* One operation *)

Records == [Available : Int, OnHold : Int, OverdraftUsed : Nat, Version : Nat]

Ops == [b : Balances, op : {"DEBIT", "CREDIT", "ON_HOLD", "RELEASE"}, amount : Nat, read : Records,
        allowed : BOOLEAN, stage : {"CREATED", "PENDING", "APPROVED", "CANCELED"}, pending : BOOLEAN,
        routes : BOOLEAN, overdraft : Int]

\* What Minimum returns, where there is a minimum.
LEMMA MinimumIs ==
  ASSUME NEW S, S \subseteq Int, NEW m \in S, \A y \in S : m <= y
  PROVE  Minimum(S) = m
  <1>1. Minimum(S) \in S /\ \A y \in S : Minimum(S) <= y
    BY Zenon DEF Minimum
  <1>2. Minimum(S) <= m /\ m <= Minimum(S) /\ Minimum(S) \in Int /\ m \in Int
    BY <1>1, Zenon
  <1> QED BY <1>2

\* The minimum of an amount and what is left.
LEMMA MinimumOfTwo ==
  ASSUME NEW x \in Int, NEW y \in Int
  PROVE  Minimum({x, y}) = IF x <= y THEN x ELSE y
  <1>1. CASE x <= y
    <2>1. {x, y} \subseteq Int /\ x \in {x, y} /\ \A z \in {x, y} : x <= z
      BY <1>1
    <2>2. Minimum({x, y}) = x
      BY <2>1, MinimumIs
    <2> QED BY <1>1, <2>2
  <1>2. CASE ~(x <= y)
    <2>1. {x, y} \subseteq Int /\ y \in {x, y} /\ \A z \in {x, y} : y <= z
      BY <1>2
    <2>2. Minimum({x, y}) = y
      BY <2>1, MinimumIs
    <2> QED BY <1>2, <2>2
  <1> QED BY <1>1, <1>2

\* The least of an amount, the overdraft in use and, if there is one, the
\* overdraft of the hold.
Least(amount, used, overdraft) ==
    Minimum({amount, used} \cup (IF overdraft > 0 THEN {overdraft} ELSE {}))

\* A repayment exceeds neither the amount nor the overdraft in use.
LEMMA LeastBounds ==
  ASSUME NEW x \in Nat, NEW y \in Nat, NEW z \in Int
  PROVE  Least(x, y, z) \in Nat /\ Least(x, y, z) <= x /\ Least(x, y, z) <= y
  <1>1. CASE z > 0
    <2> DEFINE S == {x, y, z}
               m == IF x <= y /\ x <= z THEN x ELSE IF y <= z THEN y ELSE z
    <2>1. m \in S /\ S \subseteq Int
      BY <1>1
    <2>2. m \in Nat /\ m <= x /\ m <= y /\ m <= z
      BY <1>1
    <2>3. \A w \in S : m <= w
      BY <2>2
    <2>4. {x, y} \cup {z} = S
      OBVIOUS
    <2>5. Least(x, y, z) = Minimum(S)
      BY <1>1, <2>4 DEF Least
    <2>6. Minimum(S) = m
      <3> HIDE DEF S, m
      <3> QED BY <2>1, <2>3, MinimumIs, Zenon
    <2> QED BY <2>2, <2>5, <2>6
  <1>2. CASE ~(z > 0)
    <2>1. Least(x, y, z) = Minimum({x, y})
      <3>1. {x, y} \cup {} = {x, y}
        OBVIOUS
      <3> QED BY <1>2, <3>1 DEF Least
    <2>2. Minimum({x, y}) = IF x <= y THEN x ELSE y
      BY MinimumOfTwo
    <2> QED BY <2>1, <2>2
  <1> QED BY <1>1, <1>2

\* What the script repays.
LEMMA RepaymentBounds ==
  ASSUME NEW o \in Ops, NEW b \in Records
  PROVE  /\ Repayment(o, b) \in Nat
         /\ Repayment(o, b) <= o.amount
         /\ Repayment(o, b) <= b.OverdraftUsed
         /\ Repays(o, b) => Repayment(o, b) = Least(o.amount, b.OverdraftUsed, o.overdraft)
         /\ ~Repays(o, b) => Repayment(o, b) = 0
  <1>1. o.amount \in Nat /\ b.OverdraftUsed \in Nat /\ o.overdraft \in Int
    BY DEF Ops, Records
  <1>2. Least(o.amount, b.OverdraftUsed, o.overdraft) \in Nat
        /\ Least(o.amount, b.OverdraftUsed, o.overdraft) <= o.amount
        /\ Least(o.amount, b.OverdraftUsed, o.overdraft) <= b.OverdraftUsed
    BY <1>1, LeastBounds, Zenon
  <1>3. Repays(o, b) => Repayment(o, b) = Least(o.amount, b.OverdraftUsed, o.overdraft)
    BY DEF Repayment, Least
  <1>4. ~Repays(o, b) => Repayment(o, b) = 0
    BY DEF Repayment
  <1> QED BY <1>1, <1>2, <1>3, <1>4

Given(o) == (IF Gives(o) THEN o.amount ELSE 0) - (IF Takes(o) THEN o.amount ELSE 0)

Held(o) == (IF Holds(o) THEN o.amount ELSE 0) - (IF Releases(o) THEN o.amount ELSE 0)

\* What the script computes as Available before the floor, by the direction of the balance.
LEMMA ResultIs ==
  ASSUME NEW o \in Ops, NEW b \in Records
  PROVE  /\ Given(o) \in Int /\ Held(o) \in Int /\ Result(o, b) \in Int
         /\ o.b[2] = "default" => Result(o, b) = b.Available + Given(o) - Repayment(o, b)
         /\ o.b[2] = "overdraft" => Result(o, b) = b.Available - Given(o)
  <1>1. o.amount \in Nat /\ b.Available \in Int /\ Repayment(o, b) \in Nat
    BY RepaymentBounds DEF Ops, Records
  <1>2. Given(o) \in Int /\ Held(o) \in Int
    BY <1>1 DEF Given, Held
  <1>3. Result(o, b) = b.Available + (IF o.b[2] = "overdraft" THEN -Given(o) ELSE Given(o)) - Repayment(o, b)
    BY DEF Result, Given
  <1>4. o.b[2] = "overdraft" => Repayment(o, b) = 0
    BY DEF Repayment, Repays
  <1> QED BY <1>1, <1>2, <1>3, <1>4

\* What an applied operation leaves: the version grows unless nothing changed.
LEMMA AppliedFields ==
  ASSUME NEW o \in Ops, NEW b \in Records
  PROVE  /\ Applied(o, b) \in Records
         /\ Applied(o, b).Available = IF Short(o, b) THEN 0 ELSE Result(o, b)
         /\ Applied(o, b).OnHold = b.OnHold + Held(o)
         /\ Applied(o, b).OverdraftUsed = b.OverdraftUsed - (IF Short(o, b) THEN Result(o, b) ELSE Repayment(o, b))
         /\ Applied(o, b).Version = (IF Applied(o, b) = b THEN b.Version ELSE b.Version + 1)
  <1> DEFINE available == IF Short(o, b) THEN 0 ELSE Result(o, b)
             onHold == b.OnHold + (IF Holds(o) THEN o.amount ELSE 0) - (IF Releases(o) THEN o.amount ELSE 0)
             used == b.OverdraftUsed - (IF Short(o, b) THEN Result(o, b) ELSE Repayment(o, b))
             after == [Available |-> available, OnHold |-> onHold, OverdraftUsed |-> used, Version |-> b.Version]
             next == [after EXCEPT !.Version = @ + 1]
  <1>1. b.Available \in Int /\ b.OnHold \in Int /\ b.OverdraftUsed \in Nat /\ b.Version \in Nat /\ o.amount \in Nat
    BY DEF Ops, Records
  <1>2. Result(o, b) \in Int /\ Repayment(o, b) \in Nat /\ Repayment(o, b) <= b.OverdraftUsed
    BY ResultIs, RepaymentBounds
  <1>3. available \in Int /\ onHold \in Int /\ onHold = b.OnHold + Held(o)
    BY <1>1, <1>2 DEF Held
  <1>4. Short(o, b) => Result(o, b) < 0
    BY DEF Short
  <1>5. used \in Nat
    BY <1>1, <1>2, <1>4
  <1>6. Applied(o, b) = IF after = b THEN b ELSE next
    BY DEF Applied
  <1> HIDE DEF available, onHold, used
  <1>7. next = [Available |-> available, OnHold |-> onHold, OverdraftUsed |-> used, Version |-> b.Version + 1]
    OBVIOUS
  <1>8. CASE after = b
    BY <1>3, <1>6, <1>8 DEF available, used
  <1>9. CASE after # b
    <2>1. Applied(o, b) = [Available |-> available, OnHold |-> onHold, OverdraftUsed |-> used, Version |-> b.Version + 1]
      BY <1>6, <1>7, <1>9
    <2>2. Applied(o, b) \in Records /\ Applied(o, b).Version = b.Version + 1
      BY <1>1, <1>3, <1>5, <2>1 DEF Records
    <2>3. Applied(o, b) # b
      BY <1>1, <2>2
    <2>4. Applied(o, b).Available = available /\ Applied(o, b).OnHold = onHold /\ Applied(o, b).OverdraftUsed = used
      BY <2>1
    <2> QED BY <1>3, <2>2, <2>3, <2>4 DEF available, used
  <1> QED BY <1>8, <1>9

-----------------------------------------------------------------------------
(* A batch *)

ScriptStates ==
    [refused : BOOLEAN, bal : [Balances -> Records], changes : Seq([o : Ops, before : Records])]

\* One operation of the script: refused, or applied to its balance and no other.
LEMMA StepIs ==
  ASSUME NEW s \in ScriptStates, NEW o \in Ops
  PROVE  /\ Step(s, o) \in ScriptStates
         /\ s.refused => Step(s, o).refused
         /\ ~Step(s, o).refused =>
              /\ ~Refused(o, s.bal[o.b])
              /\ Step(s, o).bal = [s.bal EXCEPT ![o.b] = Applied(o, s.bal[o.b])]
  <1> DEFINE b == s.bal[o.b]
             new == Applied(o, b)
  <1>1. o.b \in Balances /\ s.bal \in [Balances -> Records] /\ s.refused \in BOOLEAN
        /\ s.changes \in Seq([o : Ops, before : Records])
    BY DEF Ops, ScriptStates
  <1>2. b \in Records
    BY <1>1
  <1>3. new \in Records
    BY <1>2, AppliedFields
  <1>4. Step(s, o) = IF s.refused \/ Refused(o, b) THEN [s EXCEPT !.refused = TRUE]
                     ELSE IF new = b THEN s
                     ELSE [s EXCEPT !.bal[o.b] = new, !.changes = Append(@, [o |-> o, before |-> b])]
    BY DEF Step
  <1>5. CASE s.refused \/ Refused(o, b)
    <2>1. Step(s, o) = [s EXCEPT !.refused = TRUE]
      BY <1>4, <1>5
    <2>2. Step(s, o) \in ScriptStates /\ Step(s, o).refused
      BY <2>1, Zenon DEF ScriptStates
    <2> QED BY <2>2
  <1>6. CASE ~(s.refused \/ Refused(o, b)) /\ new = b
    <2>1. Step(s, o) = s
      BY <1>4, <1>6
    <2>2. [s.bal EXCEPT ![o.b] = new] = s.bal
      BY <1>1, <1>6
    <2>3. ~Refused(o, b)
      BY <1>6
    <2> HIDE DEF b, new
    <2> QED BY <2>1, <2>2, <2>3, Zenon DEF b, new
  <1>7. CASE ~(s.refused \/ Refused(o, b)) /\ new # b
    <2> DEFINE e == [o |-> o, before |-> b]
    <2>1. Step(s, o) = [s EXCEPT !.bal[o.b] = new, !.changes = Append(@, e)]
      BY <1>4, <1>7
    <2>2. e \in [o : Ops, before : Records]
      BY <1>2
    <2>3. Append(s.changes, e) \in Seq([o : Ops, before : Records])
      <3> HIDE DEF e
      <3> QED BY <1>1, <2>2
    <2>4. [s.bal EXCEPT ![o.b] = new] \in [Balances -> Records]
      <3> HIDE DEF new
      <3> QED BY <1>1, <1>3
    <2> HIDE DEF new, e, b
    <2>5. Step(s, o) = [refused |-> s.refused, bal |-> [s.bal EXCEPT ![o.b] = new], changes |-> Append(s.changes, e)]
      BY <2>1, Zenon DEF ScriptStates
    <2>6. Step(s, o) \in ScriptStates /\ Step(s, o).bal = [s.bal EXCEPT ![o.b] = new] /\ Step(s, o).refused = s.refused
      BY <1>1, <2>3, <2>4, <2>5 DEF ScriptStates
    <2> QED BY <1>7, <2>6 DEF new, b
  <1> QED BY <1>5, <1>6, <1>7

Start == [refused |-> FALSE, bal |-> bal, changes |-> <<>>]

Runs(f, ops) ==
    /\ f \in [0..Len(ops) -> ScriptStates]
    /\ f[0] = Start
    /\ \A i \in 1..Len(ops) : f[i] = Step(f[i - 1], ops[i])

Listed(ops) == ops \in Seq(Ops)

\* A batch has a run: the states before and after every operation.
LEMMA ListedRuns ==
  ASSUME NEW ops, Listed(ops), Start \in ScriptStates
  PROVE  \E f : Runs(f, ops) /\ Batch(ops) = f[Len(ops)]
  <1> DEFINE N == Len(ops)
             S == ScriptStates
             F == [i \in 1..N |-> [s \in S |-> Step(s, ops[i])]]
             Def(f) == f = [i \in 0..N |-> IF i = 0 THEN [refused |-> FALSE, bal |-> bal, changes |-> <<>>]
                                           ELSE Step(f[i - 1], ops[i])]
             g == CHOOSE f : Def(f)
  <1>1. N \in Nat /\ \A i \in 1..N : ops[i] \in Ops
    BY DEF Listed
  <1>2. Start \in S
    OBVIOUS
  <1>3. F \in [1..N -> [S -> S]]
    BY <1>1, StepIs, Zenon
  <1>4. PICK f \in [0..N -> S] : f[0] = Start /\ \A i \in 1..N : f[i] = F[i][f[i - 1]]
    <2>1. N \in Nat
      BY <1>1
    <2> HIDE DEF S, N, F
    <2> QED BY <1>2, <1>3, <2>1, Recursion
  <1>5. ASSUME NEW i \in 1..N PROVE f[i] = Step(f[i - 1], ops[i]) /\ f[i - 1] \in S
    <2>1. i - 1 \in 0..N
      BY <1>1
    <2> QED BY <1>4, <2>1
  <1>6. Def(f)
    <2>1. ASSUME NEW i \in 0..N
          PROVE f[i] = IF i = 0 THEN Start ELSE Step(f[i - 1], ops[i])
      <3>1. CASE i = 0
        BY <1>4, <3>1
      <3>2. CASE i # 0
        <4>1. i \in 1..N
          BY <1>1, <3>2
        <4> QED BY <1>5, <3>2, <4>1
      <3> QED BY <3>1, <3>2
    <2> QED BY <1>4, <2>1 DEF Start
  <1>7. Def(g)
    <2> HIDE DEF Def
    <2> QED BY <1>6
  <1>8. Batch(ops) = g[N]
    BY DEF Batch
  <1> HIDE DEF g
  <1>9. g[0] = Start /\ \A i \in 1..N : g[i] = Step(g[i - 1], ops[i])
    <2>1. 0 \in 0..N /\ \A n \in 1..N : n \in 0..N /\ n # 0
      BY <1>1
    <2>2. \A n \in 0..N : g[n] = IF n = 0 THEN Start ELSE Step(g[n - 1], ops[n])
      BY <1>7, Zenon DEF Start
    <2> QED BY <2>1, <2>2, Zenon
  <1>10. \A i \in 0..N : g[i] \in S
    <2> DEFINE P == {i \in 0..N : g[i] \in S}
    <2>1. 0 \in P
      <3>1. 0 \in 0..N
        BY <1>1
      <3> QED BY <1>2, <1>9, <3>1
    <2>2. ASSUME NEW i \in 0..N, i \in P, i # N PROVE i + 1 \in P
      <3>1. i + 1 \in 1..N /\ (i + 1) - 1 = i /\ i + 1 \in 0..N
        BY <1>1, <2>2
      <3>2. g[i + 1] = Step(g[i], ops[i + 1])
        BY <1>9, <3>1
      <3>3. g[i + 1] \in S
        <4>1. g[i] \in ScriptStates /\ ops[i + 1] \in Ops
          BY <1>1, <2>2, <3>1
        <4>2. Step(g[i], ops[i + 1]) \in ScriptStates
          BY <4>1, StepIs
        <4> QED BY <3>2, <4>2
      <3> QED BY <3>1, <3>3
    <2>3. \A i \in 0..N : i \in P
      <3>1. N \in Nat
        BY <1>1
      <3> HIDE DEF P, N
      <3> QED BY <2>1, <2>2, <3>1, Induction
    <2> QED BY <2>3
  <1>11. g \in [0..N -> S]
    BY <1>7, <1>10, Zenon
  <1> QED BY <1>8, <1>9, <1>11 DEF Runs

\* The same for a sequence of operations.
LEMMA BatchRuns ==
  ASSUME NEW ops, ops \in Seq(Ops), bal \in [Balances -> Records]
  PROVE  \E f : Runs(f, ops) /\ Batch(ops) = f[Len(ops)]
  <1>1. Start \in ScriptStates
    BY DEF Start, ScriptStates
  <1> QED BY <1>1, ListedRuns DEF Listed

\* A batch that is not refused was not refused at any operation.
LEMMA Accepted ==
  ASSUME NEW f, NEW ops, ops \in Seq(Ops), Runs(f, ops), ~f[Len(ops)].refused
  PROVE  \A i \in 0..Len(ops) : ~f[i].refused
  <1> DEFINE N == Len(ops)
             P == {i \in 0..N : ~f[N - i].refused}
  <1>1. N \in Nat /\ \A i \in 1..N : ops[i] \in Ops
    OBVIOUS
  <1>2. 0 \in P
    <2>1. N - 0 = N /\ 0 \in 0..N
      BY <1>1
    <2> QED BY <2>1
  <1>3. ASSUME NEW i \in 0..N, i \in P, i # N PROVE i + 1 \in P
    <2>1. N - i \in 1..N /\ (N - i) - 1 = N - (i + 1) /\ i + 1 \in 0..N /\ N - (i + 1) \in 0..N
      BY <1>1, <1>3
    <2>2. f[N - i] = Step(f[N - (i + 1)], ops[N - i]) /\ f[N - (i + 1)] \in ScriptStates
      BY <2>1, Zenon DEF Runs
    <2>3. ~f[N - (i + 1)].refused
      BY <1>1, <1>3, <2>1, <2>2, StepIs, Zenon
    <2> QED BY <2>1, <2>3
  <1>4. \A i \in 0..N : i \in P
    <2>1. N \in Nat
      BY <1>1
    <2> HIDE DEF P, N
    <2> QED BY <1>2, <1>3, <2>1, Induction, Zenon
  <1>5. ASSUME NEW i \in 0..N PROVE ~f[i].refused
    <2>1. N - i \in 0..N /\ N - (N - i) = i
      BY <1>1
    <2> QED BY <1>4, <2>1
  <1> QED BY <1>5

\* Operations on other balances leave a balance as it is.
LEMMA Untouched ==
  ASSUME NEW f, NEW ops, ops \in Seq(Ops), Runs(f, ops), ~f[Len(ops)].refused,
         NEW b \in Balances, NEW m \in 0..Len(ops), NEW n \in m..Len(ops),
         \A i \in (m + 1)..n : ops[i].b # b
  PROVE  f[n].bal[b] = f[m].bal[b]
  <1> DEFINE N == n - m
             P == {i \in 0..N : f[m + i].bal[b] = f[m].bal[b]}
  <1>1. Len(ops) \in Nat /\ N \in Nat /\ \A i \in 1..Len(ops) : ops[i] \in Ops
    OBVIOUS
  <1>2. 0 \in P
    <2>1. m + 0 = m /\ 0 \in 0..N
      BY <1>1
    <2> QED BY <2>1
  <1>3. ASSUME NEW i \in 0..N, i \in P, i # N PROVE i + 1 \in P
    <2>1. m + (i + 1) \in 1..Len(ops) /\ m + (i + 1) \in (m + 1)..n /\ (m + (i + 1)) - 1 = m + i
          /\ m + i \in 0..Len(ops) /\ i + 1 \in 0..N /\ m + (i + 1) \in 0..Len(ops)
      BY <1>1, <1>3
    <2>2. f[m + (i + 1)] = Step(f[m + i], ops[m + (i + 1)]) /\ f[m + i] \in ScriptStates
      BY <2>1, Zenon DEF Runs
    <2>3. ~f[m + (i + 1)].refused
      BY <2>1, Accepted
    <2>4. ops[m + (i + 1)].b # b /\ ops[m + (i + 1)] \in Ops
      BY <1>1, <2>1
    <2> DEFINE s == f[m + i]
               o == ops[m + (i + 1)]
    <2>5. f[m + (i + 1)].bal = [s.bal EXCEPT ![o.b] = Applied(o, s.bal[o.b])]
      <3> HIDE DEF s, o
      <3>1. s \in ScriptStates /\ o \in Ops /\ ~Step(s, o).refused /\ f[m + (i + 1)] = Step(s, o)
        BY <2>2, <2>3, <2>4 DEF s, o
      <3> QED BY <3>1, StepIs
    <2>6. s.bal \in [Balances -> Records]
      BY <2>2, Zenon DEF ScriptStates
    <2>7. f[m + (i + 1)].bal[b] = s.bal[b]
      BY <2>4, <2>5, <2>6
    <2> QED BY <1>3, <2>1, <2>7
  <1>4. \A i \in 0..N : i \in P
    <2>1. N \in Nat
      BY <1>1
    <2> HIDE DEF P, N
    <2> QED BY <1>2, <1>3, <2>1, Induction, Zenon
  <1>5. m + N = n /\ N \in 0..N
    BY <1>1
  <1> QED BY <1>4, <1>5

\* The operation at i finds its balance as f[i - 1] has it, and is not refused.
LEMMA Touched ==
  ASSUME NEW f, NEW ops, ops \in Seq(Ops), Runs(f, ops), ~f[Len(ops)].refused, NEW i \in 1..Len(ops)
  PROVE  /\ f[i - 1].bal[ops[i].b] \in Records
         /\ ~Refused(ops[i], f[i - 1].bal[ops[i].b])
         /\ f[i].bal[ops[i].b] = Applied(ops[i], f[i - 1].bal[ops[i].b])
  <1> DEFINE s == f[i - 1]
             o == ops[i]
  <1>1. i \in 0..Len(ops) /\ i - 1 \in 0..Len(ops) /\ o \in Ops
    OBVIOUS
  <1>2. f[i] = Step(s, o) /\ s \in ScriptStates
    BY <1>1 DEF Runs
  <1>3. ~f[i].refused
    BY <1>1, Accepted
  <1> HIDE DEF s, o
  <1>4. ~Refused(o, s.bal[o.b]) /\ f[i].bal = [s.bal EXCEPT ![o.b] = Applied(o, s.bal[o.b])]
    BY <1>1, <1>2, <1>3, StepIs
  <1>5. s.bal \in [Balances -> Records] /\ o.b \in Balances
    BY <1>1, <1>2 DEF ScriptStates, Ops
  <1>6. f[i].bal[o.b] = Applied(o, s.bal[o.b]) /\ s.bal[o.b] \in Records
    BY <1>4, <1>5
  <1> QED BY <1>4, <1>6 DEF s, o

\* In a batch that is not refused: a balance that no operation is on, that one
\* is on, that the first two are on.
LEMMA NoOperation ==
  ASSUME NEW ops, ops \in Seq(Ops), bal \in [Balances -> Records], ~Batch(ops).refused,
         NEW b \in Balances, \A i \in 1..Len(ops) : ops[i].b # b
  PROVE  Batch(ops).bal[b] = bal[b]
  <1>1. PICK f : Runs(f, ops) /\ Batch(ops) = f[Len(ops)]
    BY BatchRuns
  <1>2. Len(ops) \in Nat /\ 0 \in 0..Len(ops) /\ Len(ops) \in 0..Len(ops) /\ 0 + 1 = 1
    OBVIOUS
  <1>3. f[Len(ops)].bal[b] = f[0].bal[b]
    BY <1>1, <1>2, Untouched
  <1>4. f[0].bal = bal
    BY <1>1 DEF Runs, Start
  <1> QED BY <1>1, <1>3, <1>4

\* A balance that one operation of the batch is on.
LEMMA OneOperation ==
  ASSUME NEW ops, ops \in Seq(Ops), bal \in [Balances -> Records], ~Batch(ops).refused,
         NEW j \in 1..Len(ops), NEW b \in Balances, ops[j].b = b,
         \A i \in 1..Len(ops) : i # j => ops[i].b # b
  PROVE  ~Refused(ops[j], bal[b]) /\ Batch(ops).bal[b] = Applied(ops[j], bal[b])
  <1>1. PICK f : Runs(f, ops) /\ Batch(ops) = f[Len(ops)]
    BY BatchRuns
  <1> DEFINE N == Len(ops)
  <1>2. N \in Nat /\ 0 \in 0..N /\ j \in 0..N /\ N \in j..N /\ j - 1 \in 0..N /\ ~f[N].refused
    BY <1>1
  <1>3. f[j - 1].bal[b] = f[0].bal[b]
    <2>1. \A i \in (0 + 1)..(j - 1) : ops[i].b # b
      BY <1>2
    <2> QED BY <1>1, <1>2, <2>1, Untouched
  <1>4. f[N].bal[b] = f[j].bal[b]
    <2>1. \A i \in (j + 1)..N : ops[i].b # b
      BY <1>2
    <2> QED BY <1>1, <1>2, <2>1, Untouched
  <1>5. ~Refused(ops[j], f[j - 1].bal[b]) /\ f[j].bal[b] = Applied(ops[j], f[j - 1].bal[b])
    BY <1>1, <1>2, Touched
  <1>6. f[0].bal = bal
    BY <1>1 DEF Runs, Start
  <1> QED BY <1>1, <1>3, <1>4, <1>5, <1>6

\* A balance that the first two operations are on, a double entry.
LEMMA TwoOperations ==
  ASSUME NEW ops, ops \in Seq(Ops), bal \in [Balances -> Records], ~Batch(ops).refused, Len(ops) >= 2,
         NEW b \in Balances, ops[1].b = b, ops[2].b = b, \A i \in 3..Len(ops) : ops[i].b # b
  PROVE  /\ ~Refused(ops[1], bal[b])
         /\ ~Refused(ops[2], Applied(ops[1], bal[b]))
         /\ Batch(ops).bal[b] = Applied(ops[2], Applied(ops[1], bal[b]))
  <1>1. PICK f : Runs(f, ops) /\ Batch(ops) = f[Len(ops)]
    BY BatchRuns
  <1> DEFINE N == Len(ops)
  <1>2. N \in Nat /\ 1 \in 1..N /\ 2 \in 1..N /\ 2 \in 0..N /\ N \in 2..N /\ 1 - 1 = 0 /\ 2 - 1 = 1 /\ ~f[N].refused
    BY <1>1
  <1>3. f[N].bal[b] = f[2].bal[b]
    <2>1. \A i \in (2 + 1)..N : ops[i].b # b
      OBVIOUS
    <2> QED BY <1>1, <1>2, <2>1, Untouched
  <1>4. ~Refused(ops[1], f[0].bal[b]) /\ f[1].bal[b] = Applied(ops[1], f[0].bal[b])
    BY <1>1, <1>2, Touched
  <1>5. ~Refused(ops[2], f[1].bal[b]) /\ f[2].bal[b] = Applied(ops[2], f[1].bal[b])
    BY <1>1, <1>2, Touched
  <1>6. f[0].bal = bal
    BY <1>1 DEF Runs, Start
  <1> QED BY <1>1, <1>3, <1>4, <1>5, <1>6

\* The script returns balances, and the operations that changed them.
LEMMA BatchTyped ==
  ASSUME NEW ops, ops \in Seq(Ops), bal \in [Balances -> Records]
  PROVE  Batch(ops) \in ScriptStates
  <1>1. PICK f : Runs(f, ops) /\ Batch(ops) = f[Len(ops)]
    BY BatchRuns
  <1>2. Len(ops) \in 0..Len(ops)
    OBVIOUS
  <1> QED BY <1>1, <1>2 DEF Runs

-----------------------------------------------------------------------------
(* The operations of a request *)

Stages == {"CREATED", "PENDING", "APPROVED", "CANCELED"}

RequestSet ==
    [stage : Stages, routes : BOOLEAN, cached : BOOLEAN, from : Records, to : Records,
     allows : SUBSET Overdrafted]

\* The stage of a request is one its transaction can take from its status.
Typed ==
    /\ bal \in [Balances -> Records]
    /\ status \in [Transactions -> {"new", "rejected", "CREATED", "PENDING", "APPROVED", "CANCELED"}]
    /\ request \in [Transactions -> {Idle} \cup RequestSet]
    /\ overdrawn \in [Transactions -> Nat]
    /\ settings \in [Overdrafted -> [AllowOverdraft : BOOLEAN, OverdraftLimit : Nat]]
    /\ \A t \in Transactions : status[t] = "PENDING" => t \in Pending
    /\ \A t \in Transactions : request[t] # Idle =>
         /\ request[t].stage \in StagesOf(t)
         /\ request[t].stage = "CREATED" => ~request[t].routes

\* Every balance is the default or the companion of an account.
LEMMA BalancesAre ==
  /\ \A a \in Accounts : Default(a) \in Balances /\ Default(a)[1] = a /\ Default(a)[2] = "default"
  /\ \A a \in Overdrafted : Companion(a) \in Balances /\ Companion(a)[1] = a /\ Companion(a)[2] = "overdraft" /\ a \in Accounts
  /\ \A b \in Balances : \/ \E a \in Accounts : b = Default(a)
                         \/ \E a \in Overdrafted : b = Companion(a)
  BY TransfersAssumption DEF Balances, Default, Companion

\* What a request under way looks like.
LEMMA RequestIs ==
  ASSUME Typed, NEW t \in Transactions, request[t] # Idle
  PROVE  /\ request[t] \in RequestSet /\ request[t].stage \in Stages /\ request[t].routes \in BOOLEAN
         /\ request[t].cached \in BOOLEAN /\ request[t].from \in Records /\ request[t].to \in Records
         /\ request[t].allows \subseteq Overdrafted
         /\ request[t].stage \in StagesOf(t)
         /\ request[t].stage = "CREATED" => ~request[t].routes
         /\ overdrawn[t] \in Nat /\ Amount[t] \in Nat /\ Amount[t] > 0
         /\ From[t] \in Accounts /\ To[t] \in Accounts /\ From[t] # To[t]
         /\ request[t].stage = "CREATED" <=> t \notin Pending
  <1>1. request[t] \in RequestSet
    BY DEF Typed
  <1>2. request[t].stage \in StagesOf(t) /\ (request[t].stage = "CREATED" => ~request[t].routes)
        /\ overdrawn[t] \in Nat /\ (status[t] = "PENDING" => t \in Pending)
    BY DEF Typed
  <1>3. Amount[t] \in Nat /\ Amount[t] > 0 /\ From[t] \in Accounts /\ To[t] \in Accounts /\ From[t] # To[t]
    BY TransfersAssumption
  <1>4. /\ request[t].stage \in Stages /\ request[t].routes \in BOOLEAN
        /\ request[t].cached \in BOOLEAN /\ request[t].from \in Records /\ request[t].to \in Records
        /\ request[t].allows \subseteq Overdrafted
    BY <1>1 DEF RequestSet
  <1>5. request[t].stage = "CREATED" <=> t \notin Pending
    BY <1>2, Zenon DEF StagesOf
  <1> QED BY <1>1, <1>2, <1>3, <1>4, <1>5, Zenon

SourceOp(t, op, last) ==
    [Operation(t, op, TRUE) EXCEPT !.overdraft = IF request[t].cached /\ last THEN overdrawn[t] ELSE 0]

DestinationOp(t) == Operation(t, "CREDIT", FALSE)

\* Route validation makes two operations of a hold and of a cancel.
Double(t) == request[t].routes /\ request[t].stage \in {"PENDING", "CANCELED"}

FirstName(t) ==
    IF request[t].stage = "CREATED" THEN "DEBIT"
    ELSE IF request[t].stage = "PENDING" THEN IF request[t].routes THEN "DEBIT" ELSE "ON_HOLD"
    ELSE IF request[t].stage = "APPROVED" THEN IF request[t].routes THEN "ON_HOLD" ELSE "DEBIT"
    ELSE "RELEASE"

First(t) == SourceOp(t, FirstName(t), ~Double(t))

Second(t) == SourceOp(t, IF request[t].stage = "PENDING" THEN "ON_HOLD" ELSE "CREDIT", TRUE)

\* The fields of an operation on the source.
LEMMA SourceOpIs ==
  ASSUME Typed, NEW t \in Transactions, request[t] # Idle,
         NEW op \in {"DEBIT", "CREDIT", "ON_HOLD", "RELEASE"}, NEW last \in BOOLEAN
  PROVE  LET o == SourceOp(t, op, last) IN
         /\ o \in Ops /\ o.b = Default(From[t]) /\ o.op = op /\ o.amount = Amount[t]
         /\ o.read = request[t].from /\ (o.allowed <=> From[t] \in request[t].allows)
         /\ o.stage = request[t].stage /\ (o.pending <=> t \in Pending) /\ (o.routes <=> request[t].routes)
         /\ o.overdraft = IF request[t].cached /\ last THEN overdrawn[t] ELSE 0
  <1> DEFINE r == request[t]
             over == IF r.cached /\ last THEN overdrawn[t] ELSE 0
             o == [b |-> Default(From[t]), op |-> op, amount |-> Amount[t], read |-> r.from,
                   allowed |-> From[t] \in r.allows, stage |-> r.stage, pending |-> t \in Pending,
                   routes |-> r.routes /\ TRUE, overdraft |-> over]
  <1>1. SourceOp(t, op, last) = o
    BY DEF SourceOp, Operation
  <1>2. r.stage \in Stages /\ r.routes \in BOOLEAN /\ r.from \in Records /\ overdrawn[t] \in Nat /\ Amount[t] \in Nat
        /\ From[t] \in Accounts
    BY RequestIs
  <1>3. Default(From[t]) \in Balances
    BY <1>2, BalancesAre
  <1>4. over \in Int
    BY <1>2
  <1> HIDE DEF over, r
  <1>5. (r.routes /\ TRUE) \in BOOLEAN /\ (From[t] \in r.allows) \in BOOLEAN /\ (t \in Pending) \in BOOLEAN
    BY <1>2
  <1>6. o \in Ops
    BY <1>2, <1>3, <1>4, <1>5, Zenon DEF Ops, Stages
  <1>7. /\ o.b = Default(From[t]) /\ o.op = op /\ o.amount = Amount[t]
        /\ o.read = r.from /\ (o.allowed <=> From[t] \in r.allows)
        /\ o.stage = r.stage /\ (o.pending <=> t \in Pending) /\ (o.routes <=> r.routes)
        /\ o.overdraft = over
    BY Zenon
  <1> QED BY <1>1, <1>6, <1>7, Zenon DEF over, r

\* The fields of the operation on the destination.
LEMMA DestinationOpIs ==
  ASSUME Typed, NEW t \in Transactions, request[t] # Idle
  PROVE  LET o == DestinationOp(t) IN
         /\ o \in Ops /\ o.b = Default(To[t]) /\ o.op = "CREDIT" /\ o.amount = Amount[t]
         /\ o.read = request[t].to /\ (o.allowed <=> To[t] \in request[t].allows)
         /\ o.stage = request[t].stage /\ (o.pending <=> t \in Pending) /\ ~o.routes /\ o.overdraft = 0
  <1> DEFINE r == request[t]
             o == [b |-> Default(To[t]), op |-> "CREDIT", amount |-> Amount[t], read |-> r.to,
                   allowed |-> To[t] \in r.allows, stage |-> r.stage, pending |-> t \in Pending,
                   routes |-> r.routes /\ FALSE, overdraft |-> 0]
  <1>1. DestinationOp(t) = o
    BY Zenon DEF DestinationOp, Operation
  <1>2. r.stage \in Stages /\ r.routes \in BOOLEAN /\ r.to \in Records /\ Amount[t] \in Nat /\ To[t] \in Accounts
    BY RequestIs
  <1>3. Default(To[t]) \in Balances
    BY <1>2, BalancesAre
  <1> HIDE DEF r
  <1>4. (r.routes /\ FALSE) \in BOOLEAN /\ (To[t] \in r.allows) \in BOOLEAN /\ (t \in Pending) \in BOOLEAN
    OBVIOUS
  <1>5. o \in Ops
    BY <1>2, <1>3, <1>4, SMTT(20) DEF Ops, Stages
  <1>6. /\ o.b = Default(To[t]) /\ o.op = "CREDIT" /\ o.amount = Amount[t]
        /\ o.read = r.to /\ (o.allowed <=> To[t] \in r.allows)
        /\ o.stage = r.stage /\ (o.pending <=> t \in Pending) /\ ~o.routes /\ o.overdraft = 0
    BY Zenon
  <1> QED BY <1>1, <1>5, <1>6, Zenon DEF r

\* A sequence with one more element.
LEMMA OneMore ==
  ASSUME NEW X, NEW s \in Seq(X), NEW x \in X
  PROVE  /\ s \o <<x>> \in Seq(X) /\ Len(s \o <<x>>) = Len(s) + 1
         /\ \A i \in 1..Len(s) : (s \o <<x>>)[i] = s[i]
         /\ (s \o <<x>>)[Len(s) + 1] = x
  OBVIOUS

\* buildBalanceOperations: one or two operations on the source, then one on the destination.
LEMMA BuildIs ==
  ASSUME Typed, NEW t \in Transactions, request[t] # Idle
  PROVE  LET B == BuildBalanceOperations(t) IN
         /\ B \in Seq(Ops) /\ B[1] = First(t)
         /\ ~Double(t) => Len(B) = 2 /\ B[2] = DestinationOp(t)
         /\ Double(t) => Len(B) = 3 /\ B[2] = Second(t) /\ B[3] = DestinationOp(t)
  <1> DEFINE r == request[t]
             names == SourceOperations(r.stage, r.routes)
             source == [i \in 1..Len(names) |->
                          [Operation(t, names[i], TRUE) EXCEPT
                             !.overdraft = IF r.cached /\ i = Len(names) THEN overdrawn[t] ELSE 0]]
             d == DestinationOp(t)
  <1>1. BuildBalanceOperations(t) = source \o <<d>>
    BY DEF BuildBalanceOperations, DestinationOp
  <1>2. r.stage \in Stages /\ r.routes \in BOOLEAN /\ (r.stage = "CREATED" => ~r.routes)
    BY RequestIs
  <1>3. d \in Ops
    BY DestinationOpIs
  <1>4. CASE ~Double(t)
    <2>1. names = <<FirstName(t)>>
      BY <1>2, <1>4 DEF SourceOperations, FirstName, Double, Stages
    <2>2. Len(names) = 1 /\ names[1] = FirstName(t)
      BY <2>1
    <2>3. source[1] = First(t)
      <3>1. source[1] = [Operation(t, names[1], TRUE) EXCEPT
                           !.overdraft = IF r.cached /\ 1 = Len(names) THEN overdrawn[t] ELSE 0]
        <4>1. 1 \in 1..Len(names)
          BY <2>2
        <4> HIDE DEF names
        <4> QED BY <4>1, Zenon
      <3>2. (IF r.cached /\ 1 = Len(names) THEN overdrawn[t] ELSE 0)
            = (IF request[t].cached /\ ~Double(t) THEN overdrawn[t] ELSE 0)
        BY <1>4, <2>2
      <3> HIDE DEF source, names
      <3> QED BY <2>2, <3>1, <3>2, Zenon DEF First, SourceOp
    <2>4. First(t) \in Ops
      <3>1. FirstName(t) \in {"DEBIT", "CREDIT", "ON_HOLD", "RELEASE"} /\ (~Double(t)) \in BOOLEAN
        BY DEF FirstName
      <3> QED BY <3>1, SourceOpIs, Zenon DEF First
    <2>5. source \in Seq(Ops) /\ Len(source) = 1
      <3>1. \A i \in 1..1 : source[i] \in Ops
        <4> HIDE DEF source
        <4> QED BY <2>3, <2>4
      <3>2. source = [i \in 1..1 |-> source[i]]
        BY <2>2
      <3> HIDE DEF source
      <3> QED BY <3>1, <3>2
    <2> HIDE DEF source, d, names, r
    <2> DEFINE B == BuildBalanceOperations(t)
    <2>6. B \in Seq(Ops) /\ Len(B) = Len(source) + 1 /\ B[Len(source) + 1] = d
          /\ \A i \in 1..Len(source) : B[i] = source[i]
      <3> DEFINE C == source \o <<d>>
      <3>1. C \in Seq(Ops) /\ Len(C) = Len(source) + 1 /\ C[Len(source) + 1] = d
            /\ \A i \in 1..Len(source) : C[i] = source[i]
        <4>1. source \in Seq(Ops)
          BY <2>5
        <4>2. d \in Ops
          BY <1>3
        <4>3. C \in Seq(Ops) /\ Len(C) = Len(source) + 1
          BY <4>1, <4>2, OneMore
        <4>4. C[Len(source) + 1] = d
          BY <4>1, <4>2, OneMore
        <4>5. \A i \in 1..Len(source) : C[i] = source[i]
          BY <4>1, <4>2, OneMore
        <4> QED BY <4>3, <4>4, <4>5
      <3> HIDE DEF C
      <3>2. B = C
        BY <1>1 DEF C
      <3> QED BY <3>1, <3>2, Zenon
    <2>7. Len(B) = 2 /\ B[1] = source[1] /\ B[2] = d
      BY <2>5, <2>6
    <2> QED BY <1>4, <2>3, <2>6, <2>7, Zenon DEF d
  <1>5. CASE Double(t)
    <2> DEFINE second == IF r.stage = "PENDING" THEN "ON_HOLD" ELSE "CREDIT"
    <2>1. names = <<FirstName(t), second>>
      BY <1>2, <1>5 DEF SourceOperations, FirstName, Double, Stages
    <2>2. Len(names) = 2 /\ names[1] = FirstName(t) /\ names[2] = second
      BY <2>1
    <2>3. source[1] = First(t) /\ source[2] = Second(t)
      <3>1. /\ source[1] = [Operation(t, names[1], TRUE) EXCEPT
                              !.overdraft = IF r.cached /\ 1 = Len(names) THEN overdrawn[t] ELSE 0]
            /\ source[2] = [Operation(t, names[2], TRUE) EXCEPT
                              !.overdraft = IF r.cached /\ 2 = Len(names) THEN overdrawn[t] ELSE 0]
        <4>1. 1 \in 1..Len(names) /\ 2 \in 1..Len(names)
          BY <2>2
        <4> HIDE DEF names
        <4> QED BY <4>1, Zenon
      <3>2. /\ (IF r.cached /\ 1 = Len(names) THEN overdrawn[t] ELSE 0)
               = (IF request[t].cached /\ ~Double(t) THEN overdrawn[t] ELSE 0)
            /\ (IF r.cached /\ 2 = Len(names) THEN overdrawn[t] ELSE 0)
               = (IF request[t].cached /\ TRUE THEN overdrawn[t] ELSE 0)
        BY <1>5, <2>2
      <3> HIDE DEF source, names
      <3>3. source[1] = First(t)
        BY <2>2, <3>1, <3>2, Zenon DEF First, SourceOp
      <3>4. source[2] = Second(t)
        BY <2>2, <3>1, <3>2, Zenon DEF Second, SourceOp
      <3> QED BY <3>3, <3>4
    <2>4. First(t) \in Ops /\ Second(t) \in Ops
      <3>1. FirstName(t) \in {"DEBIT", "CREDIT", "ON_HOLD", "RELEASE"} /\ (~Double(t)) \in BOOLEAN
            /\ second \in {"DEBIT", "CREDIT", "ON_HOLD", "RELEASE"}
        BY DEF FirstName
      <3> QED BY <3>1, SourceOpIs, Zenon DEF First, Second
    <2>5. source \in Seq(Ops) /\ Len(source) = 2
      <3>1. \A i \in 1..2 : source[i] \in Ops
        <4> HIDE DEF source
        <4> QED BY <2>3, <2>4
      <3>2. source = [i \in 1..2 |-> source[i]]
        BY <2>2
      <3> HIDE DEF source
      <3> QED BY <3>1, <3>2
    <2> HIDE DEF source, d, names, r
    <2> DEFINE B == BuildBalanceOperations(t)
    <2>6. B \in Seq(Ops) /\ Len(B) = Len(source) + 1 /\ B[Len(source) + 1] = d
          /\ \A i \in 1..Len(source) : B[i] = source[i]
      <3> DEFINE C == source \o <<d>>
      <3>1. C \in Seq(Ops) /\ Len(C) = Len(source) + 1 /\ C[Len(source) + 1] = d
            /\ \A i \in 1..Len(source) : C[i] = source[i]
        <4>1. source \in Seq(Ops)
          BY <2>5
        <4>2. d \in Ops
          BY <1>3
        <4>3. C \in Seq(Ops) /\ Len(C) = Len(source) + 1
          BY <4>1, <4>2, OneMore
        <4>4. C[Len(source) + 1] = d
          BY <4>1, <4>2, OneMore
        <4>5. \A i \in 1..Len(source) : C[i] = source[i]
          BY <4>1, <4>2, OneMore
        <4> QED BY <4>3, <4>4, <4>5
      <3> HIDE DEF C
      <3>2. B = C
        BY <1>1 DEF C
      <3> QED BY <3>1, <3>2, Zenon
    <2>7. Len(B) = 3 /\ B[1] = source[1] /\ B[2] = source[2] /\ B[3] = d
      BY <2>5, <2>6
    <2> QED BY <1>5, <2>3, <2>6, <2>7, Zenon DEF d
  <1> QED BY <1>4, <1>5

HasCompanion(o) == DebitSplit(o) > 0 \/ CreditSplit(o) > 0

CompanionOp(o) ==
    [o EXCEPT !.b = Companion(o.b[1]),
              !.op = IF DebitSplit(o) > 0 THEN "DEBIT" ELSE "CREDIT",
              !.amount = IF DebitSplit(o) > 0 THEN DebitSplit(o) ELSE CreditSplit(o),
              !.overdraft = 0]

\* The overdraft split of an operation, by the balance the request has read.
LEMMA SplitsAre ==
  ASSUME NEW o \in Ops
  PROVE  /\ DebitSplit(o) \in Nat /\ CreditSplit(o) \in Nat
         /\ DebitSplit(o) > 0 => o.allowed /\ DebitSplit(o) = o.amount - o.read.Available
         /\ CreditSplit(o) > 0 => /\ o.b[1] \in Overdrafted
                                  /\ CreditSplit(o) = Least(o.amount, o.read.OverdraftUsed, o.overdraft)
  <1>1. o.amount \in Nat /\ o.read \in Records /\ o.overdraft \in Int
    BY DEF Ops
  <1>2. o.read.Available \in Int /\ o.read.OverdraftUsed \in Nat
    BY <1>1 DEF Records
  <1>3. DebitSplit(o) \in Nat /\ (DebitSplit(o) > 0 => o.allowed /\ DebitSplit(o) = o.amount - o.read.Available)
    BY <1>1, <1>2 DEF DebitSplit
  <1>4. Least(o.amount, o.read.OverdraftUsed, o.overdraft) \in Nat
    BY <1>1, <1>2, LeastBounds, Zenon
  <1>5. \/ CreditSplit(o) = 0
        \/ o.b[1] \in Overdrafted /\ CreditSplit(o) = Least(o.amount, o.read.OverdraftUsed, o.overdraft)
    BY DEF CreditSplit, Least
  <1> QED BY <1>3, <1>4, <1>5

\* An operation has at most one companion operation, with the split amount.
LEMMA CompanionIs ==
  ASSUME NEW o \in Ops, o.allowed => o.b[1] \in Overdrafted
  PROVE  /\ HasCompanion(o) => CompanionOperations(o) = <<CompanionOp(o)>>
         /\ ~HasCompanion(o) => CompanionOperations(o) = <<>>
         /\ HasCompanion(o) => LET c == CompanionOp(o) IN
              /\ c \in Ops /\ o.b[1] \in Overdrafted /\ c.b = Companion(o.b[1])
              /\ c.op = IF DebitSplit(o) > 0 THEN "DEBIT" ELSE "CREDIT"
              /\ c.amount = IF DebitSplit(o) > 0 THEN DebitSplit(o) ELSE CreditSplit(o)
              /\ c.stage = o.stage /\ c.pending = o.pending
  <1> DEFINE amount == IF DebitSplit(o) > 0 THEN DebitSplit(o) ELSE CreditSplit(o)
             op == IF DebitSplit(o) > 0 THEN "DEBIT" ELSE "CREDIT"
             owner == Companion(o.b[1])
             c == [b |-> owner, op |-> op, amount |-> amount, read |-> o.read, allowed |-> o.allowed,
                   stage |-> o.stage, pending |-> o.pending, routes |-> o.routes, overdraft |-> 0]
  <1>1. DebitSplit(o) \in Nat /\ CreditSplit(o) \in Nat
    BY SplitsAre
  <1>2. HasCompanion(o) => o.b[1] \in Overdrafted
    BY SplitsAre DEF HasCompanion
  <1>3. CompanionOperations(o) = IF HasCompanion(o) THEN <<CompanionOp(o)>> ELSE <<>>
    <2>1. CASE DebitSplit(o) > 0
      BY <2>1 DEF CompanionOperations, HasCompanion, CompanionOp
    <2>2. CASE ~(DebitSplit(o) > 0) /\ CreditSplit(o) > 0
      BY <2>2 DEF CompanionOperations, HasCompanion, CompanionOp
    <2>3. CASE ~HasCompanion(o)
      BY <2>3 DEF CompanionOperations, HasCompanion
    <2> QED BY <2>1, <2>2, <2>3 DEF HasCompanion
  <1>4. CompanionOp(o) = c
    <2> HIDE DEF amount, op, owner
    <2>1. CompanionOp(o) = [o EXCEPT !.b = owner, !.op = op, !.amount = amount, !.overdraft = 0]
      BY Zenon DEF CompanionOp, amount, op, owner
    <2> QED BY <2>1, Zenon DEF Ops
  <1>5. amount \in Nat /\ op \in {"DEBIT", "CREDIT", "ON_HOLD", "RELEASE"}
    BY <1>1
  <1>6. HasCompanion(o) => owner \in Balances
    BY <1>2, BalancesAre
  <1> HIDE DEF amount, op, owner
  <1>7. HasCompanion(o) => c \in Ops
    BY <1>5, <1>6 DEF Ops
  <1>8. c.b = owner /\ c.op = op /\ c.amount = amount /\ c.stage = o.stage /\ c.pending = o.pending
    OBVIOUS
  <1> HIDE DEF c
  <1> QED BY <1>2, <1>3, <1>4, <1>7, <1>8 DEF amount, op, owner

\* The source operation that a companion may be derived from.
Main(t) == IF Double(t) /\ request[t].stage = "CANCELED" THEN Second(t) ELSE First(t)

\* The operations of source and destination, by their fields.
LEMMA RequestOps ==
  ASSUME Typed, NEW t \in Transactions, request[t] # Idle
  PROVE  /\ First(t) \in Ops /\ Second(t) \in Ops /\ Main(t) \in Ops /\ DestinationOp(t) \in Ops
         /\ First(t).b = Default(From[t]) /\ Second(t).b = Default(From[t]) /\ Main(t).b = Default(From[t])
         /\ DestinationOp(t).b = Default(To[t])
         /\ \A o \in {First(t), Second(t), Main(t), DestinationOp(t)} : o.allowed => o.b[1] \in Overdrafted
  <1>1. FirstName(t) \in {"DEBIT", "CREDIT", "ON_HOLD", "RELEASE"} /\ (~Double(t)) \in BOOLEAN
        /\ (IF request[t].stage = "PENDING" THEN "ON_HOLD" ELSE "CREDIT") \in {"DEBIT", "CREDIT", "ON_HOLD", "RELEASE"}
    BY DEF FirstName
  <1>2. /\ First(t) \in Ops /\ First(t).b = Default(From[t]) /\ (First(t).allowed <=> From[t] \in request[t].allows)
        /\ Second(t) \in Ops /\ Second(t).b = Default(From[t]) /\ (Second(t).allowed <=> From[t] \in request[t].allows)
    <2>1. ASSUME NEW op \in {"DEBIT", "CREDIT", "ON_HOLD", "RELEASE"}, NEW last \in BOOLEAN
          PROVE  /\ SourceOp(t, op, last) \in Ops /\ SourceOp(t, op, last).b = Default(From[t])
                 /\ (SourceOp(t, op, last).allowed <=> From[t] \in request[t].allows)
      BY SourceOpIs
    <2> QED BY <1>1, <2>1, Zenon DEF First, Second
  <1>3. /\ DestinationOp(t) \in Ops /\ DestinationOp(t).b = Default(To[t])
        /\ (DestinationOp(t).allowed <=> To[t] \in request[t].allows)
    BY DestinationOpIs, Zenon
  <1>4. request[t].allows \subseteq Overdrafted /\ From[t] \in Accounts /\ To[t] \in Accounts
    BY RequestIs, Zenon
  <1>5. Default(From[t])[1] = From[t] /\ Default(To[t])[1] = To[t]
    BY <1>4, BalancesAre
  <1>6. Main(t) \in {First(t), Second(t)}
    BY DEF Main
  <1> QED BY <1>2, <1>3, <1>4, <1>5, <1>6

\* The fields of the first operation on the source.
LEMMA FirstIs ==
  ASSUME Typed, NEW t \in Transactions, request[t] # Idle
  PROVE  /\ First(t).op = FirstName(t) /\ First(t).amount = Amount[t] /\ First(t).read = request[t].from
         /\ (First(t).allowed <=> From[t] \in request[t].allows) /\ First(t).stage = request[t].stage
         /\ (First(t).pending <=> t \in Pending) /\ (First(t).routes <=> request[t].routes)
         /\ First(t).overdraft = IF request[t].cached /\ ~Double(t) THEN overdrawn[t] ELSE 0
  <1>1. FirstName(t) \in {"DEBIT", "CREDIT", "ON_HOLD", "RELEASE"} /\ (~Double(t)) \in BOOLEAN
    BY DEF FirstName
  <1>2. ASSUME NEW op \in {"DEBIT", "CREDIT", "ON_HOLD", "RELEASE"}, NEW last \in BOOLEAN
        PROVE  LET o == SourceOp(t, op, last) IN
               /\ o.op = op /\ o.amount = Amount[t] /\ o.read = request[t].from
               /\ (o.allowed <=> From[t] \in request[t].allows) /\ o.stage = request[t].stage
               /\ (o.pending <=> t \in Pending) /\ (o.routes <=> request[t].routes)
               /\ o.overdraft = IF request[t].cached /\ last THEN overdrawn[t] ELSE 0
    BY SourceOpIs
  <1> QED BY <1>1, <1>2, Zenon DEF First

\* The fields of the second half of a double entry.
LEMMA SecondIs ==
  ASSUME Typed, NEW t \in Transactions, request[t] # Idle
  PROVE  /\ Second(t).op = (IF request[t].stage = "PENDING" THEN "ON_HOLD" ELSE "CREDIT")
         /\ Second(t).amount = Amount[t] /\ Second(t).read = request[t].from
         /\ (Second(t).allowed <=> From[t] \in request[t].allows) /\ Second(t).stage = request[t].stage
         /\ (Second(t).pending <=> t \in Pending) /\ (Second(t).routes <=> request[t].routes)
         /\ Second(t).overdraft = IF request[t].cached THEN overdrawn[t] ELSE 0
  <1>1. (IF request[t].stage = "PENDING" THEN "ON_HOLD" ELSE "CREDIT") \in {"DEBIT", "CREDIT", "ON_HOLD", "RELEASE"}
        /\ TRUE \in BOOLEAN
    BY Zenon
  <1>2. ASSUME NEW op \in {"DEBIT", "CREDIT", "ON_HOLD", "RELEASE"}, NEW last \in BOOLEAN
        PROVE  LET o == SourceOp(t, op, last) IN
               /\ o.op = op /\ o.amount = Amount[t] /\ o.read = request[t].from
               /\ (o.allowed <=> From[t] \in request[t].allows) /\ o.stage = request[t].stage
               /\ (o.pending <=> t \in Pending) /\ (o.routes <=> request[t].routes)
               /\ o.overdraft = IF request[t].cached /\ last THEN overdrawn[t] ELSE 0
    BY SourceOpIs
  <1> QED BY <1>1, <1>2, Zenon DEF Second

\* The other half of a double entry has no companion.
LEMMA OnlyMainHasCompanion ==
  ASSUME Typed, NEW t \in Transactions, request[t] # Idle, Double(t)
  PROVE  /\ request[t].stage = "PENDING" => ~HasCompanion(Second(t))
         /\ request[t].stage = "CANCELED" => ~HasCompanion(First(t))
  <1>1. request[t].routes /\ request[t].stage \in {"PENDING", "CANCELED"}
    BY Zenon DEF Double
  <1>2. request[t].stage = "PENDING" => ~HasCompanion(Second(t))
    BY <1>1, SecondIs DEF HasCompanion, DebitSplit, CreditSplit
  <1>3. request[t].stage = "CANCELED" => ~HasCompanion(First(t))
    BY <1>1, FirstIs DEF HasCompanion, DebitSplit, CreditSplit, FirstName
  <1> QED BY <1>2, <1>3

\* What a concatenation contains.
LEMMA Concatenation ==
  ASSUME NEW X, NEW s \in Seq(X), NEW u \in Seq(X)
  PROVE  /\ s \o u \in Seq(X) /\ Len(s \o u) = Len(s) + Len(u)
         /\ \A i \in 1..Len(s) : (s \o u)[i] = s[i]
         /\ \A i \in 1..Len(u) : (s \o u)[Len(s) + i] = u[i]
         /\ s \o <<>> = s /\ <<>> \o s = s
  OBVIOUS

\* Two sequences of one element.
LEMMA TwoOnes ==
  ASSUME NEW x, NEW y
  PROVE  <<x>> \o <<y>> = <<x, y>>
  <1> DEFINE s == <<x>>
             u == <<y>>
             w == <<x, y>>
  <1>1. s \in Seq({x, y}) /\ Len(s) = 1 /\ s[1] = x
    OBVIOUS
  <1>2. u \in Seq({x, y}) /\ Len(u) = 1 /\ u[1] = y
    OBVIOUS
  <1>3. w \in Seq({x, y}) /\ Len(w) = 2 /\ w[1] = x /\ w[2] = y
    OBVIOUS
  <1> DEFINE X == {x, y}
  <1> HIDE DEF s, u, w, X
  <1>8. /\ s \o u \in Seq(X) /\ Len(s \o u) = Len(s) + Len(u)
        /\ \A i \in 1..Len(s) : (s \o u)[i] = s[i]
        /\ \A i \in 1..Len(u) : (s \o u)[Len(s) + i] = u[i]
    <2>1. s \in Seq(X) /\ u \in Seq(X)
      BY <1>1, <1>2, Zenon DEF X
    <2> QED BY <2>1, Concatenation
  <1>4. s \o u \in Seq({x, y}) /\ Len(s \o u) = 2
    <2>1. s \o u \in Seq({x, y}) /\ Len(s \o u) = Len(s) + Len(u)
      BY <1>8, Zenon DEF X
    <2>2. Len(s) + Len(u) = 2
      BY <1>1, <1>2
    <2> QED BY <2>1, <2>2, Zenon
  <1>5. (s \o u)[1] = x /\ (s \o u)[2] = y
    <2>1. 1 \in 1..Len(s) /\ 1 \in 1..Len(u) /\ Len(s) + 1 = 2
      BY <1>1, <1>2
    <2>2. (s \o u)[1] = s[1] /\ (s \o u)[Len(s) + 1] = u[1]
      BY <1>8, <2>1, Zenon
    <2>3. (s \o u)[2] = u[1]
      BY <2>1, <2>2, Zenon
    <2> QED BY <1>1, <1>2, <2>2, <2>3, Zenon
  <1> DEFINE v == s \o u
  <1> HIDE DEF v
  <1>6. v \in Seq({x, y}) /\ Len(v) = 2 /\ v[1] = x /\ v[2] = y
    BY <1>4, <1>5 DEF v
  <1>7. v = w
    BY <1>3, <1>6
  <1> QED BY <1>7, Zenon DEF v, s, u, w

\* enrichOverdraftOperations: the companions of source and destination follow the operations.
LEMMA EnrichIs ==
  ASSUME Typed, NEW t \in Transactions, request[t] # Idle, request[t].stage # "APPROVED"
  PROVE  EnrichOverdraftOperations(t)
           = BuildBalanceOperations(t) \o (CompanionOperations(Main(t)) \o CompanionOperations(DestinationOp(t)))
  <1> DEFINE B == BuildBalanceOperations(t)
             C(o) == CompanionOperations(o)
             seqs == [i \in 1..Len(B) |-> C(B[i])]
  <1>1. EnrichOverdraftOperations(t) = B \o Joined(seqs)
    BY DEF EnrichOverdraftOperations
  <1>2. /\ C(First(t)) \in Seq(Ops) /\ C(Second(t)) \in Seq(Ops) /\ C(DestinationOp(t)) \in Seq(Ops)
        /\ ~HasCompanion(First(t)) => C(First(t)) = <<>>
        /\ ~HasCompanion(Second(t)) => C(Second(t)) = <<>>
    <2>1. ASSUME NEW o \in {First(t), Second(t), DestinationOp(t)}
          PROVE  C(o) \in Seq(Ops) /\ (~HasCompanion(o) => C(o) = <<>>)
      <3>1. o \in Ops /\ (o.allowed => o.b[1] \in Overdrafted)
        BY RequestOps, Zenon
      <3>2. CASE HasCompanion(o)
        <4>1. C(o) = <<CompanionOp(o)>> /\ CompanionOp(o) \in Ops
          BY <3>1, <3>2, CompanionIs
        <4> QED BY <3>2, <4>1
      <3>3. CASE ~HasCompanion(o)
        <4>1. C(o) = <<>>
          BY <3>1, <3>3, CompanionIs
        <4> QED BY <4>1
      <3> QED BY <3>2, <3>3
    <2> HIDE DEF C
    <2> QED BY <2>1
  <1>3. CASE ~Double(t)
    <2>1. Len(B) = 2 /\ B[1] = First(t) /\ B[2] = DestinationOp(t) /\ Main(t) = First(t)
      BY <1>3, BuildIs, Zenon DEF Main
    <2> HIDE DEF B, C
    <2>2. seqs = <<C(First(t)), C(DestinationOp(t))>>
      BY <2>1
    <2>3. seqs \in Seq(Seq(Ops)) /\ Len(seqs) = 2 /\ seqs[1] = C(First(t)) /\ seqs[2] = C(DestinationOp(t))
      <3> HIDE DEF seqs
      <3> QED BY <1>2, <2>2
    <2> HIDE DEF seqs
    <2>4. Joined(seqs) = seqs[1] \o seqs[2]
      BY <2>3, JoinedSeq, Zenon
    <2> QED BY <1>1, <2>1, <2>3, <2>4, Zenon DEF B, C
  <1>4. CASE Double(t)
    <2>1. Len(B) = 3 /\ B[1] = First(t) /\ B[2] = Second(t) /\ B[3] = DestinationOp(t)
      BY <1>4, BuildIs
    <2> HIDE DEF B, C
    <2>2. seqs = <<C(First(t)), C(Second(t)), C(DestinationOp(t))>>
      BY <2>1
    <2>3. seqs \in Seq(Seq(Ops)) /\ Len(seqs) = 3
          /\ seqs[1] = C(First(t)) /\ seqs[2] = C(Second(t)) /\ seqs[3] = C(DestinationOp(t))
      <3> HIDE DEF seqs
      <3> QED BY <1>2, <2>2
    <2> HIDE DEF seqs
    <2>4. Joined(seqs) = (seqs[1] \o seqs[2]) \o seqs[3]
      BY <2>3, JoinedSeq, Zenon
    <2>5. seqs[1] \o seqs[2] = C(Main(t))
      <3>1. request[t].stage \in {"PENDING", "CANCELED"}
        BY <1>4 DEF Double
      <3>2. CASE request[t].stage = "PENDING"
        <4>1. seqs[2] = <<>> /\ Main(t) = First(t)
          BY <1>2, <2>3, <3>2, <1>4, OnlyMainHasCompanion DEF Main
        <4>2. C(First(t)) \o <<>> = C(First(t))
          BY <1>2, Concatenation
        <4> QED BY <2>3, <4>1, <4>2, Zenon
      <3>3. CASE request[t].stage = "CANCELED"
        <4>1. seqs[1] = <<>> /\ Main(t) = Second(t)
          BY <1>2, <2>3, <3>3, <1>4, OnlyMainHasCompanion, Zenon DEF Main
        <4>2. <<>> \o C(Second(t)) = C(Second(t))
          BY <1>2, Concatenation, Zenon
        <4> QED BY <2>3, <4>1, <4>2, Zenon
      <3> QED BY <3>1, <3>2, <3>3, Zenon
    <2> QED BY <1>1, <2>3, <2>4, <2>5, Zenon DEF B, C
  <1> QED BY <1>3, <1>4

SourceSplit(t) == request[t].stage # "APPROVED" /\ HasCompanion(Main(t))

DestinationSplit(t) == request[t].stage # "APPROVED" /\ HasCompanion(DestinationOp(t))

\* Behind the operations on source and destination there are only companions,
\* at most one for each.
LEMMA OperationsAre ==
  ASSUME Typed, NEW t \in Transactions, request[t] # Idle
  PROVE  LET ops == EnrichOverdraftOperations(t)
             K == IF Double(t) THEN 3 ELSE 2
         IN
         /\ ops \in Seq(Ops) /\ Len(ops) >= K
         /\ ops[1] = First(t) /\ ops[K] = DestinationOp(t) /\ (Double(t) => ops[2] = Second(t))
         /\ SourceSplit(t) => Len(ops) > K /\ ops[K + 1] = CompanionOp(Main(t))
         /\ DestinationSplit(t) => Len(ops) > K /\ ops[Len(ops)] = CompanionOp(DestinationOp(t))
         /\ \A i \in (K + 1)..Len(ops) :
              \/ SourceSplit(t) /\ i = K + 1 /\ ops[i] = CompanionOp(Main(t))
              \/ DestinationSplit(t) /\ i = Len(ops) /\ ops[i] = CompanionOp(DestinationOp(t))
  <1> DEFINE ops == EnrichOverdraftOperations(t)
             K == IF Double(t) THEN 3 ELSE 2
             B == BuildBalanceOperations(t)
             m == CompanionOp(Main(t))
             d == CompanionOp(DestinationOp(t))
  <1>1. /\ B \in Seq(Ops) /\ Len(B) = K /\ B[1] = First(t) /\ B[K] = DestinationOp(t)
        /\ (Double(t) => B[2] = Second(t))
    <2>1. CASE Double(t)
      BY <2>1, BuildIs, Zenon
    <2>2. CASE ~Double(t)
      BY <2>2, BuildIs
    <2> QED BY <2>1, <2>2, Zenon
  <1>2. K \in {2, 3}
    OBVIOUS
  <1>3. CASE request[t].stage = "APPROVED"
    <2>1. ops = B /\ ~SourceSplit(t) /\ ~DestinationSplit(t)
      BY <1>3 DEF EnrichOverdraftOperations, SourceSplit, DestinationSplit
    <2> HIDE DEF B, K, ops
    <2>2. ops \in Seq(Ops) /\ Len(ops) = K /\ ops[1] = First(t) /\ ops[K] = DestinationOp(t)
          /\ (Double(t) => ops[2] = Second(t))
      BY <1>1, <2>1, Zenon
    <2>3. Len(ops) >= K /\ \A i \in (K + 1)..Len(ops) : FALSE
      BY <1>2, <2>2
    <2> QED BY <2>1, <2>2, <2>3, Zenon DEF ops, K
  <1>4. CASE request[t].stage # "APPROVED"
    <2> DEFINE cm == CompanionOperations(Main(t))
               cd == CompanionOperations(DestinationOp(t))
               E == cm \o cd
    <2>1. ops = B \o E
      BY <1>4, EnrichIs, Zenon
    <2>2. /\ SourceSplit(t) => m \in Ops /\ cm = <<m>>
          /\ ~SourceSplit(t) => cm = <<>>
      <3>1. Main(t) \in Ops /\ (Main(t).allowed => Main(t).b[1] \in Overdrafted)
        BY RequestOps, Zenon
      <3> QED BY <1>4, <3>1, CompanionIs DEF SourceSplit
    <2>3. /\ DestinationSplit(t) => d \in Ops /\ cd = <<d>>
          /\ ~DestinationSplit(t) => cd = <<>>
      <3>1. DestinationOp(t) \in Ops /\ (DestinationOp(t).allowed => DestinationOp(t).b[1] \in Overdrafted)
        BY RequestOps, Zenon
      <3> QED BY <1>4, <3>1, CompanionIs DEF DestinationSplit
    <2> HIDE DEF B, K, ops, cm, cd, m, d
    <2>4. /\ E \in Seq(Ops)
          /\ SourceSplit(t) => Len(E) >= 1 /\ E[1] = m
          /\ DestinationSplit(t) => Len(E) >= 1 /\ E[Len(E)] = d
          /\ \A i \in 1..Len(E) : \/ SourceSplit(t) /\ i = 1 /\ E[i] = m
                                  \/ DestinationSplit(t) /\ i = Len(E) /\ E[i] = d
      <3>1. CASE SourceSplit(t) /\ DestinationSplit(t)
        <4>1. E = <<m, d>> /\ m \in Ops /\ d \in Ops
          <5>1. m \in Ops /\ cm = <<m>> /\ d \in Ops /\ cd = <<d>>
            BY <2>2, <2>3, <3>1
          <5>2. <<m>> \o <<d>> = <<m, d>>
            BY TwoOnes
          <5> QED BY <5>1, <5>2
        <4> HIDE DEF E
        <4> QED BY <3>1, <4>1
      <3>2. CASE SourceSplit(t) /\ ~DestinationSplit(t)
        <4>1. E = <<m>> /\ m \in Ops
          <5>1. m \in Ops /\ cm = <<m>> /\ cd = <<>>
            BY <2>2, <2>3, <3>2
          <5>2. <<m>> \in Seq(Ops)
            BY <5>1
          <5>3. <<m>> \o <<>> = <<m>>
            BY <5>2, Concatenation
          <5> QED BY <5>1, <5>3
        <4> HIDE DEF E
        <4> QED BY <3>2, <4>1
      <3>3. CASE ~SourceSplit(t) /\ DestinationSplit(t)
        <4>1. E = <<d>> /\ d \in Ops
          <5>1. d \in Ops /\ cm = <<>> /\ cd = <<d>>
            BY <2>2, <2>3, <3>3, Zenon
          <5>2. <<d>> \in Seq(Ops)
            BY <5>1
          <5>3. <<>> \o <<d>> = <<d>>
            BY <5>2, Concatenation
          <5> QED BY <5>1, <5>3
        <4> HIDE DEF E
        <4> QED BY <3>3, <4>1
      <3>4. CASE ~SourceSplit(t) /\ ~DestinationSplit(t)
        <4>1. E = <<>>
          <5>1. cm = <<>> /\ cd = <<>>
            BY <2>2, <2>3, <3>4, Zenon
          <5>2. <<>> \in Seq(Ops)
            OBVIOUS
          <5>3. <<>> \o <<>> = <<>>
            BY <5>2, Concatenation, Zenon
          <5> QED BY <5>1, <5>3
        <4> HIDE DEF E
        <4> QED BY <3>4, <4>1
      <3> QED BY <3>1, <3>2, <3>3, <3>4, Zenon
    <2> HIDE DEF E
    <2>5. ops \in Seq(Ops) /\ Len(ops) = K + Len(E) /\ Len(E) \in Nat
      BY <1>1, <1>2, <2>1, <2>4, Concatenation
    <2>6. \A i \in 1..K : ops[i] = B[i]
      BY <1>1, <1>2, <2>1, <2>4, Concatenation, Zenon
    <2>7. \A i \in 1..Len(E) : ops[K + i] = E[i]
      BY <1>1, <1>2, <2>1, <2>4, Concatenation
    <2>8. ops[1] = First(t) /\ ops[K] = DestinationOp(t) /\ (Double(t) => ops[2] = Second(t))
      BY <1>1, <1>2, <2>6
    <2>9. SourceSplit(t) => Len(ops) > K /\ ops[K + 1] = m
      BY <1>2, <2>4, <2>5, <2>7
    <2>10. DestinationSplit(t) => Len(ops) > K /\ ops[Len(ops)] = d
      <3>1. DestinationSplit(t) => Len(E) \in 1..Len(E)
        BY <2>4, <2>5
      <3> QED BY <1>2, <2>4, <2>5, <2>7, <3>1
    <2>11. ASSUME NEW i \in (K + 1)..Len(ops)
           PROVE  \/ SourceSplit(t) /\ i = K + 1 /\ ops[i] = m
                  \/ DestinationSplit(t) /\ i = Len(ops) /\ ops[i] = d
      <3>1. i - K \in 1..Len(E) /\ K + (i - K) = i /\ (i - K = 1 => i = K + 1) /\ (i - K = Len(E) => i = Len(ops))
        BY <1>2, <2>5
      <3>2. ops[i] = E[i - K]
        BY <2>7, <3>1
      <3> QED BY <2>4, <3>1, <3>2, Zenon
    <2>12. Len(ops) >= K
      BY <1>2, <2>5
    <2> QED BY <2>5, <2>8, <2>9, <2>10, <2>11, <2>12, Zenon DEF ops, K, m, d
  <1> QED BY <1>3, <1>4, Zenon

\* Different names are different balances.
LEMMA BalancesDiffer ==
  ASSUME NEW a, NEW c
  PROVE  /\ Default(a) # Companion(c)
         /\ Default(a) = Default(c) => a = c
         /\ Companion(a) = Companion(c) => a = c
  BY DEF Default, Companion

\* What a batch that is not refused does to each balance.
LEMMA ScriptEffect ==
  ASSUME Typed, NEW t \in Transactions, request[t] # Idle,
         NEW out, out = Batch(EnrichOverdraftOperations(t)), ~out.refused
  PROVE  LET src == bal[Default(From[t])]
             dst == bal[Default(To[t])]
         IN
         /\ out.bal \in [Balances -> Records]
         /\ ~Refused(First(t), src)
         /\ ~Double(t) => out.bal[Default(From[t])] = Applied(First(t), src)
         /\ Double(t) => /\ ~Refused(Second(t), Applied(First(t), src))
                         /\ out.bal[Default(From[t])] = Applied(Second(t), Applied(First(t), src))
         /\ ~Refused(DestinationOp(t), dst)
         /\ out.bal[Default(To[t])] = Applied(DestinationOp(t), dst)
         /\ \A a \in Accounts \ {From[t], To[t]} : out.bal[Default(a)] = bal[Default(a)]
         /\ SourceSplit(t) =>
              /\ ~Refused(CompanionOp(Main(t)), bal[Companion(From[t])])
              /\ out.bal[Companion(From[t])] = Applied(CompanionOp(Main(t)), bal[Companion(From[t])])
         /\ DestinationSplit(t) =>
              /\ ~Refused(CompanionOp(DestinationOp(t)), bal[Companion(To[t])])
              /\ out.bal[Companion(To[t])] = Applied(CompanionOp(DestinationOp(t)), bal[Companion(To[t])])
         /\ \A a \in Overdrafted :
              (a = From[t] => ~SourceSplit(t)) /\ (a = To[t] => ~DestinationSplit(t))
              => out.bal[Companion(a)] = bal[Companion(a)]
  <1> DEFINE ops == EnrichOverdraftOperations(t)
             K == IF Double(t) THEN 3 ELSE 2
             N == Len(ops)
             DF == Default(From[t])
             DT == Default(To[t])
             CF == Companion(From[t])
             CT == Companion(To[t])
  <1>1. /\ ops \in Seq(Ops) /\ N >= K
        /\ ops[1] = First(t) /\ ops[K] = DestinationOp(t) /\ (Double(t) => ops[2] = Second(t))
        /\ SourceSplit(t) => N > K /\ ops[K + 1] = CompanionOp(Main(t))
        /\ DestinationSplit(t) => N > K /\ ops[N] = CompanionOp(DestinationOp(t))
        /\ \A i \in (K + 1)..N :
              \/ SourceSplit(t) /\ i = K + 1 /\ ops[i] = CompanionOp(Main(t))
              \/ DestinationSplit(t) /\ i = N /\ ops[i] = CompanionOp(DestinationOp(t))
    BY OperationsAre, Zenon
  <1>2. N \in Nat /\ bal \in [Balances -> Records]
    BY <1>1 DEF Typed
  <1>3. First(t).b = DF /\ Second(t).b = DF /\ DestinationOp(t).b = DT
    BY RequestOps, Zenon
  <1>4. From[t] \in Accounts /\ To[t] \in Accounts /\ From[t] # To[t]
    BY RequestIs, Zenon
  <1>5. DF \in Balances /\ DT \in Balances /\ DF[1] = From[t] /\ DT[1] = To[t]
    BY <1>4, BalancesAre, Zenon
  <1>6. SourceSplit(t) => CompanionOp(Main(t)).b = CF /\ CF \in Balances
    <2>1. Main(t) \in Ops /\ Main(t).b = DF /\ (Main(t).allowed => Main(t).b[1] \in Overdrafted)
      BY RequestOps, Zenon
    <2>2. HasCompanion(Main(t)) => From[t] \in Overdrafted /\ CompanionOp(Main(t)).b = CF
      BY <1>5, <2>1, CompanionIs
    <2> QED BY <2>2, BalancesAre DEF SourceSplit
  <1>7. DestinationSplit(t) => CompanionOp(DestinationOp(t)).b = CT /\ CT \in Balances
    <2>1. DestinationOp(t) \in Ops /\ (DestinationOp(t).allowed => DestinationOp(t).b[1] \in Overdrafted)
      BY RequestOps, Zenon
    <2>2. HasCompanion(DestinationOp(t)) => To[t] \in Overdrafted /\ CompanionOp(DestinationOp(t)).b = CT
      BY <1>3, <1>5, <2>1, CompanionIs
    <2> QED BY <2>2, BalancesAre DEF DestinationSplit
  <1>8. DF # DT /\ DF # CF /\ DF # CT /\ DT # CF /\ DT # CT /\ CF # CT
    BY <1>4, BalancesDiffer
  <1> HIDE DEF ops, DF, DT, CF, CT
  <1>9. ASSUME NEW i \in 1..N
        PROVE  /\ i < K => ops[i].b = DF
               /\ i = K => ops[i].b = DT
               /\ i > K => \/ SourceSplit(t) /\ i = K + 1 /\ ops[i].b = CF
                           \/ DestinationSplit(t) /\ i = N /\ ops[i].b = CT
    <2>1. i < K => ops[i].b = DF
      <3>1. i < K => i = 1 \/ (i = 2 /\ Double(t))
        BY <1>2
      <3> QED BY <1>1, <1>3, <3>1, Zenon
    <2>2. i = K => ops[i].b = DT
      BY <1>1, <1>3, Zenon
    <2>3. i > K => i \in (K + 1)..N
      BY <1>2
    <2> QED BY <1>1, <1>6, <1>7, <2>1, <2>2, <2>3, Zenon
  <1>10. K \in {2, 3} /\ 1 \in 1..N /\ K \in 1..N /\ (Double(t) => K = 3) /\ (~Double(t) => K = 2)
    BY <1>1, <1>2
  <1> HIDE DEF K, N
  <1>11. out.bal \in [Balances -> Records] /\ ~Batch(ops).refused /\ out = Batch(ops)
    <2>1. out = Batch(ops)
      BY Zenon DEF ops
    <2> QED BY <1>1, <1>2, <2>1, BatchTyped, Zenon DEF ScriptStates
  <1>12. ~Refused(First(t), bal[DF]) /\ (~Double(t) => out.bal[DF] = Applied(First(t), bal[DF]))
         /\ (Double(t) => /\ ~Refused(Second(t), Applied(First(t), bal[DF]))
                          /\ out.bal[DF] = Applied(Second(t), Applied(First(t), bal[DF])))
    <2>1. CASE Double(t)
      <3>1. N >= 2 /\ ops[1].b = DF /\ ops[2].b = DF /\ \A i \in 3..N : ops[i].b # DF
        <4>1. ops[1].b = DF /\ ops[2].b = DF
          BY <1>1, <1>3, <2>1, Zenon
        <4>2. N >= 2 /\ \A i \in 3..N : i \in 1..N /\ (i = K \/ i > K)
          BY <1>2, <1>10, <2>1
        <4> QED BY <1>8, <1>9, <4>1, <4>2, Zenon
      <3> QED BY <1>1, <1>2, <1>5, <1>11, <2>1, <3>1, TwoOperations DEF N
    <2>2. CASE ~Double(t)
      <3>1. ops[1].b = DF /\ \A i \in 1..N : i # 1 => ops[i].b # DF
        <4>1. \A i \in 1..N : i # 1 => i = K \/ i > K
          BY <1>2, <1>10, <2>2
        <4> QED BY <1>1, <1>3, <1>8, <1>9, <4>1, Zenon
      <3>2. ~Refused(ops[1], bal[DF]) /\ Batch(ops).bal[DF] = Applied(ops[1], bal[DF])
        BY <1>1, <1>2, <1>5, <1>10, <1>11, <3>1, OneOperation, Zenon DEF N
      <3> QED BY <1>1, <1>11, <2>2, <3>2, Zenon
    <2> QED BY <2>1, <2>2, Zenon
  <1>13. ~Refused(DestinationOp(t), bal[DT]) /\ out.bal[DT] = Applied(DestinationOp(t), bal[DT])
    <2>1. ops[K].b = DT /\ \A i \in 1..N : i # K => ops[i].b # DT
      <3>1. \A i \in 1..N : i # K => i < K \/ i > K
        BY <1>2, <1>10
      <3> QED BY <1>8, <1>9, <1>10, <3>1, Zenon
    <2>2. ~Refused(ops[K], bal[DT]) /\ Batch(ops).bal[DT] = Applied(ops[K], bal[DT])
      BY <1>1, <1>2, <1>5, <1>10, <1>11, <2>1, OneOperation, Zenon DEF N
    <2> QED BY <1>1, <1>11, <2>2, Zenon
  <1>14. ASSUME NEW a \in Accounts \ {From[t], To[t]} PROVE out.bal[Default(a)] = bal[Default(a)]
    <2>1. Default(a) \in Balances /\ Default(a) # DF /\ Default(a) # DT /\ Default(a) # CF /\ Default(a) # CT
      BY BalancesAre, BalancesDiffer DEF DF, DT, CF, CT
    <2>2. \A i \in 1..N : ops[i].b # Default(a)
      <3>1. \A i \in 1..N : i < K \/ i = K \/ i > K
        BY <1>2, <1>10
      <3> QED BY <1>9, <2>1, <3>1, Zenon
    <2> QED BY <1>1, <1>2, <1>11, <2>1, <2>2, NoOperation DEF N
  <1>15. ASSUME SourceSplit(t)
         PROVE  /\ ~Refused(CompanionOp(Main(t)), bal[CF])
                /\ out.bal[CF] = Applied(CompanionOp(Main(t)), bal[CF])
    <2>1. K + 1 \in 1..N /\ ops[K + 1] = CompanionOp(Main(t))
      BY <1>1, <1>2, <1>10, <1>15
    <2>2. \A i \in 1..N : i # K + 1 => ops[i].b # CF
      <3>1. \A i \in 1..N : i < K \/ i = K \/ i > K
        BY <1>2, <1>10
      <3> QED BY <1>8, <1>9, <3>1, Zenon
    <2>3. ops[K + 1].b = CF /\ CF \in Balances
      BY <1>6, <1>15, <2>1, Zenon
    <2>4. ~Refused(ops[K + 1], bal[CF]) /\ Batch(ops).bal[CF] = Applied(ops[K + 1], bal[CF])
      BY <1>1, <1>2, <1>11, <2>1, <2>2, <2>3, OneOperation, Zenon DEF N
    <2> QED BY <1>11, <2>1, <2>4, Zenon
  <1>16. ASSUME DestinationSplit(t)
         PROVE  /\ ~Refused(CompanionOp(DestinationOp(t)), bal[CT])
                /\ out.bal[CT] = Applied(CompanionOp(DestinationOp(t)), bal[CT])
    <2>1. N \in 1..N /\ ops[N] = CompanionOp(DestinationOp(t))
      BY <1>1, <1>2, <1>10, <1>16
    <2>2. \A i \in 1..N : i # N => ops[i].b # CT
      <3>1. \A i \in 1..N : i < K \/ i = K \/ i > K
        BY <1>2, <1>10
      <3> QED BY <1>8, <1>9, <3>1, Zenon
    <2>3. ops[N].b = CT /\ CT \in Balances
      BY <1>7, <1>16, <2>1, Zenon
    <2>4. ~Refused(ops[N], bal[CT]) /\ Batch(ops).bal[CT] = Applied(ops[N], bal[CT])
      BY <1>1, <1>2, <1>11, <2>1, <2>2, <2>3, OneOperation, Zenon DEF N
    <2> QED BY <1>11, <2>1, <2>4, Zenon
  <1>17. ASSUME NEW a \in Overdrafted, a = From[t] => ~SourceSplit(t), a = To[t] => ~DestinationSplit(t)
         PROVE  out.bal[Companion(a)] = bal[Companion(a)]
    <2>1. /\ Companion(a) \in Balances /\ Companion(a) # DF /\ Companion(a) # DT
          /\ Companion(a) = CF => a = From[t]
          /\ Companion(a) = CT => a = To[t]
      BY BalancesAre, BalancesDiffer DEF DF, DT, CF, CT
    <2>2. \A i \in 1..N : ops[i].b # Companion(a)
      <3>1. \A i \in 1..N : i < K \/ i = K \/ i > K
        BY <1>2, <1>10
      <3> QED BY <1>9, <1>17, <2>1, <3>1, Zenon
    <2> QED BY <1>1, <1>2, <1>11, <2>1, <2>2, NoOperation DEF N
  <1> QED BY <1>11, <1>12, <1>13, <1>14, <1>15, <1>16, <1>17, Zenon DEF DF, DT, CF, CT

-----------------------------------------------------------------------------
(* Effects on an account *)

Worth(b) == b.Available + b.OnHold - b.OverdraftUsed

\* Only an external account is negative, only an account with a companion
\* uses overdraft.
Solvent(a, b) ==
    /\ a \notin External => b.Available >= 0
    /\ a \notin Overdrafted => b.OverdraftUsed = 0

Newer(b, c) == b.Version <= c.Version /\ (b.Version = c.Version => b = c)

WithinLimit(a, b, c) ==
    c.OverdraftUsed > b.OverdraftUsed => Allows(a) /\ c.OverdraftUsed <= settings[a].OverdraftLimit

\* What an operation on a default balance does to it when it is not refused.
LEMMA OperationEffect ==
  ASSUME NEW o \in Ops, NEW b \in Records, NEW a \in Accounts, o.b = Default(a), ~Refused(o, b), Solvent(a, b),
         Typed, NEW c, c = Applied(o, b)
  PROVE  /\ c \in Records /\ Solvent(a, c) /\ Newer(b, c) /\ WithinLimit(a, b, c)
         /\ c.OnHold = b.OnHold + Held(o)
         /\ Repayment(o, b) = 0 \/ Given(o) = o.amount => Worth(c) = Worth(b) + Given(o) + Held(o)
         /\ Short(o, b) \/ c.OverdraftUsed = b.OverdraftUsed - Repayment(o, b)
  <1>1. o.b[1] = a /\ o.b[2] = "default"
    BY BalancesAre, Zenon
  <1>2. /\ c \in Records
        /\ c.Available = IF Short(o, b) THEN 0 ELSE Result(o, b)
        /\ c.OnHold = b.OnHold + Held(o)
        /\ c.OverdraftUsed = b.OverdraftUsed - (IF Short(o, b) THEN Result(o, b) ELSE Repayment(o, b))
        /\ c.Version = (IF c = b THEN b.Version ELSE b.Version + 1)
    BY AppliedFields, Zenon
  <1>3. /\ Repayment(o, b) \in Nat /\ Repayment(o, b) <= o.amount /\ Repayment(o, b) <= b.OverdraftUsed
        /\ Given(o) \in Int /\ Held(o) \in Int /\ Result(o, b) \in Int
        /\ Result(o, b) = b.Available + Given(o) - Repayment(o, b)
    BY <1>1, RepaymentBounds, ResultIs, Zenon
  <1>4. b.Available \in Int /\ b.OnHold \in Int /\ b.OverdraftUsed \in Nat /\ b.Version \in Nat
    BY Zenon DEF Records
  <1>5. Short(o, b) <=> Result(o, b) < 0 /\ a \notin External
    BY <1>1, Zenon DEF Short
  <1>6. Short(o, b) => Allows(a) /\ b.OverdraftUsed - Result(o, b) <= settings[a].OverdraftLimit
    <2>1. Short(o, b) => MayOverdraw(o) /\ ~(b.OverdraftUsed - Result(o, b) > settings[a].OverdraftLimit)
      BY <1>1, Zenon DEF Refused
    <2>2. Short(o, b) => Allows(a)
      BY <1>1, <2>1, Zenon DEF MayOverdraw
    <2>3. Allows(a) => settings[a].OverdraftLimit \in Int
      BY DEF Typed, Allows
    <2> QED BY <1>3, <1>4, <2>1, <2>2, <2>3
  <1>7. Allows(a) => a \in Overdrafted
    BY DEF Allows
  <1>8. o.amount \in Nat
    BY Zenon DEF Ops
  <1>9. Solvent(a, c)
    BY <1>2, <1>3, <1>4, <1>5, <1>6, <1>7 DEF Solvent
  <1>10. Newer(b, c)
    BY <1>2, <1>4 DEF Newer
  <1>11. WithinLimit(a, b, c)
    BY <1>2, <1>3, <1>4, <1>6 DEF WithinLimit
  <1>12. ASSUME Repayment(o, b) = 0 \/ Given(o) = o.amount PROVE Worth(c) = Worth(b) + Given(o) + Held(o)
    <2>1. CASE Short(o, b)
      <3>1. b.Available >= 0 /\ Result(o, b) < 0
        BY <1>5, <2>1, Zenon DEF Solvent
      <3>2. Repayment(o, b) = 0
        BY <1>3, <1>4, <1>8, <1>12, <3>1
      <3> QED BY <1>2, <1>3, <1>4, <2>1, <3>2 DEF Worth
    <2>2. CASE ~Short(o, b)
      BY <1>2, <1>3, <1>4, <2>2 DEF Worth
    <2> QED BY <2>1, <2>2, Zenon
  <1> QED BY <1>2, <1>9, <1>10, <1>11, <1>12, Zenon

\* What the operations of a request move, by its stage.
LEMMA FirstMoves ==
  ASSUME Typed, NEW t \in Transactions, request[t] # Idle
  PROVE  LET o == First(t)
             A == Amount[t]
             stage == request[t].stage
         IN
         /\ stage = "CREATED" => Given(o) = -A /\ Held(o) = 0
         /\ stage = "PENDING" => Given(o) = -A /\ Held(o) = IF Double(t) THEN 0 ELSE A
         /\ stage = "APPROVED" => Given(o) = 0 /\ Held(o) = -A
         /\ stage = "CANCELED" => Given(o) = (IF Double(t) THEN 0 ELSE A) /\ Held(o) = -A
         /\ \A b \in Records : Repays(o, b) => stage = "CANCELED" /\ ~Double(t) /\ o.overdraft > 0
  <1> DEFINE o == First(t)
             A == Amount[t]
             r == request[t]
  <1>1. /\ o.op = FirstName(t) /\ o.amount = A /\ o.stage = r.stage
        /\ (o.pending <=> t \in Pending) /\ (o.routes <=> r.routes)
    BY FirstIs, Zenon
  <1>2. o.b[2] = "default"
    BY RequestOps, RequestIs, BalancesAre
  <1>3. /\ r.stage \in Stages /\ A \in Nat /\ (r.stage = "CREATED" => ~r.routes)
        /\ (r.stage = "CREATED" <=> t \notin Pending)
    BY RequestIs, Zenon
  <1>4. Double(t) <=> r.routes /\ r.stage \in {"PENDING", "CANCELED"}
    BY Zenon DEF Double
  <1> HIDE DEF o, A, r
  <1>5. /\ Takes(o) <=> r.stage \in {"CREATED", "PENDING"}
        /\ Gives(o) <=> r.stage = "CANCELED" /\ ~Double(t)
        /\ Holds(o) <=> r.stage = "PENDING" /\ ~Double(t)
        /\ Releases(o) <=> r.stage \in {"APPROVED", "CANCELED"}
    BY <1>1, <1>2, <1>3, <1>4, Zenon DEF Takes, Gives, Holds, Releases, FirstName, Stages, r
  <1>6. \A b \in Records : Repays(o, b) => r.stage = "CANCELED" /\ ~Double(t) /\ o.overdraft > 0
    BY <1>1, <1>3, <1>4, Zenon DEF Repays, FirstName, Stages, r
  <1>7. /\ r.stage = "CREATED" => Given(o) = -A /\ Held(o) = 0
        /\ r.stage = "PENDING" => Given(o) = -A /\ Held(o) = IF Double(t) THEN 0 ELSE A
        /\ r.stage = "APPROVED" => Given(o) = 0 /\ Held(o) = -A
        /\ r.stage = "CANCELED" => Given(o) = (IF Double(t) THEN 0 ELSE A) /\ Held(o) = -A
    BY <1>1, <1>3, <1>5 DEF Given, Held
  <1> QED BY <1>6, <1>7, Zenon DEF o, A, r

\* The second half of a double entry.
LEMMA SecondMoves ==
  ASSUME Typed, NEW t \in Transactions, request[t] # Idle, Double(t)
  PROVE  LET o == Second(t)
             A == Amount[t]
             stage == request[t].stage
         IN
         /\ stage = "PENDING" => Given(o) = 0 /\ Held(o) = A
         /\ stage = "CANCELED" => Given(o) = A /\ Held(o) = 0
         /\ \A b \in Records : Repays(o, b) => stage = "CANCELED"
  <1> DEFINE o == Second(t)
             A == Amount[t]
             r == request[t]
  <1>1. /\ o.op = (IF r.stage = "PENDING" THEN "ON_HOLD" ELSE "CREDIT") /\ o.amount = A /\ o.stage = r.stage
        /\ (o.pending <=> t \in Pending) /\ (o.routes <=> r.routes)
    BY SecondIs, Zenon
  <1>2. o.b[2] = "default"
    BY RequestOps, RequestIs, BalancesAre
  <1>3. A \in Nat /\ (r.stage = "CREATED" <=> t \notin Pending)
    BY RequestIs, Zenon
  <1>4. r.routes /\ r.stage \in {"PENDING", "CANCELED"}
    BY Zenon DEF Double
  <1> HIDE DEF o, A, r
  <1>5. /\ ~Takes(o) /\ ~Releases(o)
        /\ Gives(o) <=> r.stage = "CANCELED"
        /\ Holds(o) <=> r.stage = "PENDING"
    BY <1>1, <1>2, <1>3, <1>4, Zenon DEF Takes, Gives, Holds, Releases
  <1>6. \A b \in Records : Repays(o, b) => r.stage = "CANCELED"
    BY <1>1, <1>4, Zenon DEF Repays
  <1>7. /\ r.stage = "PENDING" => Given(o) = 0 /\ Held(o) = A
        /\ r.stage = "CANCELED" => Given(o) = A /\ Held(o) = 0
    BY <1>1, <1>3, <1>5 DEF Given, Held
  <1> QED BY <1>6, <1>7, Zenon DEF o, A, r

\* The destination, which a hold and a cancel give nothing.
LEMMA DestinationMoves ==
  ASSUME Typed, NEW t \in Transactions, request[t] # Idle
  PROVE  LET o == DestinationOp(t) IN
         /\ Held(o) = 0
         /\ Given(o) = IF request[t].stage \in {"CREATED", "APPROVED"} THEN Amount[t] ELSE 0
         /\ \A b \in Records : Repays(o, b) => b.OverdraftUsed > 0
  <1> DEFINE o == DestinationOp(t)
             A == Amount[t]
             r == request[t]
  <1>1. /\ o.op = "CREDIT" /\ o.amount = A /\ o.stage = r.stage
        /\ (o.pending <=> t \in Pending) /\ ~o.routes
    BY DestinationOpIs, Zenon
  <1>2. o.b[2] = "default"
    BY RequestOps, RequestIs, BalancesAre
  <1>3. A \in Nat /\ r.stage \in Stages /\ (r.stage = "CREATED" <=> t \notin Pending)
    BY RequestIs, Zenon
  <1> HIDE DEF o, A, r
  <1>4. /\ ~Takes(o) /\ ~Releases(o) /\ ~Holds(o)
        /\ Gives(o) <=> r.stage \in {"CREATED", "APPROVED"}
    BY <1>1, <1>2, <1>3, Zenon DEF Takes, Gives, Holds, Releases, Stages
  <1>5. \A b \in Records : Repays(o, b) => b.OverdraftUsed > 0
    BY <1>1, Zenon DEF Repays
  <1>6. Held(o) = 0 /\ Given(o) = IF r.stage \in {"CREATED", "APPROVED"} THEN A ELSE 0
    BY <1>1, <1>3, <1>4, SMTT(20) DEF Given, Held
  <1> QED BY <1>5, <1>6, Zenon DEF o, A, r

\* What a batch that is not refused leaves to the accounts of its request.
LEMMA SourceEffect ==
  ASSUME Typed, NEW t \in Transactions, request[t] # Idle, Solvent(From[t], bal[Default(From[t])]),
         NEW out, out = Batch(EnrichOverdraftOperations(t)), ~out.refused
  PROVE  LET a == From[t]
             b == bal[Default(a)]
             c == out.bal[Default(a)]
             A == Amount[t]
             stage == request[t].stage
         IN
         /\ Solvent(a, c) /\ Newer(b, c) /\ WithinLimit(a, b, c)
         /\ c.OnHold = b.OnHold + (IF stage = "PENDING" THEN A ELSE IF stage = "CREATED" THEN 0 ELSE -A)
         /\ Worth(c) = Worth(b) - (IF stage \in {"CREATED", "APPROVED"} THEN A ELSE 0)
  <1> DEFINE a == From[t]
             b == bal[Default(a)]
             c == out.bal[Default(a)]
             A == Amount[t]
             stage == request[t].stage
             b1 == Applied(First(t), b)
             o1 == First(t)
             o2 == Second(t)
  <1>1. a \in Accounts /\ A \in Nat /\ stage \in Stages
    BY RequestIs, Zenon
  <1>2. b \in Records
    BY <1>1, BalancesAre, Zenon DEF Typed
  <1>3. /\ ~Refused(o1, b) /\ (~Double(t) => c = b1)
        /\ Double(t) => ~Refused(o2, b1) /\ c = Applied(o2, b1)
    BY ScriptEffect, Zenon
  <1>4. o1 \in Ops /\ o1.b = Default(a) /\ o1.amount = A /\ o2 \in Ops /\ o2.b = Default(a) /\ o2.amount = A
    BY RequestOps, FirstIs, SecondIs, Zenon
  <1>5. /\ stage = "CREATED" => Given(o1) = -A /\ Held(o1) = 0
        /\ stage = "PENDING" => Given(o1) = -A /\ Held(o1) = IF Double(t) THEN 0 ELSE A
        /\ stage = "APPROVED" => Given(o1) = 0 /\ Held(o1) = -A
        /\ stage = "CANCELED" => Given(o1) = (IF Double(t) THEN 0 ELSE A) /\ Held(o1) = -A
        /\ Repays(o1, b) => stage = "CANCELED" /\ ~Double(t)
    BY <1>2, FirstMoves, Zenon
  <1>6. ~Repays(o1, b) => Repayment(o1, b) = 0
    BY <1>2, <1>4, RepaymentBounds, Zenon
  <1>7. b.OnHold \in Int /\ Worth(b) \in Int
    BY <1>2, SMTT(20) DEF Records, Worth
  <1> HIDE DEF b1, o1, o2, b, c, A, stage, a
  <1>8. /\ b1 \in Records /\ Solvent(a, b1) /\ Newer(b, b1) /\ WithinLimit(a, b, b1)
        /\ b1.OnHold = b.OnHold + Held(o1)
        /\ Repayment(o1, b) = 0 \/ Given(o1) = o1.amount => Worth(b1) = Worth(b) + Given(o1) + Held(o1)
    <2>1. b1 = Applied(o1, b) /\ Solvent(a, b)
      BY Zenon DEF b1, o1, b, a
    <2> QED BY <1>1, <1>2, <1>3, <1>4, <2>1, OperationEffect, Zenon
  <1>9. Worth(b1) = Worth(b) + Given(o1) + Held(o1)
    BY <1>4, <1>5, <1>6, <1>8, Zenon
  <1>10. CASE ~Double(t)
    <2>1. c = b1
      BY <1>3, <1>10, Zenon
    <2>2. /\ c.OnHold = b.OnHold + (IF stage = "PENDING" THEN A ELSE IF stage = "CREATED" THEN 0 ELSE -A)
          /\ Worth(c) = Worth(b) - (IF stage \in {"CREATED", "APPROVED"} THEN A ELSE 0)
      BY <1>1, <1>5, <1>7, <1>8, <1>9, <1>10, <2>1 DEF Stages
    <2> QED BY <1>8, <2>1, <2>2, Zenon DEF a, b, c, A, stage
  <1>11. CASE Double(t)
    <2>1. c = Applied(o2, b1) /\ ~Refused(o2, b1)
      BY <1>3, <1>11, Zenon
    <2>2. /\ c \in Records /\ Solvent(a, c) /\ Newer(b1, c) /\ WithinLimit(a, b1, c)
          /\ c.OnHold = b1.OnHold + Held(o2)
          /\ Repayment(o2, b1) = 0 \/ Given(o2) = o2.amount => Worth(c) = Worth(b1) + Given(o2) + Held(o2)
      BY <1>1, <1>4, <1>8, <2>1, OperationEffect, Zenon
    <2>3. /\ stage = "PENDING" => Given(o2) = 0 /\ Held(o2) = A
          /\ stage = "CANCELED" => Given(o2) = A /\ Held(o2) = 0
          /\ Repays(o2, b1) => stage = "CANCELED"
          /\ stage \in {"PENDING", "CANCELED"}
      BY <1>8, <1>11, SecondMoves, Zenon DEF o2, A, stage, Double
    <2>4. ~Repays(o2, b1) => Repayment(o2, b1) = 0
      BY <1>4, <1>8, RepaymentBounds, Zenon
    <2>5. Worth(c) = Worth(b1) + Given(o2) + Held(o2)
      BY <1>4, <2>2, <2>3, <2>4, Zenon
    <2>6. /\ c.OnHold = b.OnHold + (IF stage = "PENDING" THEN A ELSE IF stage = "CREATED" THEN 0 ELSE -A)
          /\ Worth(c) = Worth(b) - (IF stage \in {"CREATED", "APPROVED"} THEN A ELSE 0)
      BY <1>1, <1>5, <1>7, <1>8, <1>9, <1>11, <2>2, <2>3, <2>5, SMTT(20)
    <2>7. Newer(b, c)
      BY <1>2, <1>8, <2>2 DEF Newer, Records
    <2>8. WithinLimit(a, b, c)
      <3>1. b.OverdraftUsed \in Nat /\ b1.OverdraftUsed \in Nat /\ c.OverdraftUsed \in Nat
        BY <1>2, <1>8, <2>2, Zenon DEF Records
      <3>2. Allows(a) => settings[a].OverdraftLimit \in Int
        BY DEF Typed, Allows
      <3> QED BY <1>8, <2>2, <3>1, <3>2 DEF WithinLimit
    <2> QED BY <2>2, <2>6, <2>7, <2>8, Zenon DEF a, b, c, A, stage
  <1> QED BY <1>10, <1>11, Zenon

\* A destination only repays overdraft with what it is given, unless it is the
\* destination of a pending transaction.
LEMMA DestinationEffect ==
  ASSUME Typed, NEW t \in Transactions, request[t] # Idle, Solvent(To[t], bal[Default(To[t])]),
         NEW out, out = Batch(EnrichOverdraftOperations(t)), ~out.refused
  PROVE  LET a == To[t]
             b == bal[Default(a)]
             c == out.bal[Default(a)]
         IN
         /\ Solvent(a, c) /\ Newer(b, c) /\ WithinLimit(a, b, c) /\ c.OnHold = b.OnHold
         /\ (t \in Pending => To[t] \notin Overdrafted) =>
              Worth(c) = Worth(b) + (IF request[t].stage \in {"CREATED", "APPROVED"} THEN Amount[t] ELSE 0)
  <1> DEFINE a == To[t]
             b == bal[Default(a)]
             c == out.bal[Default(a)]
             A == Amount[t]
             stage == request[t].stage
             o == DestinationOp(t)
  <1>1. a \in Accounts /\ A \in Nat /\ stage \in Stages /\ (stage = "CREATED" <=> t \notin Pending)
    BY RequestIs, Zenon
  <1>2. b \in Records
    BY <1>1, BalancesAre, Zenon DEF Typed
  <1>3. ~Refused(o, b) /\ c = Applied(o, b)
    BY ScriptEffect, Zenon
  <1>4. o \in Ops /\ o.b = Default(a) /\ o.amount = A
    BY RequestOps, DestinationOpIs, Zenon
  <1>5. Held(o) = 0 /\ Given(o) = (IF stage \in {"CREATED", "APPROVED"} THEN A ELSE 0)
        /\ (Repays(o, b) => b.OverdraftUsed > 0)
    BY <1>2, DestinationMoves, Zenon
  <1>6. ~Repays(o, b) => Repayment(o, b) = 0
    BY <1>2, <1>4, RepaymentBounds, Zenon
  <1>7. b.OnHold \in Int /\ Worth(b) \in Int
    BY <1>2 DEF Records, Worth
  <1>8. Solvent(a, b)
    BY Zenon
  <1> HIDE DEF o, b, c, A, stage, a
  <1>9. /\ c \in Records /\ Solvent(a, c) /\ Newer(b, c) /\ WithinLimit(a, b, c)
        /\ c.OnHold = b.OnHold + Held(o)
        /\ Repayment(o, b) = 0 \/ Given(o) = o.amount => Worth(c) = Worth(b) + Given(o) + Held(o)
    BY <1>1, <1>2, <1>3, <1>4, <1>8, OperationEffect, Zenon
  <1>10. c.OnHold = b.OnHold
    BY <1>5, <1>7, <1>9, SMTT(20)
  <1>11. ASSUME t \in Pending => a \notin Overdrafted
         PROVE  Worth(c) = Worth(b) + (IF stage \in {"CREATED", "APPROVED"} THEN A ELSE 0)
    <2>1. Repayment(o, b) = 0 \/ Given(o) = A
      <3>1. CASE stage = "CREATED"
        BY <1>5, <3>1, Zenon
      <3>2. CASE stage # "CREATED"
        <4>1. b.OverdraftUsed = 0
          BY <1>1, <1>8, <1>11, <3>2, Zenon DEF Solvent
        <4>2. ~(b.OverdraftUsed > 0)
          BY <4>1
        <4> QED BY <1>5, <1>6, <4>2, Zenon
      <3> QED BY <3>1, <3>2, Zenon
    <2> QED BY <1>1, <1>4, <1>5, <1>7, <1>9, <2>1
  <1> QED BY <1>9, <1>10, <1>11, Zenon DEF a, b, c, A, stage

-----------------------------------------------------------------------------
(* The amount recorded for a hold *)

Snapshots == [Available : Int, OnHold : Int, Version : Int]

OperationRecords ==
    [b : Balances, type : {"DEBIT", "CREDIT", "ON_HOLD", "RELEASE"}, amount : Nat,
     before : Snapshots, after : Snapshots]

\* effectiveOperationAmount is no negative amount.
LEMMA EffectiveTyped ==
  ASSUME NEW o \in Ops, NEW b \in Records, NEW c \in Records
  PROVE  EffectiveAmount(o, b, c) \in Nat /\ Distance(b.Available, c.Available) \in Nat
  <1> DEFINE x == Distance(b.Available, c.Available)
             y == Distance(b.OnHold, c.OnHold)
             m == Max({x, y})
  <1>1. b.Available \in Int /\ c.Available \in Int /\ b.OnHold \in Int /\ c.OnHold \in Int /\ o.amount \in Nat
    BY DEF Records, Ops
  <1>2. x \in Nat /\ y \in Nat
    BY <1>1 DEF Distance
  <1> HIDE DEF x, y
  <1>3. \E z \in {x, y} : \A w \in {x, y} : z >= w
    <2>1. CASE x >= y
      BY <1>2, <2>1
    <2>2. CASE y >= x
      BY <1>2, <2>2
    <2> QED BY <1>2, <2>1, <2>2
  <1>4. m \in {x, y}
    BY <1>3 DEF Max
  <1>5. m \in Nat
    BY <1>2, <1>4, Zenon
  <1> HIDE DEF m
  <1>6. Minimum({o.amount, m}) = IF o.amount <= m THEN o.amount ELSE m
    BY <1>1, <1>5, MinimumOfTwo
  <1>7. EffectiveAmount(o, b, c) = Minimum({o.amount, m})
    BY Zenon DEF EffectiveAmount, m, x, y
  <1> QED BY <1>1, <1>2, <1>5, <1>6, <1>7, Zenon DEF x

\* An operation record.
LEMMA RecordTyped ==
  ASSUME NEW o \in Ops, NEW type \in {"DEBIT", "CREDIT", "ON_HOLD", "RELEASE"}, NEW amount \in Nat,
         NEW before \in Snapshots, NEW after \in Snapshots
  PROVE  Record(o, type, amount, before, after) \in OperationRecords
  BY DEF Record, OperationRecords, Ops

\* The balance in a record.
LEMMA SnapshotTyped ==
  /\ \A x, y, z \in Int : /\ Snapshot(x, y, z) \in Snapshots /\ Snapshot(x, y, z).OnHold = y
                          /\ Snapshot(x, y, z).Available = x
  /\ \A b \in Records : SnapshotOf(b) \in Snapshots
  <1>1. \A x, y, z \in Int : /\ Snapshot(x, y, z) \in Snapshots /\ Snapshot(x, y, z).OnHold = y
                             /\ Snapshot(x, y, z).Available = x
    BY DEF Snapshot, Snapshots
  <1>2. ASSUME NEW b \in Records PROVE SnapshotOf(b) \in Snapshots
    <2>1. b.Available \in Int /\ b.OnHold \in Int /\ b.Version \in Int
      BY DEF Records
    <2> QED BY <1>1, <2>1, Zenon DEF SnapshotOf
  <1> QED BY <1>1, <1>2, Zenon

\* Sequences of at most two records.
LEMMA PairTyped ==
  ASSUME NEW X, NEW x \in X, NEW y \in X
  PROVE  <<x>> \in Seq(X) /\ <<x, y>> \in Seq(X) /\ <<>> \in Seq(X)
  OBVIOUS

\* The records of one operation.
LEMMA RecordsTyped ==
  ASSUME NEW o \in Ops, NEW b \in Records, NEW c \in Records
  PROVE  /\ Standard(o, b, c) \in Seq(OperationRecords)
         /\ DoubleEntryPending(o, b, c) \in Seq(OperationRecords)
         /\ DoubleEntryCanceled(o, b, c) \in Seq(OperationRecords)
  <1> DEFINE amount == EffectiveAmount(o, b, c)
             moved == Minimum({amount, Distance(b.Available, c.Available)})
             debited == Snapshot(c.Available, b.OnHold, b.Version + 1)
             released == Snapshot(b.Available, b.OnHold - amount, b.Version + 1)
             credited == Snapshot(b.Available + amount, released.OnHold, b.Version + 2)
  <1>1. amount \in Nat /\ Distance(b.Available, c.Available) \in Nat
    BY EffectiveTyped, Zenon
  <1>2. moved \in Nat
    BY <1>1, MinimumOfTwo
  <1>3. b.Available \in Int /\ b.OnHold \in Int /\ b.Version \in Nat /\ c.Available \in Int
        /\ o.op \in {"DEBIT", "CREDIT", "ON_HOLD", "RELEASE"}
    BY DEF Records, Ops
  <1> HIDE DEF amount, moved
  <1>4. debited \in Snapshots
    BY <1>3, SnapshotTyped
  <1>5. released \in Snapshots /\ released.OnHold \in Int
    <2>1. b.OnHold - amount \in Int /\ b.Version + 1 \in Int
      BY <1>1, <1>3
    <2>2. released \in Snapshots
      BY <1>3, <2>1, SnapshotTyped, Zenon DEF released
    <2> QED BY <2>2 DEF Snapshots
  <1>6. SnapshotOf(b) \in Snapshots /\ SnapshotOf(c) \in Snapshots
    BY SnapshotTyped, Zenon
  <1> HIDE DEF released, debited
  <1>7. credited \in Snapshots
    <2>1. b.Available + amount \in Int /\ b.Version + 2 \in Int
      BY <1>1, <1>3
    <2> QED BY <1>5, <2>1, SnapshotTyped, Zenon
  <1> HIDE DEF credited
  <1>8. Standard(o, b, c) \in Seq(OperationRecords)
    <2>1. Record(o, o.op, amount, SnapshotOf(b), SnapshotOf(c)) \in OperationRecords
      BY <1>1, <1>3, <1>6, RecordTyped, Zenon
    <2>2. Standard(o, b, c) = <<Record(o, o.op, amount, SnapshotOf(b), SnapshotOf(c))>>
      BY Zenon DEF Standard, amount
    <2> QED BY <2>1, <2>2, PairTyped, Zenon
  <1>9. DoubleEntryPending(o, b, c) \in Seq(OperationRecords)
    <2>1. Record(o, "DEBIT", moved, SnapshotOf(b), debited) \in OperationRecords
      BY <1>2, <1>4, <1>6, RecordTyped, Zenon
    <2>2. Record(o, "ON_HOLD", amount, debited, SnapshotOf(c)) \in OperationRecords
      BY <1>1, <1>4, <1>6, RecordTyped, Zenon
    <2>3. DoubleEntryPending(o, b, c) = <<Record(o, "DEBIT", moved, SnapshotOf(b), debited),
                                          Record(o, "ON_HOLD", amount, debited, SnapshotOf(c))>>
      BY Zenon DEF DoubleEntryPending, amount, moved, debited
    <2> QED BY <2>1, <2>2, <2>3, PairTyped, Zenon
  <1>10. DoubleEntryCanceled(o, b, c) \in Seq(OperationRecords)
    <2>1. Record(o, "RELEASE", amount, SnapshotOf(b), released) \in OperationRecords
      BY <1>1, <1>5, <1>6, RecordTyped, Zenon
    <2>2. Record(o, "CREDIT", amount, released, credited) \in OperationRecords
      BY <1>1, <1>5, <1>7, RecordTyped, Zenon
    <2>3. DoubleEntryCanceled(o, b, c) = <<Record(o, "RELEASE", amount, SnapshotOf(b), released),
                                           Record(o, "CREDIT", amount, released, credited)>>
      BY Zenon DEF DoubleEntryCanceled, amount, released, credited
    <2> QED BY <2>1, <2>2, <2>3, PairTyped, Zenon
  <1> QED BY <1>8, <1>9, <1>10, Zenon

\* The overdraft recorded for a hold is a natural number, for any number of records.
LEMMA HeldTyped ==
  ASSUME NEW out \in ScriptStates, NEW grown \in Int
  PROVE  HeldOverdraft(BuildOperations(out), grown) \in Nat
  <1> DEFINE N == Len(out.changes)
             X == OperationRecords
             recs(i) ==
               LET change == out.changes[i]
                   after == out.bal[change.o.b]
               IN  IF Unlisted(change.o) THEN <<>>
                   ELSE IF ~DoubleEntry(change.o) THEN Standard(change.o, change.before, after)
                   ELSE IF \E j \in 1..(i - 1) : out.changes[j].o.b = change.o.b THEN <<>>
                   ELSE IF change.o.stage = "PENDING" THEN DoubleEntryPending(change.o, change.before, after)
                   ELSE DoubleEntryCanceled(change.o, change.before, after)
             seqs == [i \in 1..N |-> recs(i)]
  <1>1. BuildOperations(out) = Joined(seqs)
    BY DEF BuildOperations
  <1>2. out.changes \in Seq([o : Ops, before : Records]) /\ out.bal \in [Balances -> Records] /\ N \in Nat
    BY DEF ScriptStates
  <1>3. ASSUME NEW i \in 1..N PROVE recs(i) \in Seq(X)
    <2> DEFINE o == out.changes[i].o
               b == out.changes[i].before
               c == out.bal[o.b]
    <2>0. out.changes[i] \in [o : Ops, before : Records]
      <3> DEFINE Y == [o : Ops, before : Records]
      <3> HIDE DEF Y, recs
      <3>1. out.changes \in Seq(Y) /\ i \in 1..Len(out.changes)
        BY <1>2 DEF Y
      <3>2. out.changes[i] \in Y
        BY <3>1
      <3> QED BY <3>2 DEF Y
    <2>1. o \in Ops /\ b \in Records
      BY <2>0, Zenon
    <2>2. o.b \in Balances
      BY <2>1, Zenon DEF Ops
    <2>3. c \in Records
      BY <1>2, <2>2, Zenon
    <2> HIDE DEF o, b, c
    <2>4. /\ Standard(o, b, c) \in Seq(X) /\ DoubleEntryPending(o, b, c) \in Seq(X)
          /\ DoubleEntryCanceled(o, b, c) \in Seq(X) /\ <<>> \in Seq(X)
      <3>1. <<>> \in Seq(X)
        OBVIOUS
      <3>2. Standard(o, b, c) \in Seq(X) /\ DoubleEntryPending(o, b, c) \in Seq(X)
            /\ DoubleEntryCanceled(o, b, c) \in Seq(X)
        BY <2>1, <2>3, RecordsTyped, Zenon
      <3> QED BY <3>1, <3>2, Zenon
    <2> HIDE DEF X
    <2> QED BY <2>4, Zenon DEF o, b, c
  <1>4. seqs \in Seq(Seq(X)) /\ Len(seqs) = N
    <2> HIDE DEF recs, N, X
    <2> QED BY <1>2, <1>3
  <1> HIDE DEF seqs
  <1> DEFINE records == BuildOperations(out)
             f == [i \in DOMAIN records |-> records[i].amount]
             S == {i \in DOMAIN records : records[i].b[2] = "overdraft" /\ records[i].type = "DEBIT"}
  <1>5. records \in Seq(X)
    BY <1>1, <1>4, JoinedSeq, Zenon
  <1>6. DOMAIN records = 1..Len(records) /\ Len(records) \in Nat /\ \A i \in 1..Len(records) : records[i] \in X
    BY <1>5
  <1>7. IsFiniteSet(S)
    <2>1. IsFiniteSet(1..Len(records))
      BY <1>6, FS_Interval
    <2> QED BY <1>6, <2>1, FS_Subset
  <1>8. \A i \in S : f[i] \in Nat
    BY <1>6 DEF OperationRecords
  <1> DEFINE debited == SumFunctionOnSet(f, S)
  <1>9. HeldOverdraft(records, grown) = IF debited > 0 THEN debited ELSE IF grown > 0 THEN grown ELSE 0
    BY DEF HeldOverdraft, TotalOf
  <1> HIDE DEF f, S
  <1>10. debited \in Nat
    BY <1>7, <1>8, SumOfNaturals, Zenon
  <1> HIDE DEF debited, records
  <1>11. HeldOverdraft(records, grown) \in Nat
    BY <1>9, <1>10
  <1> QED BY <1>11 DEF records

=============================================================================
