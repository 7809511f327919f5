-------------------------------- MODULE Sums --------------------------------
(***************************************************************************)
(* Sums over finite sets, as the counters need them: what one more or one  *)
(* less element does to SumFunctionOnSet.  The fold is defined through a   *)
(* recursive function that removes chosen elements one at a time; the      *)
(* lemmas are proved by taking a smallest counterexample.                  *)
(***************************************************************************)
EXTENDS Integers, FiniteSets, Functions, FiniteSetTheorems, WellFoundedInduction, TLAPS

\* A nonempty family of subsets of a finite set has a smallest member.
LEMMA SmallestSubset ==
  ASSUME NEW S, IsFiniteSet(S), NEW B \in SUBSET SUBSET S, B # {}
  PROVE  \E s \in B : \A r \in B : r \subseteq s => r = s
  <1>1. IsWellFoundedOn(StrictSubsetOrdering(S), FiniteSubsetsOf(S)) /\ FiniteSubsetsOf(S) = SUBSET S
    BY FS_StrictSubsetOrderingWellFounded, FS_FiniteSubsetsOfFinite
  <1>2. PICK s \in B : \A r \in B : ~(<<r, s>> \in StrictSubsetOrdering(S))
    BY <1>1, WFMin
  <1>3. ASSUME NEW r \in B, r \subseteq s, r # s PROVE FALSE
    <2>1. <<r, s>> \in StrictSubsetOrdering(S)
      BY <1>3 DEF StrictSubsetOrdering
    <2> QED BY <1>2, <2>1
  <1> QED BY <1>3

Chosen(s) == CHOOSE x \in s : TRUE

Rest(s) == s \ {Chosen(s)}

\* g adds f up over every subset of S.
Adds(g, f, S) ==
    g = [s \in SUBSET S |-> IF s = {} THEN 0 ELSE f[Chosen(s)] + g[Rest(s)]]

LEMMA RestIsSmaller ==
  ASSUME NEW s, s # {}
  PROVE  Chosen(s) \in s /\ Rest(s) \subseteq s /\ Rest(s) # s
  BY DEF Chosen, Rest

LEMMA AddsUnique ==
  ASSUME NEW f, NEW S, IsFiniteSet(S), NEW T, NEW g, NEW h, Adds(g, f, S), Adds(h, f, T),
         NEW s, s \subseteq S, s \subseteq T
  PROVE  g[s] = h[s]
  <1> DEFINE B == {r \in SUBSET S : r \subseteq T /\ g[r] # h[r]}
  <1>1. SUFFICES ASSUME B # {} PROVE FALSE
    OBVIOUS
  <1>2. PICK r \in B : \A q \in B : q \subseteq r => q = r
    <2>1. B \in SUBSET SUBSET S
      OBVIOUS
    <2> HIDE DEF B
    <2> QED BY <1>1, <2>1, SmallestSubset
  <1>3. g[r] = IF r = {} THEN 0 ELSE f[Chosen(r)] + g[Rest(r)]
    BY DEF Adds
  <1>4. h[r] = IF r = {} THEN 0 ELSE f[Chosen(r)] + h[Rest(r)]
    BY DEF Adds
  <1>5. r # {}
    BY <1>3, <1>4
  <1>6. Rest(r) \in B
    <2>1. Rest(r) \subseteq r
      BY <1>5, RestIsSmaller
    <2> QED BY <1>3, <1>4, <1>5, <2>1
  <1> QED BY <1>2, <1>5, <1>6, RestIsSmaller

LEMMA AddsExists ==
  ASSUME NEW f, NEW S, IsFiniteSet(S)
  PROVE  \E g : Adds(g, f, S)
  <1> DEFINE B == {r \in SUBSET S : ~\E g : Adds(g, f, r)}
  <1>1. SUFFICES ASSUME B # {} PROVE FALSE
    OBVIOUS
  <1>2. PICK r \in B : \A q \in B : q \subseteq r => q = r
    <2>1. B \in SUBSET SUBSET S
      OBVIOUS
    <2> HIDE DEF B
    <2> QED BY <1>1, <2>1, SmallestSubset
  <1> DEFINE G(q) == CHOOSE g : Adds(g, f, q)
             h == [q \in SUBSET r |-> IF q = {} THEN 0 ELSE f[Chosen(q)] + G(Rest(q))[Rest(q)]]
  <1>3. ASSUME NEW q, q \subseteq r, q # r PROVE Adds(G(q), f, q) /\ IsFiniteSet(q)
    <2>1. \E g : Adds(g, f, q)
      BY <1>2, <1>3
    <2> QED BY <1>3, <2>1, FS_Subset
  <1> HIDE DEF G
  <1>4. ASSUME NEW q, q \subseteq r, q # r PROVE G(q)[q] = h[q]
    <2>1. G(q)[q] = IF q = {} THEN 0 ELSE f[Chosen(q)] + G(q)[Rest(q)]
      BY <1>3, <1>4 DEF Adds
    <2>2. ASSUME q # {} PROVE G(q)[Rest(q)] = G(Rest(q))[Rest(q)]
      <3>1. Rest(q) \subseteq q /\ Rest(q) # r
        BY <1>4, <2>2, RestIsSmaller
      <3>2. Adds(G(q), f, q) /\ Adds(G(Rest(q)), f, Rest(q)) /\ IsFiniteSet(q)
        BY <1>3, <1>4, <3>1
      <3> QED BY <3>1, <3>2, AddsUnique
    <2> QED BY <1>4, <2>1, <2>2
  <1>5. h = [q \in SUBSET r |-> IF q = {} THEN 0 ELSE f[Chosen(q)] + h[Rest(q)]]
    <2>1. ASSUME NEW q \in SUBSET r, q # {} PROVE h[q] = f[Chosen(q)] + h[Rest(q)]
      <3>1. Rest(q) \subseteq r /\ Rest(q) # r
        BY <2>1, RestIsSmaller
      <3>2. G(Rest(q))[Rest(q)] = h[Rest(q)]
        BY <1>4, <3>1
      <3>3. h[q] = f[Chosen(q)] + G(Rest(q))[Rest(q)]
        BY <2>1
      <3> QED BY <3>2, <3>3
    <2>2. \A q \in SUBSET r : h[q] = IF q = {} THEN 0 ELSE f[Chosen(q)] + h[Rest(q)]
      BY <2>1
    <2>3. h = [q \in SUBSET r |-> h[q]]
      OBVIOUS
    <2> HIDE DEF h
    <2> QED BY <2>2, <2>3
  <1> HIDE DEF h
  <1>6. Adds(h, f, r)
    BY <1>5 DEF Adds
  <1> QED BY <1>2, <1>6

LEMMA SumIsAdded ==
  ASSUME NEW f, NEW S, IsFiniteSet(S)
  PROVE  \E g : Adds(g, f, S) /\ SumFunctionOnSet(f, S) = g[S]
  <1> DEFINE h == CHOOSE g : Adds(g, f, S)
  <1>1. Adds(h, f, S)
    BY AddsExists
  <1>2. SumFunctionOnSet(f, S) = h[S]
    BY DEF SumFunctionOnSet, FoldFunctionOnSet, MapThenFoldSet, Adds, Chosen, Rest
  <1> QED BY <1>1, <1>2

LEMMA SumOfNone == \A f : SumFunctionOnSet(f, {}) = 0
  <1> SUFFICES ASSUME NEW f PROVE SumFunctionOnSet(f, {}) = 0
    OBVIOUS
  <1>1. PICK g : Adds(g, f, {}) /\ SumFunctionOnSet(f, {}) = g[{}]
    BY SumIsAdded, FS_EmptySet
  <1> QED BY <1>1 DEF Adds

LEMMA SumChosen ==
  ASSUME NEW f, NEW S, IsFiniteSet(S), S # {}
  PROVE  SumFunctionOnSet(f, S) = f[Chosen(S)] + SumFunctionOnSet(f, Rest(S))
  <1>1. Rest(S) \subseteq S /\ IsFiniteSet(Rest(S))
    BY RestIsSmaller, FS_Subset
  <1>2. PICK g : Adds(g, f, S) /\ SumFunctionOnSet(f, S) = g[S]
    BY SumIsAdded
  <1>3. PICK h : Adds(h, f, Rest(S)) /\ SumFunctionOnSet(f, Rest(S)) = h[Rest(S)]
    BY <1>1, SumIsAdded
  <1>4. g[Rest(S)] = h[Rest(S)]
    BY <1>1, <1>2, <1>3, AddsUnique
  <1>5. g[S] = f[Chosen(S)] + g[Rest(S)]
    BY <1>2 DEF Adds
  <1> QED BY <1>2, <1>3, <1>4, <1>5

\* A sum of natural numbers is one.
LEMMA SumOfNaturals ==
  ASSUME NEW f, NEW S, IsFiniteSet(S), \A x \in S : f[x] \in Nat
  PROVE  SumFunctionOnSet(f, S) \in Nat
  <1> DEFINE B == {r \in SUBSET S : SumFunctionOnSet(f, r) \notin Nat}
  <1>1. SUFFICES ASSUME B # {} PROVE FALSE
    OBVIOUS
  <1>2. PICK r \in B : \A q \in B : q \subseteq r => q = r
    <2>1. B \in SUBSET SUBSET S
      OBVIOUS
    <2> HIDE DEF B
    <2> QED BY <1>1, <2>1, SmallestSubset
  <1>3. r # {}
    <2>1. SumFunctionOnSet(f, {}) = 0
      BY SumOfNone
    <2> QED BY <2>1
  <1>4. Chosen(r) \in r /\ Rest(r) \subseteq r /\ Rest(r) # r /\ IsFiniteSet(r)
    BY <1>3, RestIsSmaller, FS_Subset
  <1>5. SumFunctionOnSet(f, Rest(r)) \in Nat
    BY <1>2, <1>4
  <1>6. SumFunctionOnSet(f, r) = f[Chosen(r)] + SumFunctionOnSet(f, Rest(r))
    BY <1>3, <1>4, SumChosen
  <1>7. f[Chosen(r)] \in Nat
    BY <1>4
  <1> QED BY <1>2, <1>5, <1>6, <1>7

\* Any element can be taken out first.
LEMMA SumWithout ==
  ASSUME NEW f, NEW S, IsFiniteSet(S), \A y \in S : f[y] \in Nat, NEW x \in S
  PROVE  SumFunctionOnSet(f, S) = f[x] + SumFunctionOnSet(f, S \ {x})
  <1> DEFINE Without(r) == \A y \in r : SumFunctionOnSet(f, r) = f[y] + SumFunctionOnSet(f, r \ {y})
             B == {r \in SUBSET S : ~Without(r)}
  <1>1. SUFFICES ASSUME B # {} PROVE FALSE
    OBVIOUS
  <1>2. PICK r \in B : \A q \in B : q \subseteq r => q = r
    <2>1. B \in SUBSET SUBSET S
      OBVIOUS
    <2> HIDE DEF B
    <2> QED BY <1>1, <2>1, SmallestSubset
  <1>3. PICK y \in r : SumFunctionOnSet(f, r) # f[y] + SumFunctionOnSet(f, r \ {y})
    BY <1>2
  <1>4. Chosen(r) \in r /\ Rest(r) \subseteq r /\ Rest(r) # r /\ IsFiniteSet(r) /\ r \subseteq S
    BY <1>3, RestIsSmaller, FS_Subset
  <1>5. SumFunctionOnSet(f, r) = f[Chosen(r)] + SumFunctionOnSet(f, Rest(r))
    BY <1>3, <1>4, SumChosen
  <1>6. y # Chosen(r)
    BY <1>3, <1>5 DEF Rest
  <1>7. Without(Rest(r)) /\ Without(r \ {y})
    BY <1>2, <1>3, <1>4
  <1>8. SumFunctionOnSet(f, Rest(r)) = f[y] + SumFunctionOnSet(f, Rest(r) \ {y})
    BY <1>3, <1>6, <1>7 DEF Rest
  <1>9. SumFunctionOnSet(f, r \ {y}) = f[Chosen(r)] + SumFunctionOnSet(f, (r \ {y}) \ {Chosen(r)})
    BY <1>4, <1>6, <1>7
  <1>10. Rest(r) \ {y} = (r \ {y}) \ {Chosen(r)}
    BY DEF Rest
  <1>11. SumFunctionOnSet(f, Rest(r) \ {y}) \in Nat
    <2>1. IsFiniteSet(Rest(r) \ {y}) /\ \A z \in Rest(r) \ {y} : f[z] \in Nat
      BY <1>4, FS_Subset
    <2> QED BY <2>1, SumOfNaturals
  <1>12. f[y] \in Nat /\ f[Chosen(r)] \in Nat
    BY <1>3, <1>4
  <1> DEFINE k == SumFunctionOnSet(f, Rest(r) \ {y})
  <1>13. SumFunctionOnSet(f, r \ {y}) = f[Chosen(r)] + k
    BY <1>9, <1>10
  <1>14. SumFunctionOnSet(f, r) = f[Chosen(r)] + (f[y] + k)
    BY <1>5, <1>8
  <1> HIDE DEF k, B
  <1>15. k \in Nat
    BY <1>11 DEF k
  <1>16. f[Chosen(r)] + (f[y] + k) = f[y] + (f[Chosen(r)] + k)
    BY <1>12, <1>15
  <1> QED BY <1>3, <1>13, <1>14, <1>16

\* One more element adds its value.
LEMMA SumWith ==
  ASSUME NEW f, NEW S, IsFiniteSet(S), NEW x, x \notin S, \A y \in S \cup {x} : f[y] \in Nat
  PROVE  SumFunctionOnSet(f, S \cup {x}) = f[x] + SumFunctionOnSet(f, S)
  <1>1. IsFiniteSet(S \cup {x}) /\ (S \cup {x}) \ {x} = S
    BY FS_AddElement
  <1> QED BY <1>1, SumWithout
=============================================================================
