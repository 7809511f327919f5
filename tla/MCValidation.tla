---------------------------- MODULE MCValidation ----------------------------
(* Small instance of Validation: two calls with one request id and a third  *)
(* with another compete with a reservation for two limits.  The calendar    *)
(* covers turns of the year with and without a week that two years share,   *)
(* and both kinds of February.                                              *)
EXTENDS Validation, LimitPeriods, TLC

CONSTANTS t1, l1, l2, q1, q2, v1, v2, v3

\* The counters are looked up in the first state.
MCInit == ValidationInit /\ input = NoInput

Evaluate == ValidationInit /\ UNCHANGED allVars /\ (ChooseScopes \/ ChooseInstant)

MCNext == input = NoInput /\ (Evaluate \/ (ValidationNext /\ UNCHANGED input))

MCSpec == MCInit /\ [][MCNext]_<<allVars, input>>

MCApplies == [t \in Transactions |-> {l1}]
MCAmount == [t \in Transactions |-> 1]
MCRequestOf == [v \in Validations |-> IF v = v3 THEN q2 ELSE q1]
MCMatches == [q \in Requests |-> {l1, l2}]
MCCost == [q \in Requests |-> IF q = q1 THEN 1 ELSE 2]
MCRank == [l \in Limits |-> IF l = l1 THEN 1 ELSE 2]

MCDays == (FirstOfMonth(2020, 12) + 26)..(FirstOfMonth(2021, 1) + 11)
          \cup (FirstOfMonth(2023, 2) + 26)..(FirstOfMonth(2023, 3) + 2)
          \cup (FirstOfMonth(2024, 2) + 26)..(FirstOfMonth(2024, 3) + 2)
          \cup (FirstOfMonth(2024, 12) + 27)..(FirstOfMonth(2025, 1) + 6)
          \cup (FirstOfMonth(2026, 12) + 27)..(FirstOfMonth(2027, 1) + 4)
MCInstants == {24 * d + h : d \in MCDays, h \in {0, 23}}
MCCustomPeriods == {<<24 * FirstOfMonth(2021, 1), 24 * FirstOfMonth(2021, 1) + 1>>,
                    <<24 * FirstOfMonth(2020, 12) + 13, 24 * FirstOfMonth(2025, 1)>>}

MCNoScope == [f \in ScopeFields |-> Unset]
MCTransactionScopes ==
    {[MCNoScope EXCEPT !["account"] = a, !["segment"] = s, !["merchant"] = m, !["type"] = k] :
        a \in {"a1", "a2"}, s \in {Unset, "s1", "s2"}, m \in {Unset, "m1"}, k \in {"CARD", "PIX"}}
MCScopes == {s \in {[MCNoScope EXCEPT !["account"] = a, !["segment"] = g, !["type"] = k] :
                        a \in {Unset, "a1", "a2"}, g \in {Unset, "s1"}, k \in {Unset, "PIX"}} :
               s # MCNoScope}
MCScopeSets == {<<>>} \cup {<<s>> : s \in MCScopes} \cup {<<s, t>> : s, t \in MCScopes}
=============================================================================
