----------------------------- MODULE MCRuleSync -----------------------------
(* Small instances of RuleSync. *)
EXTENDS RuleSync, TLC

CONSTANTS r1, r2, c1, c2, w1, w2

\* A tenant's life multiplies the states of each command and of each tick.
MCTime == [single |-> 5, multi |-> 4]

MCCommands == [single |-> 2, multi |-> 1]

Symmetry == Permutations(Rules) \cup Permutations(Commands) \cup Permutations(Workers)
=============================================================================
