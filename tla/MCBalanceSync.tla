--------------------------- MODULE MCBalanceSync ---------------------------
(* Small instances of BalanceSync. *)
EXTENDS BalanceSync, TLC

CONSTANTS r1, r2, r3, w1, w2, b1, b2

Symmetry == Permutations(Requests) \cup Permutations(Workers) \cup Permutations(Balances)
=============================================================================
