--------------------------- MODULE MCBalanceAdmin ---------------------------
(* Small instances of BalanceAdmin. *)
EXTENDS BalanceAdmin, TLC

CONSTANTS r1, r2, w1, d1, b1, b2, u1

AdminSymmetry == Permutations(Requests)
=============================================================================
