---------------------------- MODULE MCReservation ----------------------------
(* Small instances of Reservation: two transactions that compete for two    *)
(* limits, one of them matched by both.                                     *)
EXTENDS Reservation, TLC

CONSTANTS t1, t2, l1, l2

MCApplies == [t \in Transactions |-> IF t = t1 THEN {l1, l2} ELSE {l1}]

MCAmount == [t \in Transactions |-> IF t = t2 THEN 2 ELSE 1]
=============================================================================
