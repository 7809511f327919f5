-------------------------- MODULE LedgerBalances --------------------------
(***************************************************************************)
(* What the balance store promises to a caller of the transaction API: one *)
(* amount per balance, and transfers that move one unit atomically and     *)
(* never take from a balance more than it holds.  There is no cache, no    *)
(* schedule and no worker here; BalanceSync is shown to implement it.      *)
(***************************************************************************)
EXTENDS Integers

CONSTANTS Balances, InitialFunds

VARIABLE funds

Init == funds = [b \in Balances |-> InitialFunds]

Transfer(from, to) ==
    /\ funds[from] >= 1
    /\ funds' = [funds EXCEPT ![from] = @ - 1, ![to] = @ + 1]

Next == \E from, to \in Balances : from # to /\ Transfer(from, to)

Spec == Init /\ [][Next]_funds
===========================================================================
