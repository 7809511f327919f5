----------------------------- MODULE Evaluation -----------------------------
(* The input on which a step without state of its own is evaluated.  A       *)
(* module of such steps lets it be chosen, and states what the step does     *)
(* with it; a record tells by its field "of" which step the input is for.    *)

VARIABLE input

NoInput == [of |-> "none"]
=============================================================================
