-------------------------- MODULE MCTransactionWrite --------------------------
(***************************************************************************)
(* Small instances of TransactionWrite: a PENDING and a direct create      *)
(* request under one idempotency key, or two reversals of a direct one.    *)
(***************************************************************************)
EXTENDS TransactionWrite

CONSTANTS p1, d1, r1, r2, k1, k2, s1, s2, c1

MCKey == [t \in Transactions |-> IF t \in Reverts THEN k2 ELSE k1]

MCParent == [r \in Reverts |-> d1]

Settling2 == {{d1, p1, s1, s2}}
Settling1 == {{d1, p1, s1}}
SettlingOrReverting == Settling2 \cup {{d1, r1, r2}}

\* Failures of direct transactions anywhere but between the seed and the
\* script, of held ones before the client can settle them, and refused
\* publications and writes of every stage.
MCFaults ==
    ({"claimed", "moved", "built", "written", "build", "fallback", "deadletter", "settings", "replay"} \X {"CREATED"})
    \cup ({"claimed", "moved", "build", "replay"} \X {"PENDING"})
    \cup ({"publish", "write"} \X Stages)

NoFaults == {}

=============================================================================
