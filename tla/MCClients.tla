----------------------------- MODULE MCClients -----------------------------
(* A workflow of two tasks, and processes that come to it. *)
EXTENDS WorkflowClients, TLC

CONSTANTS t1, t2, p1, p2, p3

Chain == [t \in Tasks |-> IF t = t2 THEN {t1} ELSE {}]

\* Processes other than the first are alike.
Later == Permutations({p2, p3})
=============================================================================
