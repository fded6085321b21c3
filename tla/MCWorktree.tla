----------------------------- MODULE MCWorktree -----------------------------
(* Two processes, and two dispatches of the same repository. *)
EXTENDS WorktreeSafety

CONSTANTS p1, p2, d1, d2

WriteAndRead ==
  [i \in Dispatches |-> IF i = d1 THEN [mode |-> "auto", task |-> "write"]
                                 ELSE [mode |-> "auto", task |-> "read"]]
=============================================================================
