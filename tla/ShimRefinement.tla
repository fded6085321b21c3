--------------------------- MODULE ShimRefinement ---------------------------
(***************************************************************************)
(* Shims with dispatch identifiers of their own implement DispatchRecord:  *)
(* the state is that of run.json, the result result.json, and what is said *)
(* is on the sentinel line.                                                *)
(***************************************************************************)
EXTENDS ShimDispatch

DistinctDispatches ==
  \A s, t \in Shims : Home(s) = Home(t) => s = t

Phase(state) == IF state \in DispatchStatus \cup {"none"} THEN state ELSE "open"

Promise == INSTANCE DispatchRecord WITH
  Nothing <- NoRecord,
  Unsaid  <- None,
  state   <- [s \in Shims |-> Phase(run[Home(s)])],
  result  <- [s \in Shims |-> record[Home(s)]],
  said    <- sentinel

\* A dispatch writes its final state, its result and its sentinel in this
\* order, all in agreement, whatever cuts it short.
ImplementsDispatchRecord == Promise!Spec
=============================================================================
