----------------------------- MODULE MCWorkflow -----------------------------
(***************************************************************************)
(* Small workflows for TLC.  a and b are independent roots and c depends   *)
(* on a; b may have a provider of its own.  Wide has a third root, and a   *)
(* join of b with c two levels down.                                       *)
(***************************************************************************)
EXTENDS WorkflowRefinement, WorkflowInvariant, TLC

CONSTANTS a, b, c, d, e, p, q

Chain == {a, c}
Roots == {a, b}
Trio  == {a, b, c}
Five  == {a, b, c, d, e}
RootsDependOn == (a :> {}) @@ (b :> {})
ChainDependsOn == (a :> {}) @@ (c :> {a})
ForkDependsOn == (a :> {}) @@ (b :> {}) @@ (c :> {a})
WideDependsOn == (a :> {}) @@ (b :> {}) @@ (c :> {a}) @@ (d :> {}) @@ (e :> {b, c})

OneProvider == [t \in Tasks |-> p]
OwnProvider == [t \in Tasks |-> IF t = b THEN q ELSE p]
NoLimits == [x \in {} |-> 1]
RootsOfP == [t \in Tasks |-> IF t \in {a, b} THEN p ELSE q]
OneOfP == (p :> 1)

Once == [t \in Tasks |-> 1]
RetryA == [t \in Tasks |-> IF t = a THEN 2 ELSE 1]
NeverRetry == [t \in Tasks |-> {}]
OnAnything == [t \in Tasks |-> RetryReason]
OnTransport == [t \in Tasks |-> {"transport-error"}]

O(status, exit, transport) ==
  [status |-> status, exit |-> exit, transport |-> transport]

Plain == {O("succeeded", 0, FALSE), O("failed", 1, FALSE),
          O("cancelled", 130, FALSE)}

Retryable == Plain \cup {O("failed", 1, TRUE)}

\* One outcome for every way the scheduler can treat an attempt: usage errors,
\* unreadable prompts, a failed preflight, time-outs and cancellations with
\* and without a record, a kill, and a success whose last line was not
\* written.
EveryOutcome ==
  Plain \cup {O("failed", 64, TRUE), O("failed", 66, FALSE),
              O("preflight_failed", 127, TRUE), O("timed_out", 1, FALSE),
              O("timed_out", 1, TRUE), O("failed", 0, TRUE),
              O("cancelled", 130, TRUE), O("succeeded", 1, FALSE)}
=============================================================================
