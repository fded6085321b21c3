------------------------------- MODULE MCShim -------------------------------
(***************************************************************************)
(* One dispatch, with every kind of adapter and return code.               *)
(***************************************************************************)
EXTENDS ShimRefinement

CONSTANTS s1, s2, d1, d2

OneEach == [s \in Shims |-> IF s = s1 THEN d1 ELSE d2]

Kind(binary, missing, early) ==
  [preflightBinary |-> binary, missingBinaryLedger |-> missing,
   startLedgerBeforePrompt |-> early]

\* codex, opencode, and the others.
EveryAdapter == {Kind(FALSE, "none", TRUE), Kind(TRUE, "finished", TRUE),
                 Kind(TRUE, "none", FALSE)}

\* Success, failure, a provider that imitates the exit statuses of the
\* supervisor, and one ended by SIGTERM.
EveryCode == {0, 1, 124, 127, 130, -15}
=============================================================================
