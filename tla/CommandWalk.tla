---------------------------- MODULE CommandWalk ----------------------------
(***************************************************************************)
(* How the two Stop hooks read a shell command: it is cut into segments    *)
(* and each segment, a sequence of tokens, is walked past assignments and  *)
(* wrappers until it comes to a shim or to something else.  "nohup" stands *)
(* for the programs that only precede a command, "then" for the words of   *)
(* the shell that do, "shim" for a path to one of the scripts              *)
(* SHIM_BASENAME_RE names, "pong.md" for the health check.  A token that   *)
(* is itself a command line, for bash -c, is a key of Script.              *)
(***************************************************************************)
EXTENDS Naturals, Sequences, SequencesExt

CONSTANT Script   \* [quoted tokens -> the command they hold]

Assignments == {"A=1"}
Precommands == {"nohup"}
Keywords == {"then"}
Flags == {"-i", "-c", "-ic"}
HoldsC == {"-c", "-ic", "script", "claude", "codex"}   \* tokens with a c in them
Quoted == DOMAIN Script

\* The first position from i on that is not in the set.
Past(tokens, i, set) ==
  CHOOSE k \in i .. Len(tokens) + 1 :
    /\ k = Len(tokens) + 1 \/ tokens[k] \notin set
    /\ \A j \in i .. k - 1 : tokens[j] \in set

RECURSIVE ShimInvoked(_), WalkFrom(_, _)

IsShim(tokens, i) == i <= Len(tokens) /\ tokens[i] = "shim"

\* Variant with a mistake: a command string is not looked into.
ShellInvokesScript(tokens, i) == IsShim(tokens, Past(tokens, i, Flags))

\* bash -c string, or bash script; either way the walk ends here.
ShellInvokes(tokens, i) ==
  LET k == Past(tokens, i, Flags) IN
  IF (\E j \in i .. k - 1 : tokens[j] \in HoldsC) /\ k <= Len(tokens)
  THEN IF tokens[k] \in Quoted THEN ShimInvoked(Script[tokens[k]]) ELSE tokens[k] = "shim"
  ELSE IsShim(tokens, k)

WalkFrom(tokens, i) ==
  IF i > Len(tokens) THEN FALSE
  ELSE CASE tokens[i] \in Precommands \cup Keywords ->
              WalkFrom(tokens, i + 1)
         [] tokens[i] = "env" ->
              WalkFrom(tokens, Past(tokens, Past(tokens, i + 1, Flags), Assignments))
         [] tokens[i] = "timeout" ->
              WalkFrom(tokens, Past(tokens, i + 1, Flags) + 1)
         [] tokens[i] = "bash" ->
              ShellInvokes(tokens, i + 1)
         [] OTHER ->
              IsShim(tokens, i)

SegmentInvokesShim(tokens) == WalkFrom(tokens, Past(tokens, 1, Assignments))

ShimInvoked(command) == \E s \in DOMAIN command : SegmentInvokesShim(command[s])

-----------------------------------------------------------------------------
(* workflow_runner_calls of dag-tripwire.py.                               *)

RunnerWrappers == {"env", "nohup", "timeout"}

RunnerAt(tokens) ==
  {i \in DOMAIN tokens :
     /\ tokens[i] = "model-routing"
     /\ i = 1 \/ tokens[1] \in RunnerWrappers
     /\ i + 2 <= Len(tokens)
     /\ tokens[i + 1] = "workflow" /\ tokens[i + 2] \in {"run", "resume"}}

HostOptions(tokens, i) == {k \in i + 3 .. Len(tokens) - 1 : tokens[k] = "--host"}

\* Some workflow run or resume declares a host that is not claude, or none.
ForeignSegment(tokens) ==
  RunnerAt(tokens) # {} /\
  LET first == CHOOSE i \in RunnerAt(tokens) : \A j \in RunnerAt(tokens) : i <= j
      hosts == HostOptions(tokens, first)
  IN hosts = {} \/ tokens[(CHOOSE k \in hosts : \A l \in hosts : k <= l) + 1] # "claude"

\* What follows the first word with a c in it, an option or not, is taken for
\* the command string of the shell.
RECURSIVE ForeignRun(_)
ForeignRun(command) ==
  \E s \in DOMAIN command :
    LET tokens == command[s]
        options == {k \in 2 .. Len(tokens) - 1 : tokens[k] \in HoldsC}
    IN \/ ForeignSegment(tokens)
       \/ /\ tokens # <<>> /\ tokens[1] = "bash" /\ options # {}
          /\ LET text == tokens[(CHOOSE k \in options : \A l \in options : k <= l) + 1]
             IN text \in Quoted /\ ForeignRun(Script[text])

-----------------------------------------------------------------------------
(***************************************************************************)
(* The command lines that dispatch a shim, as a grammar: a script, or a    *)
(* string for a shell, behind wrappers, behind assignments, behind words   *)
(* of the shell.  It leaves open where one part ends and the next begins.  *)
(***************************************************************************)
Only(tokens, i, j, set) == \A k \in i .. j - 1 : tokens[k] \in set

DispatchAt(tokens, i) ==
  \/ tokens[i] = "shim"
  \/ /\ tokens[i] = "bash"
     /\ \E j \in i + 1 .. Len(tokens) :
          /\ Only(tokens, i + 1, j, Flags)
          /\ \/ tokens[j] = "shim"
             \/ /\ \E k \in i + 1 .. j - 1 : tokens[k] \in {"-c", "-ic"}
                /\ tokens[j] \in Quoted
                /\ \E s \in DOMAIN Script[tokens[j]] : Script[tokens[j]][s][1] = "shim"

WrapperFrom(tokens, i, j) ==
  \/ tokens[i] = "nohup" /\ j = i + 1
  \/ tokens[i] = "env" /\ \E k \in i + 1 .. j :
       Only(tokens, i + 1, k, Flags) /\ Only(tokens, k, j, Assignments)
  \/ tokens[i] = "timeout" /\ j > i + 1 /\ tokens[j - 1] \notin Flags
     /\ Only(tokens, i + 1, j - 1, Flags)

RECURSIVE DispatchFrom(_, _)
DispatchFrom(tokens, i) ==
  \/ DispatchAt(tokens, i)
  \/ \E j \in i + 1 .. Len(tokens) : WrapperFrom(tokens, i, j) /\ DispatchFrom(tokens, j)

ShimLine(tokens) ==
  \E i \in DOMAIN tokens : \E k \in 1 .. i :
    Only(tokens, 1, k, Keywords) /\ Only(tokens, k, i, Assignments) /\ DispatchFrom(tokens, i)

\* Where the walk and the grammar part: assignments are looked for at the head
\* of a segment only, and words of the shell anywhere.
AssignsAfterKeyword(tokens) ==
  \E i \in 1 .. Len(tokens) - 1 : tokens[i] \in Keywords /\ tokens[i + 1] \in Assignments

KeywordOutOfPlace(tokens) ==
  \E i \in 2 .. Len(tokens) : tokens[i] \in Keywords /\ tokens[i - 1] \notin Keywords
=============================================================================
