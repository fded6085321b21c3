---------------------------- MODULE MCTripwires ----------------------------
(* Segments of up to two tokens, some behind a prefix, pairs, runner calls. *)
EXTENDS Tripwires, CommandWalk, TLC

Strings == ("'shim'" :> << <<"shim">> >>) @@ ("'word'" :> << <<"word">> >>)
           @@ ("'run'" :> << <<"word">>, <<"model-routing", "workflow", "run">> >>)
Tokens == {"A=1", "nohup", "then", "env", "timeout", "bash", "-i", "-c", "shim", "'shim'", "word"}

UpToTwo(tokens) == UNION {[1 .. n -> tokens] : n \in 1 .. 2}
Rest == UpToTwo({"A=1", "-c", "shim", "'shim'"})
Behind ==
  {<<"env", "-i">>, <<"timeout", "-i">>, <<"timeout", "word">>, <<"bash", "-i">>, <<"bash", "-ic">>,
   <<"then">>, <<"then", "bash">>, <<"nohup", "then">>}

Runner(host) == <<"model-routing", "workflow", "resume", "word", "--host", host>>
Chosen ==
  {<< <<"word">>, <<"nohup", "shim">> >>, << <<"shim", "pong.md">> >>,
   << <<"shim", ">>observations.jsonl">> >>, << <<"word", ">>observations.jsonl">> >>,
   << <<"bash", "-ic", "'run'">> >>, << <<"bash", "script", "'run'">> >>}
  \cup {<<w \o Runner(h)>> : w \in {<<>>, <<"timeout", "word">>, <<"word">>}, h \in {"claude", "codex"}}

Wanted == {<<s>> : s \in UpToTwo(Tokens) \cup {b \o s : b \in Behind, s \in Rest}} \cup Chosen

-----------------------------------------------------------------------------
\* The walk of the hooks, which takes what it can at each step, finds a shim in
\* exactly the command lines of the grammar, with two exceptions: it misses the
\* one behind an assignment behind a word of the shell, and it finds one behind
\* such a word where the shell would not take it for one.
WalkExact ==
  /\ ShimInvoked(last) =>
       \E s \in DOMAIN last : ShimLine(last[s]) \/ KeywordOutOfPlace(last[s])
  /\ (\E s \in DOMAIN last : ShimLine(last[s]) /\ ~AssignsAfterKeyword(last[s])) =>
       ShimInvoked(last)
=============================================================================
