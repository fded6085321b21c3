----------------------------- MODULE Tripwires -----------------------------
(***************************************************************************)
(* dag-tripwire.py and ledger-tripwire.py: the Stop hooks of a Claude Code *)
(* session.  Whenever the assistant wants to stop, each hook reads the     *)
(* transcript back to the last prompt of the user and may block; then the  *)
(* assistant goes on, and its next stop has stop_hook_active.  The session *)
(* is external, and how the hooks take a command line is that of           *)
(* CommandWalk.                                                            *)
(***************************************************************************)
EXTENDS Naturals, Sequences, FiniteSets, SequencesExt

CONSTANTS
  Commands,         \* command lines the assistant may run
  InvokesShim(_),   \* whether shim_invoked finds a shim in one
  RunsForeign(_),   \* whether it starts the runner for another host
  MaxEntries        \* bound on the transcript

ASSUME CommandsAssumption ==
  \A c \in Commands : InvokesShim(c) \in BOOLEAN /\ RunsForeign(c) \in BOOLEAN

VARIABLES
  transcript,   \* its entries
  active,       \* stop_hook_active
  working,      \* the assistant has the turn
  last,         \* the command that is running, or <<>>
  did,          \* what really happened since the user's last prompt
  blocked,      \* hooks that blocked since then
  unread,       \* hooks that could not read the transcript since then
  torn          \* a line of the file is not whole, and stays so

vars == <<transcript, active, working, last, did, blocked, unread, torn>>

Hooks == {"dag", "ledger"}

\* What the hooks make of an entry: who wrote it, where, whether it carries a
\* tool result, names the command or the skill, and which tool it uses.
Blank == [user |-> FALSE, sidechain |-> FALSE, result |-> FALSE, marker |-> FALSE,
          skill |-> FALSE, tool |-> "none", shim |-> FALSE, foreign |-> FALSE, note |-> FALSE]

Pong(command) == \E s \in DOMAIN command : "pong.md" \in ToSet(command[s])
Appends(command) == \E s \in DOMAIN command : ">>observations.jsonl" \in ToSet(command[s])

Seen == [command \in Commands |->
  [Blank EXCEPT !.tool = "Bash",
                !.shim = InvokesShim(command) /\ ~Pong(command),
                !.foreign = RunsForeign(command),
                !.note = Appends(command)]]

Tool == {"none", "Bash", "Agent", "Workflow"}
Entry ==
  [user : BOOLEAN, sidechain : BOOLEAN, result : BOOLEAN, marker : BOOLEAN, skill : BOOLEAN,
   tool : Tool, shim : BOOLEAN, foreign : BOOLEAN, note : BOOLEAN]

Deeds ==
  [context : BOOLEAN, shim : BOOLEAN, workflow : BOOLEAN, foreign : BOOLEAN, note : BOOLEAN]
Nothing == [context |-> FALSE, shim |-> FALSE, workflow |-> FALSE, foreign |-> FALSE, note |-> FALSE]

Init ==
  /\ transcript = <<>> /\ active = FALSE /\ working = FALSE
  /\ last = <<>> /\ did = Nothing /\ blocked = {} /\ unread = {} /\ torn = FALSE

-----------------------------------------------------------------------------
(* The hooks.                                                              *)

\* Variant with a mistake: a tool result is taken for a prompt.
IsAnyUserEntry(e) == e.user /\ ~e.sidechain

IsRealUserPrompt(e) == e.user /\ ~e.sidechain /\ ~e.result
\* Variant with a mistake: a subagent's tools count as well.
IsAnyToolUse(e) == ~e.user /\ e.tool # "none"

IsToolUse(e) == ~e.user /\ ~e.sidechain /\ e.tool # "none"

Prompts == {i \in DOMAIN transcript : IsRealUserPrompt(transcript[i])}

\* The entries of the current turn: from the last genuine prompt to the end,
\* none if there is no prompt.
Turn == {i \in DOMAIN transcript : Prompts # {} /\ \A p \in Prompts : p <= i}

Tools == {i \in Turn : IsToolUse(transcript[i])}

DagContextInvoked ==
  \E i \in Turn :
    transcript[i].skill \/ (IsRealUserPrompt(transcript[i]) /\ transcript[i].marker)

\* Agent with a type of SHIM_TYPES, or a shim in a shell command.
ShimUsed == \E i \in Tools : transcript[i].shim
WorkflowUsed == \E i \in Tools : transcript[i].tool = "Workflow"
ForeignHost == \E i \in Tools : transcript[i].foreign
LedgerNoted == \E i \in Tools : transcript[i].note

DagBlocks == DagContextInvoked /\ (ForeignHost \/ (ShimUsed /\ ~WorkflowUsed))

LedgerBlocks == ShimUsed /\ ~LedgerNoted

\* Variant with a mistake: stop_hook_active is not looked at.
BlockingAgain(blind) ==
  {h \in Hooks \ blind : IF h = "dag" THEN DagBlocks ELSE LedgerBlocks}

Blocking(blind) ==
  IF active THEN {}
  ELSE {h \in Hooks \ blind : IF h = "dag" THEN DagBlocks ELSE LedgerBlocks}

\* A hook reads the whole file for itself, and fails if it is given no path,
\* if there is no file, or if one line of it, of whatever turn, is not JSON.
Unreadable(failing) == IF torn THEN Hooks ELSE failing

\* All Stop hooks run, and any of them keeps the assistant going; one that fails
\* to read lets it stop.
Stop(failing) ==
  LET blind == Unreadable(failing) IN
  /\ working /\ last = <<>>
  /\ blocked' = blocked \cup Blocking(blind)
  /\ unread' = IF active THEN unread ELSE unread \cup blind
  /\ active' = (Blocking(blind) # {})
  /\ working' = (Blocking(blind) # {})
  /\ UNCHANGED <<transcript, last, did, torn>>

-----------------------------------------------------------------------------
(* The session.                                                            *)

Write(e) ==
  /\ working /\ last = <<>> /\ Len(transcript) < MaxEntries
  /\ transcript' = Append(transcript, e)
  /\ UNCHANGED <<unread, torn>>

Prompt(marked) ==
  /\ ~working /\ working' = TRUE
  /\ Len(transcript) < MaxEntries
  /\ transcript' = Append(transcript, [Blank EXCEPT !.user = TRUE, !.marker = marked])
  /\ did' = [Nothing EXCEPT !.context = marked]
  /\ active' = FALSE /\ blocked' = {} /\ unread' = {}
  /\ UNCHANGED <<last, torn>>

\* The result of a command; and what a subagent is told and does, of which
\* only a skill counts for the turn.
Result ==
  /\ last # <<>> /\ last' = <<>>
  /\ transcript' = Append(transcript, [Blank EXCEPT !.user = TRUE, !.result = TRUE])
  /\ UNCHANGED <<active, working, did, blocked, unread, torn>>

Subagent(e) ==
  /\ Write([e EXCEPT !.sidechain = TRUE])
  /\ UNCHANGED <<active, working, last, did, blocked>>

Delegated ==
  {[Blank EXCEPT !.user = TRUE, !.marker = TRUE], [Blank EXCEPT !.tool = "Workflow"],
   [Blank EXCEPT !.tool = "Agent", !.shim = TRUE]}

Skill(sidechain) ==
  /\ Write([Blank EXCEPT !.skill = TRUE, !.sidechain = sidechain])
  /\ did' = [did EXCEPT !.context = TRUE]
  /\ UNCHANGED <<active, working, last, blocked>>

UseWorkflow ==
  /\ Write([Blank EXCEPT !.tool = "Workflow"])
  /\ did' = [did EXCEPT !.workflow = TRUE]
  /\ UNCHANGED <<active, working, last, blocked>>

UseAgent(shim) ==
  /\ Write([Blank EXCEPT !.tool = "Agent", !.shim = shim])
  /\ did' = [did EXCEPT !.shim = @ \/ shim]
  /\ UNCHANGED <<active, working, last, blocked>>

RunCommand(command) ==
  LET e == Seen[command] IN
  /\ Write(e)
  /\ did' = [did EXCEPT !.shim = @ \/ e.shim, !.foreign = @ \/ e.foreign, !.note = @ \/ e.note]
  /\ last' = command
  /\ UNCHANGED <<active, working, blocked>>

\* A line is cut short as it is written, and never completed.  Nobody reads the
\* file while a command runs: one that is cut then is taken to be cut after it.
Tear ==
  /\ last = <<>> /\ ~torn /\ torn' = TRUE
  /\ UNCHANGED <<transcript, active, working, last, did, blocked, unread>>

Next ==
  \/ UseWorkflow \/ Result \/ Tear
  \/ \E failing \in SUBSET Hooks : Stop(failing)
  \/ \E yes \in BOOLEAN : Prompt(yes) \/ UseAgent(yes) \/ Skill(yes)
  \/ \E e \in Delegated : Subagent(e)
  \/ \E command \in Commands : RunCommand(command)

Spec == Init /\ [][Next]_vars
FairSpec == Spec /\ WF_vars(Stop({})) /\ WF_vars(Result)

-----------------------------------------------------------------------------
Misrouted == did.context /\ (did.foreign \/ (did.shim /\ ~did.workflow))
Unnoted == did.shim /\ ~did.note

\* A hook blocks for what the assistant itself did since the user's last
\* prompt, and not for what an earlier turn or a subagent did.
BlocksForCause ==
  [][/\ "dag" \in blocked' \ blocked => Misrouted
     /\ "ledger" \in blocked' \ blocked => Unnoted]_vars

\* A turn that ends without a checkpoint had nothing to be stopped for that a
\* hook which could read the transcript looks for.
NothingSlipsThrough ==
  ~working /\ blocked = {} =>
    /\ Misrouted => "dag" \in unread
    /\ Unnoted => "ledger" \in unread

\* The assistant may stop in the end, whatever it does after a checkpoint.
EveryTurnEnds == working ~> ~working

-----------------------------------------------------------------------------
(* What the answers of the hooks rest on.                                  *)

\* What the hooks read off the transcript is what happened in the turn.
TurnIsKnown ==
  /\ did.context <=> DagContextInvoked
  /\ did.shim <=> ShimUsed
  /\ did.workflow <=> WorkflowUsed
  /\ did.foreign <=> ForeignHost
  /\ did.note <=> LedgerNoted

\* A turn has a prompt, and a hook that does not look has been heard in it.
TripwireInductive ==
  /\ transcript \in Seq(Entry)
  /\ did \in Deeds
  /\ active \in BOOLEAN /\ working \in BOOLEAN /\ torn \in BOOLEAN
  /\ blocked \in SUBSET Hooks /\ unread \in SUBSET Hooks
  /\ working => Prompts # {}
  /\ last # <<>> => working
  /\ active => blocked # {}
  /\ TurnIsKnown
  /\ NothingSlipsThrough
=============================================================================
