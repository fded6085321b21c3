--------------------------- MODULE TripwireProof ---------------------------
(***************************************************************************)
(* The Stop hooks block for cause, and let nothing through that they can   *)
(* read, in sessions of any length with any command lines.                 *)
(***************************************************************************)
EXTENDS Tripwires, SequenceTheorems, TLAPS

-----------------------------------------------------------------------------
(* Entries.                                                                *)

\* What is written to the transcript is an entry.
LEMMA BlankEntry ==
  /\ Blank \in Entry
  /\ \A command \in Commands : Seen[command] \in Entry
  <1>1. Blank \in Entry
    BY DEF Blank, Entry, Tool
  <1>2. ASSUME NEW command \in Commands
        PROVE  Seen[command] \in Entry
    <2> DEFINE a == InvokesShim(command) /\ ~Pong(command)
               b == RunsForeign(command)
               c == Appends(command)
    <2>1. Seen[command] = [Blank EXCEPT !.tool = "Bash", !.shim = a, !.foreign = b, !.note = c]
      BY DEF Seen
    <2>2. a \in BOOLEAN /\ b \in BOOLEAN /\ c \in BOOLEAN
      BY CommandsAssumption DEF Appends
    <2> HIDE DEF a, b, c
    <2> QED
      BY <1>1, <2>1, <2>2 DEF Entry, Tool
  <1> QED
    BY <1>1, <1>2

\* An entry that is no prompt joins the turn, and adds to it what it is.
LEMMA TurnGoesOn ==
  ASSUME transcript \in Seq(Entry), Prompts # {}, NEW e \in Entry, ~IsRealUserPrompt(e),
         transcript' = Append(transcript, e)
  PROVE  /\ transcript' \in Seq(Entry) /\ Prompts' # {}
         /\ DagContextInvoked' <=> DagContextInvoked \/ e.skill
         /\ ShimUsed' <=> ShimUsed \/ (IsToolUse(e) /\ e.shim)
         /\ WorkflowUsed' <=> WorkflowUsed \/ (IsToolUse(e) /\ e.tool = "Workflow")
         /\ ForeignHost' <=> ForeignHost \/ (IsToolUse(e) /\ e.foreign)
         /\ LedgerNoted' <=> LedgerNoted \/ (IsToolUse(e) /\ e.note)
  <1> DEFINE n == Len(transcript)
  <1>1. /\ n \in Nat /\ DOMAIN transcript = 1 .. n
        /\ transcript' \in Seq(Entry) /\ DOMAIN transcript' = 1 .. n + 1
        /\ \A i \in 1 .. n : transcript'[i] = transcript[i]
        /\ transcript'[n + 1] = e
    BY AppendProperties, LenProperties
  <1> HIDE DEF n
  <1>2. Prompts' = Prompts
    BY <1>1 DEF Prompts
  <1>3. Turn' = Turn \cup {n + 1}
    <2>1. \A p \in Prompts : p \in 1 .. n
      BY <1>1 DEF Prompts
    <2>2. \A i : i \in 1 .. n + 1 <=> i \in 1 .. n \/ i = n + 1
      BY <1>1
    <2> QED
      BY <1>1, <1>2, <2>1, <2>2 DEF Turn
  <1>4. \A i \in Turn : i # n + 1 /\ transcript'[i] = transcript[i]
    BY <1>1 DEF Turn
  <1>5. /\ \A i \in Tools' : (i \in Tools /\ transcript'[i] = transcript[i])
                             \/ (i = n + 1 /\ IsToolUse(e))
        /\ \A i \in Tools : i \in Tools' /\ transcript'[i] = transcript[i]
        /\ IsToolUse(e) => n + 1 \in Tools'
    BY <1>1, <1>3, <1>4 DEF Tools
  <1>6. DagContextInvoked' <=> DagContextInvoked \/ e.skill
    BY <1>1, <1>3, <1>4 DEF DagContextInvoked
  <1>7. ShimUsed' <=> ShimUsed \/ (IsToolUse(e) /\ e.shim)
    BY <1>1, <1>5 DEF ShimUsed
  <1>8. WorkflowUsed' <=> WorkflowUsed \/ (IsToolUse(e) /\ e.tool = "Workflow")
    BY <1>1, <1>5 DEF WorkflowUsed
  <1>9. ForeignHost' <=> ForeignHost \/ (IsToolUse(e) /\ e.foreign)
    BY <1>1, <1>5 DEF ForeignHost
  <1>10. LedgerNoted' <=> LedgerNoted \/ (IsToolUse(e) /\ e.note)
    BY <1>1, <1>5 DEF LedgerNoted
  <1> QED
    BY <1>1, <1>2, <1>6, <1>7, <1>8, <1>9, <1>10

\* A prompt begins a turn of its own.
LEMMA TurnBegins ==
  ASSUME transcript \in Seq(Entry), NEW e \in Entry, IsRealUserPrompt(e), ~e.skill,
         transcript' = Append(transcript, e)
  PROVE  /\ transcript' \in Seq(Entry) /\ Prompts' # {}
         /\ DagContextInvoked' <=> e.marker
         /\ ~ShimUsed' /\ ~WorkflowUsed' /\ ~ForeignHost' /\ ~LedgerNoted'
  <1> DEFINE n == Len(transcript)
  <1>1. /\ n \in Nat
        /\ transcript' \in Seq(Entry) /\ DOMAIN transcript' = 1 .. n + 1
        /\ transcript'[n + 1] = e
    BY AppendProperties, LenProperties
  <1> HIDE DEF n
  <1>2. n + 1 \in Prompts' /\ n + 1 \in 1 .. n + 1
    BY <1>1 DEF Prompts
  <1>3. Turn' = {n + 1}
    <2>1. \A p \in Prompts' : p \in 1 .. n + 1
      BY <1>1 DEF Prompts
    <2>2. \A p \in 1 .. n + 1 : p <= n + 1
      BY <1>1
    <2>3. \A i \in 1 .. n + 1 : n + 1 <= i => i = n + 1
      BY <1>1
    <2> QED
      BY <1>1, <1>2, <2>1, <2>2, <2>3 DEF Turn
  <1>4. Tools' = {}
    BY <1>1, <1>3 DEF Tools, IsToolUse, IsRealUserPrompt
  <1> QED
    BY <1>1, <1>2, <1>3, <1>4
       DEF DagContextInvoked, ShimUsed, WorkflowUsed, ForeignHost, LedgerNoted

-----------------------------------------------------------------------------
(* The steps.                                                              *)

\* A session begins with nothing to be stopped for.
LEMMA SessionStarts == Init => TripwireInductive
  <1> SUFFICES ASSUME Init PROVE TripwireInductive
    OBVIOUS
  <1>1. transcript \in Seq(Entry) /\ DOMAIN transcript = {}
    BY EmptySeq DEF Init
  <1>2. Turn = {} /\ Tools = {}
    BY <1>1 DEF Turn, Tools
  <1>3. did \in Deeds
    BY DEF Init, Nothing, Deeds
  <1>4. ~did.context /\ ~did.shim /\ ~did.workflow /\ ~did.foreign /\ ~did.note
    BY DEF Init, Nothing
  <1>5. TurnIsKnown
    BY <1>2, <1>4 DEF TurnIsKnown, DagContextInvoked, ShimUsed, WorkflowUsed, ForeignHost,
       LedgerNoted
  <1>6. NothingSlipsThrough
    BY <1>4 DEF NothingSlipsThrough, Misrouted, Unnoted
  <1> QED
    BY <1>1, <1>3, <1>5, <1>6 DEF Init, TripwireInductive

\* A hook that looks and can read sees what happened, and blocks if there is
\* something to block for.
LEMMA HooksSee ==
  ASSUME TripwireInductive, NEW blind \in SUBSET Hooks
  PROVE  /\ DagBlocks <=> Misrouted
         /\ LedgerBlocks <=> Unnoted
         /\ ~active /\ Blocking(blind) = {} =>
              (Misrouted => "dag" \in blind) /\ (Unnoted => "ledger" \in blind)
         /\ "dag" \in Blocking(blind) => Misrouted
         /\ "ledger" \in Blocking(blind) => Unnoted
         /\ Blocking(blind) \in SUBSET Hooks
  <1>1. /\ DagBlocks <=> Misrouted
        /\ LedgerBlocks <=> Unnoted
    BY DEF TripwireInductive, TurnIsKnown, DagBlocks, Misrouted, LedgerBlocks, Unnoted
  <1> QED
    BY <1>1 DEF Blocking, Hooks

\* A stop that is not blocked ends the turn.
LEMMA StopKeeps ==
  ASSUME TripwireInductive, NEW failing \in SUBSET Hooks, Stop(failing)
  PROVE  TripwireInductive'
  <1> DEFINE blind == Unreadable(failing)
  <1>0. blind \in SUBSET Hooks
    BY DEF Unreadable
  <1>1. UNCHANGED <<transcript, last, did, torn>>
    BY DEF Stop
  <1>2. TurnIsKnown' /\ Prompts' = Prompts
    BY <1>1 DEF TripwireInductive, TurnIsKnown, DagContextInvoked, ShimUsed, WorkflowUsed,
       ForeignHost, LedgerNoted, Tools, Turn, Prompts
  <1>3. /\ active' \in BOOLEAN /\ working' \in BOOLEAN
        /\ blocked' \in SUBSET Hooks /\ unread' \in SUBSET Hooks
        /\ active' => blocked' # {}
    BY <1>0, HooksSee DEF Stop, TripwireInductive
  <1>4. working' => Prompts' # {}
    BY <1>2 DEF Stop, TripwireInductive
  <1>5. last' # <<>> => working'
    BY DEF Stop
  <1>6. NothingSlipsThrough'
    <2> SUFFICES ASSUME blocked' = {}
                 PROVE  /\ Misrouted' => "dag" \in unread'
                        /\ Unnoted' => "ledger" \in unread'
      BY DEF NothingSlipsThrough
    <2>1. blocked = {} /\ Blocking(blind) = {} /\ ~active
      BY DEF Stop, TripwireInductive
    <2>2. unread' = unread \cup blind
      BY <2>1 DEF Stop
    <2>3. (Misrouted => "dag" \in blind) /\ (Unnoted => "ledger" \in blind)
      BY <1>0, <2>1, HooksSee
    <2> QED
      BY <1>1, <2>2, <2>3 DEF Misrouted, Unnoted
  <1> QED
    BY <1>1, <1>2, <1>3, <1>4, <1>5, <1>6 DEF TripwireInductive

\* A step in which the assistant's turn goes on by one entry, and what the
\* entry is goes on record in "did".
LEMMA WriteKeeps ==
  ASSUME TripwireInductive, working, working' = working, NEW e \in Entry, ~IsRealUserPrompt(e),
         transcript' = Append(transcript, e),
         UNCHANGED <<active, blocked, unread, torn>>,
         did' \in Deeds,
         did'.context <=> did.context \/ e.skill,
         did'.shim <=> did.shim \/ (IsToolUse(e) /\ e.shim),
         did'.workflow <=> did.workflow \/ (IsToolUse(e) /\ e.tool = "Workflow"),
         did'.foreign <=> did.foreign \/ (IsToolUse(e) /\ e.foreign),
         did'.note <=> did.note \/ (IsToolUse(e) /\ e.note)
  PROVE  TripwireInductive'
  <1>1. transcript \in Seq(Entry) /\ Prompts # {}
    BY DEF TripwireInductive
  <1>2. /\ transcript' \in Seq(Entry) /\ Prompts' # {}
        /\ DagContextInvoked' <=> DagContextInvoked \/ e.skill
        /\ ShimUsed' <=> ShimUsed \/ (IsToolUse(e) /\ e.shim)
        /\ WorkflowUsed' <=> WorkflowUsed \/ (IsToolUse(e) /\ e.tool = "Workflow")
        /\ ForeignHost' <=> ForeignHost \/ (IsToolUse(e) /\ e.foreign)
        /\ LedgerNoted' <=> LedgerNoted \/ (IsToolUse(e) /\ e.note)
    BY <1>1, TurnGoesOn
  <1>3. TurnIsKnown'
    BY <1>2 DEF TripwireInductive, TurnIsKnown
  <1>4. NothingSlipsThrough'
    BY DEF NothingSlipsThrough
  <1> QED
    BY <1>2, <1>3, <1>4 DEF TripwireInductive

\* What the assistant does itself.
LEMMA WorkKeeps ==
  ASSUME TripwireInductive,
         \/ UseWorkflow \/ \E shim \in BOOLEAN : UseAgent(shim)
         \/ \E sidechain \in BOOLEAN : Skill(sidechain)
  PROVE  TripwireInductive'
  <1>0. did \in Deeds /\ Blank \in Entry
    BY BlankEntry DEF TripwireInductive
  <1>1. CASE UseWorkflow
    <2> DEFINE e == [Blank EXCEPT !.tool = "Workflow"]
    <2>1. e \in Entry /\ ~IsRealUserPrompt(e) /\ IsToolUse(e) /\ e.tool = "Workflow"
          /\ ~e.skill /\ ~e.shim /\ ~e.foreign /\ ~e.note
      BY <1>0 DEF Blank, Entry, Tool, IsRealUserPrompt, IsToolUse
    <2>2. /\ working /\ working' = working /\ transcript' = Append(transcript, e)
          /\ UNCHANGED <<active, blocked, unread, torn>> /\ did' = [did EXCEPT !.workflow = TRUE]
      BY <1>1 DEF UseWorkflow, Write
    <2> HIDE DEF e
    <2>3. /\ did' \in Deeds /\ did'.workflow /\ did'.context = did.context
          /\ did'.shim = did.shim /\ did'.foreign = did.foreign /\ did'.note = did.note
      BY <1>0, <2>2 DEF Deeds
    <2> QED
      BY <2>1, <2>2, <2>3, WriteKeeps
  <1>2. ASSUME NEW shim \in BOOLEAN, UseAgent(shim)
        PROVE  TripwireInductive'
    <2> DEFINE e == [Blank EXCEPT !.tool = "Agent", !.shim = shim]
    <2>1. e \in Entry /\ ~IsRealUserPrompt(e) /\ IsToolUse(e) /\ e.tool = "Agent"
          /\ ~e.skill /\ e.shim = shim /\ ~e.foreign /\ ~e.note
      BY <1>0 DEF Blank, Entry, Tool, IsRealUserPrompt, IsToolUse
    <2>2. /\ working /\ working' = working /\ transcript' = Append(transcript, e)
          /\ UNCHANGED <<active, blocked, unread, torn>> /\ did' = [did EXCEPT !.shim = @ \/ shim]
      BY <1>2 DEF UseAgent, Write
    <2> HIDE DEF e
    <2>3. /\ did' \in Deeds /\ did'.workflow = did.workflow /\ did'.context = did.context
          /\ did'.foreign = did.foreign /\ did'.note = did.note
          /\ did'.shim = (did.shim \/ shim)
      BY <1>0, <2>2 DEF Deeds
    <2> QED
      BY <2>1, <2>2, <2>3, WriteKeeps
  <1>3. ASSUME NEW sidechain \in BOOLEAN, Skill(sidechain)
        PROVE  TripwireInductive'
    <2> DEFINE e == [Blank EXCEPT !.skill = TRUE, !.sidechain = sidechain]
    <2>1. e \in Entry /\ ~IsRealUserPrompt(e) /\ ~IsToolUse(e) /\ e.skill
      BY <1>0 DEF Blank, Entry, Tool, IsRealUserPrompt, IsToolUse
    <2>2. /\ working /\ working' = working /\ transcript' = Append(transcript, e)
          /\ UNCHANGED <<active, blocked, unread, torn>> /\ did' = [did EXCEPT !.context = TRUE]
      BY <1>3 DEF Skill, Write
    <2> HIDE DEF e
    <2>3. /\ did' \in Deeds /\ did'.workflow = did.workflow /\ did'.context
          /\ did'.shim = did.shim /\ did'.foreign = did.foreign /\ did'.note = did.note
      BY <1>0, <2>2 DEF Deeds
    <2> QED
      BY <2>1, <2>2, <2>3, WriteKeeps
  <1> QED
    BY <1>1, <1>2, <1>3

\* A command is what the hooks take it for.
LEMMA CommandKeeps ==
  ASSUME TripwireInductive, NEW command \in Commands, RunCommand(command)
  PROVE  TripwireInductive'
  <1> DEFINE e == Seen[command]
  <1>0. did \in Deeds /\ e \in Entry
    BY BlankEntry DEF TripwireInductive
  <1>1. ~IsRealUserPrompt(e) /\ IsToolUse(e) /\ ~e.skill /\ e.tool = "Bash"
    BY DEF Seen, Blank, IsRealUserPrompt, IsToolUse
  <1>2. /\ working /\ working' = working /\ transcript' = Append(transcript, e)
        /\ UNCHANGED <<active, blocked, unread, torn>>
        /\ did' = [did EXCEPT !.shim = @ \/ e.shim, !.foreign = @ \/ e.foreign,
                              !.note = @ \/ e.note]
    BY DEF RunCommand, Write
  <1> HIDE DEF e
  <1>3. /\ did' \in Deeds /\ did'.workflow = did.workflow /\ did'.context = did.context
        /\ did'.shim = (did.shim \/ e.shim) /\ did'.foreign = (did.foreign \/ e.foreign)
        /\ did'.note = (did.note \/ e.note)
    BY <1>0, <1>2 DEF Deeds
  <1> QED
    BY <1>0, <1>1, <1>2, <1>3, WriteKeeps

\* What a subagent does, and the result of a command, add nothing.
LEMMA OthersKeep ==
  ASSUME TripwireInductive, Result \/ \E d \in Delegated : Subagent(d)
  PROVE  TripwireInductive'
  <1> DEFINE r == [Blank EXCEPT !.user = TRUE, !.result = TRUE]
  <1>1. ASSUME NEW e \in Entry, ~IsRealUserPrompt(e), ~IsToolUse(e), ~e.skill,
               working, working' = working, transcript' = Append(transcript, e),
               UNCHANGED <<active, did, blocked, unread, torn>>
        PROVE  TripwireInductive'
    BY <1>1, WriteKeeps DEF TripwireInductive
  <1>2. CASE Result
    <2>1. r \in Entry /\ ~IsRealUserPrompt(r) /\ ~IsToolUse(r) /\ ~r.skill
      BY BlankEntry DEF Blank, Entry, IsRealUserPrompt, IsToolUse
    <2>2. working
      BY <1>2 DEF Result, TripwireInductive
    <2>3. working' = working /\ transcript' = Append(transcript, r)
          /\ UNCHANGED <<active, did, blocked, unread, torn>>
      BY <1>2 DEF Result
    <2> QED
      BY <1>1, <2>1, <2>2, <2>3
  <1>3. ASSUME NEW d \in Delegated, Subagent(d)
        PROVE  TripwireInductive'
    <2> DEFINE e == [d EXCEPT !.sidechain = TRUE]
    <2>1. d \in Entry /\ ~d.skill
      <3> DEFINE d1 == [Blank EXCEPT !.user = TRUE, !.marker = TRUE]
                 d2 == [Blank EXCEPT !.tool = "Workflow"]
                 d3 == [Blank EXCEPT !.tool = "Agent", !.shim = TRUE]
      <3>1. d1 \in Entry /\ ~d1.skill
        BY DEF Blank, Entry, Tool
      <3>2. d2 \in Entry /\ ~d2.skill
        BY DEF Blank, Entry, Tool
      <3>3. d3 \in Entry /\ ~d3.skill
        BY DEF Blank, Entry, Tool
      <3>4. d = d1 \/ d = d2 \/ d = d3
        BY DEF Delegated
      <3> QED
        BY <3>1, <3>2, <3>3, <3>4
    <2>2. e \in Entry /\ ~IsRealUserPrompt(e) /\ ~IsToolUse(e) /\ ~e.skill
      BY <2>1 DEF Entry, IsRealUserPrompt, IsToolUse
    <2>3. working /\ working' = working /\ transcript' = Append(transcript, e)
          /\ UNCHANGED <<active, did, blocked, unread, torn>>
      BY <1>3 DEF Subagent, Write
    <2> QED
      BY <1>1, <2>2, <2>3
  <1> QED
    BY <1>2, <1>3

\* The user's prompt begins a turn in which nothing has happened.
LEMMA PromptKeeps ==
  ASSUME TripwireInductive, NEW marked \in BOOLEAN, Prompt(marked)
  PROVE  TripwireInductive'
  <1> DEFINE e == [Blank EXCEPT !.user = TRUE, !.marker = marked]
  <1>1. e \in Entry /\ IsRealUserPrompt(e) /\ ~e.skill /\ e.marker = marked
    BY BlankEntry DEF Blank, Entry, IsRealUserPrompt
  <1>2. /\ ~working /\ working' = TRUE /\ transcript' = Append(transcript, e)
        /\ did' = [Nothing EXCEPT !.context = marked]
        /\ active' = FALSE /\ blocked' = {} /\ unread' = {} /\ UNCHANGED <<last, torn>>
    BY DEF Prompt
  <1> HIDE DEF e
  <1>3. /\ transcript' \in Seq(Entry) /\ Prompts' # {}
        /\ DagContextInvoked' <=> e.marker
        /\ ~ShimUsed' /\ ~WorkflowUsed' /\ ~ForeignHost' /\ ~LedgerNoted'
    BY <1>1, <1>2, TurnBegins DEF TripwireInductive
  <1>4. /\ did' \in Deeds /\ did'.context = marked
        /\ ~did'.shim /\ ~did'.workflow /\ ~did'.foreign /\ ~did'.note
    BY <1>2 DEF Nothing, Deeds
  <1>5. TurnIsKnown'
    BY <1>1, <1>3, <1>4 DEF TurnIsKnown
  <1>6. NothingSlipsThrough'
    BY <1>2 DEF NothingSlipsThrough
  <1> QED
    BY <1>2, <1>3, <1>4, <1>5, <1>6 DEF TripwireInductive

\* Nothing changes, or a line of the file is cut short.
LEMMA SessionStutters ==
  ASSUME TripwireInductive, Tear \/ UNCHANGED vars
  PROVE  TripwireInductive'
  <1>1. /\ UNCHANGED <<transcript, active, working, last, did, blocked, unread>>
        /\ torn' \in BOOLEAN
    BY DEF Tear, vars, TripwireInductive
  <1>2. TurnIsKnown' /\ Prompts' = Prompts
    BY <1>1 DEF TripwireInductive, TurnIsKnown, DagContextInvoked, ShimUsed, WorkflowUsed,
       ForeignHost, LedgerNoted, Tools, Turn, Prompts
  <1>3. NothingSlipsThrough'
    BY <1>1 DEF TripwireInductive, NothingSlipsThrough, Misrouted, Unnoted
  <1> QED
    BY <1>1, <1>2, <1>3 DEF TripwireInductive

\* Every state of a session satisfies the inductive invariant: what the hooks
\* read off the transcript, prompts, tool results and subagents in it, is what
\* happened in the turn.
THEOREM TripwireInvariant == Spec => []TripwireInductive
  <1>1. TripwireInductive /\ [Next]_vars => TripwireInductive'
    BY StopKeeps, WorkKeeps, CommandKeeps, OthersKeep, PromptKeeps, SessionStutters DEF Next
  <1> QED
    BY <1>1, SessionStarts, PTL DEF Spec

\* A turn that ends without a checkpoint had nothing to be stopped for that a
\* hook which could read the transcript looks for, in a session of any length
\* with any command lines.
THEOREM NothingIsMissed == Spec => []NothingSlipsThrough
  <1>1. TripwireInductive => NothingSlipsThrough
    BY DEF TripwireInductive
  <1> QED
    BY <1>1, TripwireInvariant, PTL

\* A hook blocks only for what happened since the last prompt of the user.
THEOREM BlockingHasCause == Spec => BlocksForCause
  <1>1. TripwireInductive /\ [Next]_vars
          => [/\ "dag" \in blocked' \ blocked => Misrouted
              /\ "ledger" \in blocked' \ blocked => Unnoted]_vars
    <2> SUFFICES ASSUME TripwireInductive, Next
                 PROVE  /\ "dag" \in blocked' \ blocked => Misrouted
                        /\ "ledger" \in blocked' \ blocked => Unnoted
      OBVIOUS
    <2>1. ASSUME NEW failing \in SUBSET Hooks, Stop(failing)
          PROVE  /\ "dag" \in blocked' \ blocked => Misrouted
                 /\ "ledger" \in blocked' \ blocked => Unnoted
      <3>1. Unreadable(failing) \in SUBSET Hooks
        BY DEF Unreadable
      <3> QED
        BY <2>1, <3>1, HooksSee DEF Stop
    <2>2. CASE ~\E failing \in SUBSET Hooks : Stop(failing)
      <3>1. blocked' \subseteq blocked
        BY <2>2 DEF Next, UseWorkflow, Result, Tear, Prompt, UseAgent, Skill, Subagent, RunCommand
      <3> QED
        BY <3>1
    <2> QED
      BY <2>1, <2>2
  <1> QED
    BY <1>1, TripwireInvariant, PTL DEF Spec, BlocksForCause
=============================================================================
