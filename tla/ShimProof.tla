------------------------------ MODULE ShimProof ------------------------------
(***************************************************************************)
(* Proofs about the shim, for any number of shims and dispatches, any      *)
(* adapters and return codes, and any number of faults, interrupts and     *)
(* kills.                                                                  *)
(***************************************************************************)
EXTENDS ShimRefinement, SequenceTheorems, TLAPS

-----------------------------------------------------------------------------
(* Types.                                                                  *)

\* The exit status of a supervised provider fits a byte.
LEMMA ExitCodeByte ==
  ASSUME SupervisorTyped, NEW s \in Shims
  PROVE  ExitCode(s) \in 0 .. 255
  BY DEF SupervisorTyped, ExitCode, Clamp

\* Every step of the supervision keeps the types.
LEMMA SuperviseTyped ==
  ASSUME SupervisorTyped, NEW s \in Shims, Supervise(s)
  PROVE  SupervisorTyped'
  <1>1. step' \in [Shims -> Step]
    BY DEF SupervisorTyped, Supervise, BeginPolling, SeesExit, TimesOut,
       Terminate, GraceOver, Reap, Sweep, SweepOver, Drain, ToStep, Step
  <1>2. /\ leader' \in [Shims -> {"none", "alive", "dead"}]
        /\ code' \in [Shims -> Int]
    BY DEF SupervisorTyped, Supervise, BeginPolling, SeesExit, TimesOut,
       Terminate, GraceOver, Reap, Sweep, SweepOver, Drain, groupVars
  <1>3. /\ members' \in [Shims -> BOOLEAN] /\ detached' \in [Shims -> BOOLEAN]
        /\ pumping' \in [Shims -> BOOLEAN]
    BY DEF SupervisorTyped, Supervise, BeginPolling, SeesExit, TimesOut,
       Terminate, GraceOver, Reap, Sweep, SweepOver, Drain, groupVars
  <1>4. timedOut' \in [Shims -> BOOLEAN] /\ cancelled' \in [Shims -> BOOLEAN]
    BY DEF SupervisorTyped, Supervise, BeginPolling, SeesExit, TimesOut,
       Terminate, GraceOver, Reap, Sweep, SweepOver, Drain
  <1> QED
    BY <1>1, <1>2, <1>3, <1>4 DEF SupervisorTyped

\* Starting the provider, failing to start it, cancelling it and what it does
\* by itself keep the types.
LEMMA OthersTyped ==
  ASSUME SupervisorTyped, NEW s \in Shims,
         Spawn(s) \/ SpawnFails(s) \/ Cancels(s) \/ Provider(s)
  PROVE  SupervisorTyped'
  <1>1. CASE Spawn(s)
    BY <1>1 DEF SupervisorTyped, Spawn, ToStep, Step
  <1>2. CASE SpawnFails(s)
    BY <1>2 DEF SupervisorTyped, SpawnFails, ToStep, Step
  <1>3. CASE Cancels(s)
    BY <1>3 DEF SupervisorTyped, Cancels, groupVars, Step
  <1>4. CASE LeaderExits(s)
    BY <1>4, DispatchAssumption DEF SupervisorTyped, LeaderExits
  <1>5. CASE OthersExit(s)
    BY <1>5 DEF SupervisorTyped, OthersExit
  <1>6. CASE PipesClose(s)
    BY <1>6 DEF SupervisorTyped, PipesClose
  <1> QED
    BY <1>1, <1>2, <1>3, <1>4, <1>5, <1>6 DEF Provider

\* An early end that still has a request or a row to write.
EarlyEnd == {"refused", "unread"}

\* Whoever is on the way out knows how the dispatch ended; without this the
\* types are not inductive.
Decided ==
  \A s \in Shims : pc[s] \in FinalTry \cup EarlyEnd => verdict[s].status # "none"

\* A transition to a state of the table keeps the types.
LEMMA TransitionTyped ==
  ASSUME TypeOK, NEW s \in Shims, NEW from, NEW state \in LifeState, NEW to \in Pc,
         Transition(s, from, state, to)
  PROVE  TypeOK'
  <1>1. Home(s) \in Dispatches
    BY DispatchAssumption DEF Home
  <1>2. SupervisorTyped'
    BY DEF TypeOK, SupervisorTyped, Transition, supervisorVars, groupVars
  <1> QED
    BY <1>1, <1>2 DEF TypeOK, Transition, Goes

\* A step inside the shim that is neither a transition nor supervision keeps
\* the types: it moves on, may decide the end, may append to the ledger.
LEMMA LedgerTyped ==
  ASSUME TypeOK, NEW s \in Shims, NEW from, NEW to \in Pc, Goes(s, from, to),
         UNCHANGED unrecorded, UNCHANGED spent,
         \/ UNCHANGED verdict
         \/ \E status \in DispatchStatus, exit \in 0 .. 255 : Ends(s, status, exit),
         \/ UNCHANGED ledger
         \/ \E row \in Row : Append1(s, row)
  PROVE  TypeOK'
  <1>1. SupervisorTyped'
    BY DEF TypeOK, SupervisorTyped, unrecorded, supervisorVars, groupVars
  <1>2. verdict' \in [Shims -> Verdict]
    <2>1. CASE \E status \in DispatchStatus, exit \in 0 .. 255 :
                 Ends(s, status, exit)
      <3>1. PICK status \in DispatchStatus, exit \in 0 .. 255 :
                   Ends(s, status, exit)
        BY <2>1
      <3> QED
        BY <3>1 DEF TypeOK, Ends, Verdict
    <2> QED
      BY <2>1 DEF TypeOK
  <1>3. ledger' \in [Shims -> Seq(Row)]
    <2>1. ASSUME NEW row \in Row
          PROVE  Append(ledger[s], row) \in Seq(Row)
      BY AppendProperties DEF TypeOK
    <2>2. CASE \E row \in Row : Append1(s, row)
      <3>1. PICK row \in Row : Append1(s, row)
        BY <2>2
      <3> QED
        BY <2>1, <3>1 DEF TypeOK, Append1
    <2> QED
      BY <2>2 DEF TypeOK
  <1> QED
    BY <1>1, <1>2, <1>3 DEF TypeOK, Goes, unrecorded

\* The rows that are written are rows.
LEMMA Rows ==
  /\ [event |-> "started"] \in Row
  /\ \A exit \in 0 .. 255 : Finished(exit) \in Row
  BY DEF Row, Finished

\* Every step of a shim keeps the types.
LEMMA ShimTyped ==
  ASSUME TypeOK, Decided, NEW s \in Shims, Shim(s)
  PROVE  TypeOK'
  <1>h. Home(s) \in Dispatches
    BY DispatchAssumption DEF Home
  <1>1. CASE Start(s)
    BY <1>1, LedgerTyped DEF Start, Pc
  <1>2. CASE Create(s)
    <2>1. SupervisorTyped'
      BY <1>2 DEF TypeOK, SupervisorTyped, Create, supervisorVars, groupVars
    <2> QED
      BY <1>2, <1>h, <2>1 DEF TypeOK, Create, Goes, Pc
  <1>3. CASE Open(s) \/ BeginPreflight(s) \/ BecomeReady(s) \/ PrepareWorkspace(s)
             \/ WorkspaceReady(s) \/ StartRunning(s)
    BY <1>3, TransitionTyped DEF Open, BeginPreflight, BecomeReady,
       PrepareWorkspace, WorkspaceReady, StartRunning, LifeState, Pc
  <1>4. CASE PreflightFails(s)
    <2>1. \/ UNCHANGED ledger
          \/ \E row \in Row : Append1(s, row)
      BY <1>4, Rows DEF PreflightFails
    <2>2. Goes(s, "preflight", "refused") /\ Ends(s, "preflight_failed", 127)
          /\ UNCHANGED unrecorded /\ UNCHANGED spent
      BY <1>4 DEF PreflightFails
    <2>3. "preflight_failed" \in DispatchStatus /\ "refused" \in Pc
      BY DEF DispatchStatus, Pc
    <2> QED
      BY <2>1, <2>2, <2>3, LedgerTyped
  <1>5. CASE PreflightSucceeds(s) \/ RecordRequest(s) \/ Publish(s) \/ Exit(s)
    BY <1>5, LedgerTyped DEF PreflightSucceeds, RecordRequest, Publish, Exit,
       Pc, FinalTry, Ended
  <1>6. CASE LedgerStarted(s)
    BY <1>6, LedgerTyped, Rows DEF LedgerStarted, Pc
  <1>7. CASE PromptUnreadable(s) \/ WorkspaceFails(s)
    BY <1>7, LedgerTyped, Rows
    DEF PromptUnreadable, WorkspaceFails, DispatchStatus, Pc, FinalTry
  <1>8. CASE PromptRead(s)
    BY <1>8, LedgerTyped DEF PromptRead, Pc
  <1>9. CASE Launch(s)
    <2>1. SupervisorTyped'
      BY <1>9, OthersTyped DEF TypeOK, Launch
    <2> QED
      BY <1>9, <2>1 DEF TypeOK, Launch, Goes, Pc
  <1>10. CASE Supervising(s)
    <2>1. SupervisorTyped'
      BY <1>10, SuperviseTyped DEF TypeOK, Supervising
    <2> QED
      BY <1>10, <2>1 DEF TypeOK, Supervising, shimVars
  <1>11. CASE Return(s)
    <2>1. FinalStatus(s) \in DispatchStatus /\ ExitCode(s) \in 0 .. 255
      BY ExitCodeByte DEF TypeOK, FinalStatus, DispatchStatus
    <2> QED
      BY <1>11, <2>1, LedgerTyped DEF Return, Pc, FinalTry
  <1>12. CASE LedgerFinished(s)
    <2>1. Finished(verdict[s].exit) \in Row
      BY Rows DEF TypeOK, Verdict
    <2> QED
      BY <1>12, <2>1, LedgerTyped DEF LedgerFinished, Pc, FinalTry
  <1>13. CASE Settle(s)
    <2>1. verdict[s].status \in LifeState
      BY <1>13 DEF TypeOK, Verdict, Decided, Settle, Transition, Goes, FinalTry,
         LifeState
    <2> QED
      BY <1>13, <2>1, TransitionTyped DEF Settle, Pc, FinalTry
  <1>14. CASE Conclude(s)
    <2>1. SupervisorTyped'
      BY <1>14 DEF TypeOK, SupervisorTyped, Conclude, supervisorVars, groupVars
    <2>2. verdict[s] \in Record
      BY <1>14 DEF TypeOK, Verdict, Record, Decided, Conclude, Goes, FinalTry
    <2> QED
      BY <1>14, <1>h, <2>1, <2>2 DEF TypeOK, Conclude, Goes, Pc, FinalTry
  <1>15. CASE Announce(s)
    <2>1. SupervisorTyped'
      BY <1>15 DEF TypeOK, SupervisorTyped, Announce, supervisorVars, groupVars
    <2>2. verdict[s].exit \in 0 .. 255
      BY DEF TypeOK, Verdict
    <2> QED
      BY <1>15, <2>1, <2>2 DEF TypeOK, Announce, Goes, Pc, Ended
  <1> QED
    BY <1>1, <1>2, <1>3, <1>4, <1>5, <1>6, <1>7, <1>8, <1>9, <1>10, <1>11,
       <1>12, <1>13, <1>14, <1>15 DEF Shim

\* Whatever happens to a shim keeps the types.
LEMMA EnvironmentTyped ==
  ASSUME TypeOK, NEW s \in Shims, Environment(s)
  PROVE  TypeOK'
  <1>1. CASE Fault(s)
    <2>1. pc' \in [Shims -> Pc]
      <3>1. \E to \in {"prompt", "prepare", "settle", "announce", "raised"} :
              pc' = [pc EXCEPT ![s] = to]
        BY <1>1 DEF Fault, Goes
      <3> QED
        BY <3>1 DEF TypeOK, Pc, FinalTry, Ended
    <2>2. SupervisorTyped'
      BY <1>1 DEF TypeOK, SupervisorTyped, Fault, supervisorVars, groupVars
    <2>3. spent' \in [faults : Nat, interrupts : Nat, kills : Nat]
      <3>1. spent \in [faults : Nat, interrupts : Nat, kills : Nat]
        BY DEF TypeOK
      <3>2. spent' = [spent EXCEPT !.faults = spent.faults + 1]
        BY <1>1 DEF Fault
      <3> QED
        BY <3>1, <3>2
    <2> QED
      BY <1>1, <2>1, <2>2, <2>3 DEF TypeOK, Fault, unharmed
  <1>2. CASE Interrupt(s)
    <2>1. pc' \in [Shims -> Pc]
      BY <1>2 DEF TypeOK, Interrupt, Goes, Pc, FinalTry, Ended
    <2>2. SupervisorTyped'
      <3>1. CASE Cancels(s)
        BY <3>1, OthersTyped DEF TypeOK
      <3>2. CASE UNCHANGED supervisorVars
        BY <3>2 DEF TypeOK, SupervisorTyped, supervisorVars, groupVars
      <3>3. Cancels(s) \/ UNCHANGED supervisorVars
        BY <1>2 DEF Interrupt
      <3> QED
        BY <3>1, <3>2, <3>3
    <2>3. spent' \in [faults : Nat, interrupts : Nat, kills : Nat]
      <3>1. spent \in [faults : Nat, interrupts : Nat, kills : Nat]
        BY DEF TypeOK
      <3>2. spent' = [spent EXCEPT !.interrupts = spent.interrupts + 1]
        BY <1>2 DEF Interrupt
      <3> QED
        BY <3>1, <3>2
    <2> QED
      BY <1>2, <2>1, <2>2, <2>3 DEF TypeOK, Interrupt, unharmed
  <1>3. CASE Kill(s)
    <2>1. pc' \in [Shims -> Pc]
      BY <1>3 DEF TypeOK, Kill, Goes, Pc, Ended
    <2>2. SupervisorTyped'
      BY <1>3 DEF TypeOK, SupervisorTyped, Kill, supervisorVars, groupVars
    <2>3. spent' \in [faults : Nat, interrupts : Nat, kills : Nat]
      <3>1. spent \in [faults : Nat, interrupts : Nat, kills : Nat]
        BY DEF TypeOK
      <3>2. spent' = [spent EXCEPT !.kills = spent.kills + 1]
        BY <1>3 DEF Kill
      <3> QED
        BY <3>1, <3>2
    <2> QED
      BY <1>3, <2>1, <2>2, <2>3 DEF TypeOK, Kill, unharmed
  <1>4. CASE LateOutput(s)
    <2>1. SupervisorTyped'
      BY <1>4 DEF TypeOK, SupervisorTyped, LateOutput, supervisorVars, groupVars
    <2> QED
      BY <1>4, <2>1 DEF TypeOK, LateOutput
  <1>5. CASE Provider(s) /\ UNCHANGED <<shimVars, adapter, spent>>
    <2>1. SupervisorTyped'
      BY <1>5, OthersTyped DEF TypeOK
    <2> QED
      BY <1>5, <2>1 DEF TypeOK, shimVars
  <1> QED
    BY <1>1, <1>2, <1>3, <1>4, <1>5 DEF Environment

\* How the dispatch ended is known from Return, or an early end, onwards.
LEMMA DecidedKept ==
  ASSUME TypeOK, Decided, [Next]_vars
  PROVE  Decided'
  <1>1. ASSUME NEW s \in Shims, Shim(s)
        PROVE  Decided'
    <2>1. FinalStatus(s) # "none"
      BY DEF FinalStatus
    <2>2. CASE Start(s) \/ Create(s) \/ Open(s) \/ BeginPreflight(s)
            \/ PreflightSucceeds(s) \/ BecomeReady(s) \/ LedgerStarted(s)
            \/ PromptRead(s) \/ PrepareWorkspace(s) \/ WorkspaceReady(s)
            \/ StartRunning(s) \/ Launch(s) \/ Announce(s) \/ Exit(s) \/ Publish(s)
      BY <2>2 DEF TypeOK, Decided, FinalTry, EarlyEnd, Goes, Transition,
         unrecorded, Start, Create, Open, BeginPreflight, PreflightSucceeds,
         BecomeReady, LedgerStarted, PromptRead, PrepareWorkspace,
         WorkspaceReady, StartRunning, Launch, Announce, Exit, Publish
    <2>3. CASE PreflightFails(s) \/ PromptUnreadable(s) \/ WorkspaceFails(s)
               \/ Return(s)
      <3>1. /\ \E to : pc' = [pc EXCEPT ![s] = to]
            /\ \E status, exit : /\ status # "none"
                                 /\ verdict' = [verdict EXCEPT ![s] =
                                      [status |-> status, exit |-> exit]]
        BY <2>1, <2>3 DEF Goes, Ends, PreflightFails, PromptUnreadable,
           WorkspaceFails, Return
      <3> QED
        BY <3>1 DEF TypeOK, Decided
    <2>4. CASE LedgerFinished(s) \/ RecordRequest(s) \/ Settle(s) \/ Conclude(s)
      BY <2>4 DEF TypeOK, Decided, FinalTry, EarlyEnd, Goes, Transition,
         LedgerFinished, RecordRequest, Settle, Conclude
    <2>5. CASE Supervising(s)
      BY <2>5 DEF Decided, Supervising, shimVars
    <2> QED
      BY <1>1, <2>2, <2>3, <2>4, <2>5 DEF Shim
  <1>2. ASSUME NEW s \in Shims, Environment(s)
        PROVE  Decided'
    <2>1. CASE Fault(s) \/ Interrupt(s) \/ Kill(s)
      BY <2>1 DEF TypeOK, Decided, FinalTry, EarlyEnd, Ended, Goes, unharmed, Fault,
         Interrupt, Kill
    <2>2. CASE LateOutput(s)
      BY <2>2 DEF Decided, LateOutput
    <2>3. CASE Provider(s) /\ UNCHANGED <<shimVars, adapter, spent>>
      BY <2>3 DEF Decided, shimVars
    <2> QED
      BY <1>2, <2>1, <2>2, <2>3 DEF Environment
  <1>3. CASE UNCHANGED vars
    BY <1>3 DEF Decided, vars, shimVars
  <1> QED
    BY <1>1, <1>2, <1>3 DEF Next

\* Every variable of the shim and of its supervision keeps its type.
THEOREM ShimTypeCorrect == Spec => [](TypeOK /\ Decided)
  <1>1. Init => TypeOK /\ Decided
    <2>1. ASSUME Init
          PROVE  SupervisorTyped
      BY <2>1 DEF Init, SupervisorInit, SupervisorTyped, Step
    <2>2. ASSUME Init
          PROVE  ledger \in [Shims -> Seq(Row)]
      BY <2>2, EmptySeq DEF Init
    <2> QED
      BY <2>1, <2>2, DispatchAssumption
      DEF Init, TypeOK, Decided, Pc, FinalTry, EarlyEnd, LifeState, Verdict
  <1>2. TypeOK /\ Decided /\ [Next]_vars => (TypeOK /\ Decided)'
    <2>1. ASSUME TypeOK, Decided, UNCHANGED vars
          PROVE  TypeOK'
      BY <2>1 DEF TypeOK, SupervisorTyped, vars, shimVars, supervisorVars,
         groupVars
    <2> QED
      BY <2>1, ShimTyped, EnvironmentTyped, DecidedKept DEF Next
  <1> QED
    BY <1>1, <1>2, PTL DEF Spec

-----------------------------------------------------------------------------
(* The provider is gone before the sentinel.                               *)

\* From where the supervision is, what is left of the provider's group.
Supervised ==
  \A s \in Shims :
    /\ step[s] \in {"idle", "draining", "done"} => GroupGone(s)
    /\ step[s] \in {"sweeping", "sweepGrace"} => leader[s] # "alive"

\* Before and after the supervision.
Early == {"start", "create", "open", "created", "preflight", "passed",
          "ledgerFirst", "prompt", "ledgerSecond", "prepare", "workspace",
          "prepared", "spawn"}
Late == FinalTry \cup {"announce", "lastWords", "announced", "returned"}

\* From where the shim is, where its supervision is.
Placed ==
  \A s \in Shims :
    /\ pc[s] \in Early \cup EarlyEnd => step[s] = "idle"
    /\ pc[s] \in Late => step[s] \in {"idle", "done"}
    /\ sentinel[s] # None =>
         /\ pc[s] \in {"announced"} \cup Ended
         /\ GroupGone(s)

\* The supervision clears the group away before it ends, and nobody joins a
\* group that is gone.
LEMMA SupervisedKept ==
  ASSUME TypeOK, Supervised, [Next]_vars
  PROVE  Supervised'
  <1> USE DEF Supervised, GroupGone
  <1>t. SupervisorTyped
    BY DEF TypeOK
  <1>1. ASSUME NEW s \in Shims, Shim(s)
        PROVE  Supervised'
    <2>1. CASE UNCHANGED supervisorVars
      BY <2>1 DEF supervisorVars, groupVars
    <2>2. CASE Spawn(s) \/ SpawnFails(s)
      BY <1>t, <2>2 DEF SupervisorTyped, Spawn, SpawnFails, ToStep
    <2>3. CASE Supervise(s)
      <3>1. CASE BeginPolling(s) \/ SeesExit(s) \/ TimesOut(s) \/ Terminate(s)
        BY <1>t, <3>1 DEF SupervisorTyped, BeginPolling, SeesExit, TimesOut,
           Terminate, ToStep, groupVars
      <3>2. CASE GraceOver(s) \/ Reap(s)
        BY <1>t, <3>2 DEF SupervisorTyped, GraceOver, Reap, ToStep, groupVars
      <3>3. CASE Sweep(s) \/ SweepOver(s) \/ Drain(s)
        BY <1>t, <3>3 DEF SupervisorTyped, Sweep, SweepOver, Drain, ToStep,
           groupVars
      <3> QED
        BY <2>3, <3>1, <3>2, <3>3 DEF Supervise
    <2> QED
      BY <1>1, <2>1, <2>2, <2>3 DEF Shim, Start, Create, Open, BeginPreflight,
         PreflightFails, RecordRequest, PreflightSucceeds, BecomeReady,
         LedgerStarted, PromptUnreadable, PromptRead, PrepareWorkspace,
         WorkspaceFails, WorkspaceReady, StartRunning, Launch, Supervising,
         Return, LedgerFinished, Settle, Conclude, Publish, Announce, Exit,
         Transition, unrecorded
  <1>2. ASSUME NEW s \in Shims, Environment(s)
        PROVE  Supervised'
    <2>1. CASE UNCHANGED supervisorVars
      BY <2>1 DEF supervisorVars, groupVars
    <2>2. CASE Cancels(s)
      BY <1>t, <2>2 DEF SupervisorTyped, Cancels, groupVars
    <2>3. CASE Provider(s)
      BY <1>t, <2>3 DEF SupervisorTyped, Provider, LeaderExits, OthersExit,
         PipesClose
    <2> QED
      BY <1>2, <2>1, <2>2, <2>3 DEF Environment, Fault, Interrupt, Kill, LateOutput
  <1>3. CASE UNCHANGED vars
    BY <1>3 DEF vars, supervisorVars, groupVars
  <1> QED
    BY <1>1, <1>2, <1>3 DEF Next

\* The provider's group, once gone, stays gone while its shim lives on.
LEMMA GoneForGood ==
  ASSUME SupervisorTyped, NEW s \in Shims, GroupGone(s), Provider(s)
  PROVE  GroupGone(s)'
  BY DEF SupervisorTyped, GroupGone, Provider, LeaderExits, OthersExit, PipesClose

\* A shim that moves on, its supervision untouched, keeps the places if it
\* goes back from nowhere late, and ends once the sentinel is printed.
LEMMA Moved ==
  ASSUME TypeOK, Placed, NEW s \in Shims, NEW to, Goes(s, pc[s], to),
         UNCHANGED supervisorVars, UNCHANGED sentinel,
         to \in Early \cup EarlyEnd => pc[s] \in Early,
         to \in Late => pc[s] \in Early \cup EarlyEnd \cup Late \/ step[s] = "done",
         sentinel[s] = None \/ to \in Ended
  PROVE  Placed'
  <1>1. pc' = [pc EXCEPT ![s] = to] /\ UNCHANGED <<step, leader, members, sentinel>>
    BY DEF Goes, supervisorVars, groupVars
  <1>2. (Early \cup EarlyEnd) \cap Late = {} /\ "announced" \in Late
    BY DEF Early, EarlyEnd, Late, FinalTry
  <1>3. pc \in [Shims -> Pc]
    BY DEF TypeOK
  <1>4. ASSUME NEW t \in Shims, t # s
        PROVE  pc'[t] = pc[t]
    BY <1>1, <1>3, <1>4
  <1>5. pc'[s] = to
    BY <1>1, <1>3
  <1>6. ASSUME NEW t \in Shims
        PROVE  /\ pc'[t] \in Early \cup EarlyEnd => step'[t] = "idle"
               /\ pc'[t] \in Late => step'[t] \in {"idle", "done"}
    BY <1>1, <1>4, <1>5 DEF Placed
  <1>7. ASSUME NEW t \in Shims, sentinel'[t] # None
        PROVE  /\ pc'[t] \in {"announced"} \cup Ended
               /\ GroupGone(t)'
    BY <1>1, <1>4, <1>5, <1>7 DEF Placed, GroupGone, Ended
  <1> QED
    BY <1>6, <1>7 DEF Placed

\* Until it is announced the sentinel is not printed.
LEMMA Unsaid ==
  ASSUME Placed, NEW s \in Shims, pc[s] \notin {"announced"} \cup Ended
  PROVE  sentinel[s] = None
  BY DEF Placed, Ended

\* A step of a shim keeps the places.
LEMMA ShimPlaced ==
  ASSUME TypeOK, Supervised, Placed, NEW s \in Shims, Shim(s)
  PROVE  Placed'
  <1>1. CASE Start(s) \/ PreflightFails(s) \/ PreflightSucceeds(s)
             \/ LedgerStarted(s) \/ PromptUnreadable(s) \/ PromptRead(s)
             \/ WorkspaceFails(s)
    <2>1. /\ \E to \in {"announce", "create", "settle", "passed", "prompt",
                        "prepare", "ledgerSecond", "refused", "unread"} :
               Goes(s, pc[s], to)
          /\ pc[s] \in Early /\ UNCHANGED <<supervisorVars, sentinel>>
      BY <1>1 DEF Start, PreflightFails, PreflightSucceeds, LedgerStarted,
         PromptUnreadable, PromptRead, WorkspaceFails, unrecorded, Goes, Early
    <2> QED
      BY <2>1, Moved, Unsaid DEF Early, EarlyEnd, Ended
  <1>2. CASE Open(s) \/ BeginPreflight(s) \/ BecomeReady(s) \/ PrepareWorkspace(s)
             \/ WorkspaceReady(s) \/ StartRunning(s) \/ Create(s)
    <2>1. /\ \E to \in Early : Goes(s, pc[s], to)
          /\ pc[s] \in Early /\ UNCHANGED <<supervisorVars, sentinel>>
      BY <1>2 DEF Open, BeginPreflight, BecomeReady, PrepareWorkspace, Create,
         WorkspaceReady, StartRunning, Transition, Goes, Early
    <2> QED
      BY <2>1, Moved, Unsaid DEF Early, EarlyEnd, Ended
  <1>3. CASE Launch(s)
    <2>1. /\ \A t \in Shims \ {s} : /\ step'[t] = step[t]
                                   /\ leader'[t] = leader[t]
                                   /\ members'[t] = members[t]
      BY <1>3 DEF TypeOK, SupervisorTyped, Launch, Spawn, SpawnFails, ToStep
    <2>2. pc[s] = "spawn" /\ pc' = [pc EXCEPT ![s] = "supervise"]
          /\ UNCHANGED sentinel
      BY <1>3 DEF Launch, Goes
    <2>3. sentinel[s] = None
      BY <2>2, Unsaid DEF Ended
    <2> QED
      BY <2>1, <2>2, <2>3 DEF TypeOK, Placed, GroupGone, Early, EarlyEnd, Late,
         FinalTry
  <1>4. CASE Supervising(s)
    <2>1. /\ \A t \in Shims \ {s} : /\ step'[t] = step[t]
                                   /\ leader'[t] = leader[t]
                                   /\ members'[t] = members[t]
      BY <1>4 DEF TypeOK, SupervisorTyped, Supervising, Supervise, BeginPolling,
         SeesExit, TimesOut, Terminate, GraceOver, Reap, Sweep, SweepOver, Drain,
         ToStep, groupVars
    <2>2. pc[s] = "supervise" /\ UNCHANGED <<pc, sentinel>>
      BY <1>4 DEF Supervising, shimVars
    <2>3. sentinel[s] = None
      BY <2>2, Unsaid DEF Ended
    <2> QED
      BY <2>1, <2>2, <2>3 DEF Placed, GroupGone, Early, EarlyEnd, Late, FinalTry
  <1>5. CASE Return(s)
    <2>1. /\ Goes(s, pc[s], "ledger") /\ step[s] = "done" /\ pc[s] = "supervise"
          /\ UNCHANGED <<supervisorVars, sentinel>>
      BY <1>5 DEF Return, unrecorded, Goes
    <2> QED
      BY <2>1, Moved, Unsaid DEF Early, EarlyEnd, Ended
  <1>6. CASE RecordRequest(s) \/ LedgerFinished(s) \/ Settle(s) \/ Conclude(s)
             \/ Publish(s)
    <2>1. /\ \E to \in {"settle", "conclude", "publish", "announce"} :
               Goes(s, pc[s], to)
          /\ pc[s] \in FinalTry \cup EarlyEnd
          /\ UNCHANGED <<supervisorVars, sentinel>>
      BY <1>6 DEF RecordRequest, LedgerFinished, EarlyEnd, Settle, Conclude,
         Publish, Transition, unrecorded, Goes, FinalTry
    <2> QED
      BY <2>1, Moved, Unsaid DEF Early, EarlyEnd, Late, FinalTry, Ended
  <1>7. CASE Exit(s)
    <2>1. /\ Goes(s, pc[s], "returned") /\ pc[s] = "announced"
          /\ UNCHANGED <<supervisorVars, sentinel>>
      BY <1>7 DEF Exit, unrecorded, Goes
    <2> QED
      BY <2>1, Moved DEF Early, EarlyEnd, Late, Ended
  <1>8. CASE Announce(s)
    <2>1. /\ pc[s] \in {"announce", "lastWords"}
          /\ \E to \in {"announced", "interrupted"} : pc' = [pc EXCEPT ![s] = to]
          /\ \A t \in Shims \ {s} : sentinel'[t] = sentinel[t]
          /\ UNCHANGED <<step, leader, members>>
      BY <1>8 DEF TypeOK, Announce, Goes, supervisorVars, groupVars
    <2>2. step[s] \in {"idle", "done"} /\ GroupGone(s)
      BY <2>1 DEF Placed, Late, Supervised
    <2> QED
      BY <2>1, <2>2 DEF TypeOK, Placed, GroupGone, Early, EarlyEnd, Late,
         FinalTry, Ended
  <1> QED
    BY <1>1, <1>2, <1>3, <1>4, <1>5, <1>6, <1>7, <1>8 DEF Shim

\* Faults, interrupts and kills take a shim to places of the same kind, and
\* what the provider does by itself does not bring its group back.
LEMMA PlacedKept ==
  ASSUME TypeOK, Supervised, Placed, [Next]_vars
  PROVE  Placed'
  <1>1. ASSUME NEW s \in Shims, Environment(s)
        PROVE  Placed'
    <2>1. CASE Fault(s)
      <3>0. UNCHANGED <<supervisorVars, sentinel>>
        BY <2>1 DEF Fault, unharmed
      <3>1. CASE Goes(s, "ledgerFirst", "prompt") \/ Goes(s, "ledgerSecond", "prepare")
        BY <3>0, <3>1, Moved, Unsaid DEF Goes, Early, EarlyEnd, Ended
      <3>2. CASE \E from \in FinalTry \cup EarlyEnd, to \in {"settle", "announce"} :
                   Goes(s, from, to)
        BY <3>0, <3>2, Moved, Unsaid DEF Goes, Early, EarlyEnd, Late, FinalTry,
           Ended
      <3>3. CASE Goes(s, pc[s], "raised") /\ pc[s] \notin {"announced"} \cup Ended
        BY <3>0, <3>3, Moved, Unsaid DEF Early, EarlyEnd, Late, FinalTry
      <3> QED
        BY <2>1, <3>1, <3>2, <3>3 DEF Fault, FinalTry, EarlyEnd
    <2>2. CASE Interrupt(s)
      <3>1. CASE pc[s] = "supervise" /\ Cancels(s) /\ UNCHANGED pc
        <4>1. /\ \A t \in Shims \ {s} : step'[t] = step[t]
              /\ UNCHANGED <<pc, leader, members, sentinel>>
          BY <2>2, <3>1 DEF TypeOK, SupervisorTyped, Interrupt, Cancels, unharmed,
             groupVars
        <4>2. sentinel[s] = None
          BY <3>1, Unsaid DEF Ended
        <4> QED
          BY <3>1, <4>1, <4>2 DEF Placed, GroupGone, Early, EarlyEnd, Late, FinalTry
      <3>2. CASE UNCHANGED supervisorVars /\ pc[s] \in FinalTry
                 /\ Goes(s, pc[s], "lastWords")
        BY <2>2, <3>2, Moved, Unsaid DEF Interrupt, unharmed, Early, EarlyEnd,
           Late, FinalTry, Ended
      <3>3. CASE UNCHANGED supervisorVars /\ Goes(s, pc[s], "interrupted")
        BY <2>2, <3>3, Moved DEF Interrupt, unharmed, Early, EarlyEnd, Late,
           FinalTry, Ended
      <3> QED
        BY <2>2, <3>1, <3>2, <3>3 DEF Interrupt, Goes
    <2>3. CASE Kill(s)
      BY <2>3, Moved DEF Kill, unharmed, Early, EarlyEnd, Late, FinalTry, Ended
    <2>4. CASE LateOutput(s)
      BY <2>4 DEF LateOutput, Placed, GroupGone, supervisorVars, groupVars
    <2>5. CASE Provider(s) /\ UNCHANGED <<shimVars, adapter, spent>>
      <3>1. GroupGone(s) => GroupGone(s)'
        BY <2>5, GoneForGood DEF TypeOK
      <3>2. \A t \in Shims \ {s} : GroupGone(t) => GroupGone(t)'
        BY <2>5 DEF TypeOK, SupervisorTyped, GroupGone, Provider, LeaderExits,
           OthersExit, PipesClose
      <3>3. UNCHANGED <<pc, step, sentinel>>
        BY <2>5 DEF shimVars, Provider, LeaderExits, OthersExit, PipesClose
      <3> QED
        BY <3>1, <3>2, <3>3 DEF Placed
    <2> QED
      BY <1>1, <2>1, <2>2, <2>3, <2>4, <2>5 DEF Environment
  <1>2. CASE UNCHANGED vars
    BY <1>2 DEF vars, shimVars, supervisorVars, groupVars, GroupGone, Placed
  <1> QED
    BY <1>1, <1>2, ShimPlaced DEF Next

\* Once the sentinel is printed nothing of the provider's process group is
\* left, however the run ended and whatever the provider does.
THEOREM ProviderGone == Spec => []ProviderGoneBeforeSentinel
  <1>1. Init => Supervised /\ Placed
    BY DEF Init, SupervisorInit, Supervised, Placed, GroupGone, Early, EarlyEnd,
       Late, FinalTry
  <1>2. TypeOK /\ Supervised /\ Placed /\ [Next]_vars => (Supervised /\ Placed)'
    BY SupervisedKept, PlacedKept
  <1>3. Placed => ProviderGoneBeforeSentinel
    BY DEF Placed, ProviderGoneBeforeSentinel
  <1> QED
    BY <1>1, <1>2, <1>3, ShimTypeCorrect, PTL DEF Spec

-----------------------------------------------------------------------------
(* What a shim leaves on record: its states follow the table; ledger,      *)
(* record and sentinel tell one story, the true one; and it implements     *)
(* DispatchRecord.  The inductive invariant says for each place in         *)
(* dispatch_legacy what is known there.                                    *)

\* The state of the lifecycle is determined by the place, and the end that has
\* been decided is one the table allows.
LifeFits(s) ==
  /\ pc[s] \in {"start", "create", "open", "created"} => life[s] = "created"
  /\ pc[s] \in {"preflight", "passed", "refused"} => life[s] = "preflighting"
  /\ pc[s] \in {"ledgerFirst", "prompt", "ledgerSecond", "prepare", "unread"} =>
       life[s] = "ready"
  /\ pc[s] = "workspace" => life[s] = "workspace_preparing"
  /\ pc[s] = "prepared" => life[s] = "workspace_ready"
  /\ pc[s] \in {"spawn", "supervise", "ledger"} => life[s] = "running"
  /\ pc[s] \in {"ledger", "settle"} \cup EarlyEnd =>
       /\ life[s] \in DOMAIN TRANSITIONS
       /\ verdict[s].status \in TRANSITIONS[life[s]]

\* The end that has been decided is the one the supervision saw, its status
\* and its exit status belong together, and only the latter is announced.
VerdictFits(s) ==
  /\ pc[s] \in Early \cup {"supervise"} => verdict[s].status = "none"
  /\ step[s] = "idle" => ~timedOut[s] /\ ~cancelled[s]
  /\ verdict[s].status = "none" => verdict[s].exit = 64
  /\ verdict[s].status # "none" =>
       /\ step[s] \in {"idle", "done"}
       /\ Promise!Agrees(verdict[s].status, verdict[s].exit)
       /\ verdict[s].status = "timed_out" <=> timedOut[s]
       /\ verdict[s].status = "cancelled" => cancelled[s]
       /\ verdict[s].status = "succeeded" => code[s] = 0 /\ ~cancelled[s]
  /\ sentinel[s] \in {None, verdict[s].exit}

Started == <<[event |-> "started"]>>
OpenRows == {<< >>, Started}
ClosedRows(exit) == {<<Finished(exit)>>, Append(Started, Finished(exit))}

\* The rows in the ledger follow from the place; which of two ways led there
\* matters only to adapters that write the first row early and to rows that
\* could not be written.
LedgerFits(s) ==
  /\ ledger[s] \in OpenRows \cup ClosedRows(verdict[s].exit)
  /\ pc[s] \in Early \cup {"supervise", "ledger", "unread"} =>
       ledger[s] \in OpenRows
  /\ pc[s] \in {"start", "create", "open", "created", "preflight", "passed",
                "ledgerFirst", "ledgerSecond"} => ledger[s] = << >>
  /\ pc[s] = "ledgerFirst" => adapter[s].startLedgerBeforePrompt
  /\ pc[s] = "ledgerSecond" => ~adapter[s].startLedgerBeforePrompt
  /\ pc[s] = "prompt" /\ ~adapter[s].startLedgerBeforePrompt => ledger[s] = << >>
  /\ spent.faults = 0 =>
       /\ pc[s] = "prompt" /\ adapter[s].startLedgerBeforePrompt =>
            ledger[s] = Started
       /\ pc[s] \in {"prepare", "workspace", "prepared", "spawn", "supervise",
                     "ledger"} => ledger[s] = Started
       /\ pc[s] \in {"settle", "conclude", "publish", "announce", "announced",
                     "returned", "refused"} => ledger[s] # Started

\* What is in the run directory follows from the place; once the state there
\* is final it is the end that was decided, and so is the record.
RecordFits(s) ==
  /\ pc[s] \in {"start", "create", "open"} => run[Home(s)] = "none"
  /\ pc[s] \in Early \cup EarlyEnd \cup {"supervise", "ledger", "settle"} =>
       /\ pc[s] \notin {"start", "create", "open"} => run[Home(s)] = life[s]
       /\ record[Home(s)] = NoRecord
  /\ pc[s] = "conclude" => record[Home(s)] = NoRecord
  /\ pc[s] \in {"conclude", "publish"} => run[Home(s)] = verdict[s].status
  /\ run[Home(s)] = "none" => verdict[s].status = "none"
  /\ run[Home(s)] \in DispatchStatus => run[Home(s)] = verdict[s].status
  /\ record[Home(s)] # NoRecord =>
       record[Home(s)] = verdict[s] /\ run[Home(s)] \in DispatchStatus

LifeInv == \A s \in Shims : LifeFits(s)
VerdictInv == \A s \in Shims : VerdictFits(s)
LedgerInv == \A s \in Shims : LedgerFits(s)
RecordInv == \A s \in Shims : RecordFits(s)

-----------------------------------------------------------------------------
(* What a step may change.                                                 *)

\* What is a shim's own.
Own(s) == <<pc[s], adapter[s], life[s], verdict[s], sentinel[s], ledger[s],
            step[s], leader[s], code[s], timedOut[s], cancelled[s]>>

\* The run directory of a shim, its own if identifiers are distinct.
Shown(s) == <<run[Home(s)], record[Home(s)]>>

\* A step of one shim, or of what happens to it, changes nothing of another.
LEMMA OthersOwn ==
  ASSUME TypeOK, NEW s \in Shims, Shim(s) \/ Environment(s),
         NEW t \in Shims, t # s
  PROVE  Own(t)' = Own(t)
  <1>t. /\ pc \in [Shims -> Pc] /\ life \in [Shims -> LifeState]
        /\ verdict \in [Shims -> Verdict]
        /\ sentinel \in [Shims -> 0 .. 255 \cup {None}]
        /\ ledger \in [Shims -> Seq(Row)]
        /\ SupervisorTyped
    BY DEF TypeOK
  <1>1. adapter' = adapter
    BY DEF Shim, Start, Create, Open, BeginPreflight, PreflightFails,
       RecordRequest, PreflightSucceeds, BecomeReady, LedgerStarted,
       PromptUnreadable, PromptRead, PrepareWorkspace, WorkspaceFails,
       WorkspaceReady, StartRunning, Launch, Supervising, Return,
       LedgerFinished, Settle, Conclude, Publish, Announce, Exit, Transition,
       unrecorded, Environment, Fault, Interrupt, Kill, LateOutput, unharmed
  <1>2. pc'[t] = pc[t]
    BY <1>t DEF Shim, Start, Create, Open, BeginPreflight, PreflightFails,
       RecordRequest, PreflightSucceeds, BecomeReady, LedgerStarted,
       PromptUnreadable, PromptRead, PrepareWorkspace, WorkspaceFails,
       WorkspaceReady, StartRunning, Launch, Supervising, Return,
       LedgerFinished, Settle, Conclude, Publish, Announce, Exit, Transition,
       Environment, Fault, Interrupt, Kill, LateOutput, Goes, shimVars
  <1>3. life'[t] = life[t] /\ verdict'[t] = verdict[t]
    BY <1>t DEF Shim, Start, Create, Open, BeginPreflight, PreflightFails,
       RecordRequest, PreflightSucceeds, BecomeReady, LedgerStarted,
       PromptUnreadable, PromptRead, PrepareWorkspace, WorkspaceFails,
       WorkspaceReady, StartRunning, Launch, Supervising, Return,
       LedgerFinished, Settle, Conclude, Publish, Announce, Exit, Transition,
       Environment, Fault, Interrupt, Kill, LateOutput, Ends, unrecorded,
       unharmed, shimVars
  <1>4. sentinel'[t] = sentinel[t] /\ ledger'[t] = ledger[t]
    BY <1>t DEF Shim, Start, Create, Open, BeginPreflight, PreflightFails,
       RecordRequest, PreflightSucceeds, BecomeReady, LedgerStarted,
       PromptUnreadable, PromptRead, PrepareWorkspace, WorkspaceFails,
       WorkspaceReady, StartRunning, Launch, Supervising, Return,
       LedgerFinished, Settle, Conclude, Publish, Announce, Exit, Transition,
       Environment, Fault, Interrupt, Kill, LateOutput, Append1, unrecorded,
       unharmed, shimVars
  <1>5. /\ step'[t] = step[t] /\ leader'[t] = leader[t] /\ code'[t] = code[t]
        /\ timedOut'[t] = timedOut[t] /\ cancelled'[t] = cancelled[t]
    <2>1. CASE UNCHANGED supervisorVars
      BY <2>1 DEF supervisorVars, groupVars
    <2>2. CASE Spawn(s) \/ SpawnFails(s)
      BY <1>t, <2>2 DEF SupervisorTyped, Spawn, SpawnFails, ToStep
    <2>3. CASE Supervise(s)
      BY <1>t, <2>3 DEF SupervisorTyped, Supervise, BeginPolling, SeesExit,
         TimesOut, Terminate, GraceOver, Reap, Sweep, SweepOver, Drain, ToStep,
         groupVars
    <2>4. CASE Cancels(s) \/ Provider(s)
      BY <1>t, <2>4 DEF SupervisorTyped, Cancels, Provider, LeaderExits,
         OthersExit, PipesClose, groupVars
    <2> QED
      BY <2>1, <2>2, <2>3, <2>4 DEF Shim, Start, Create, Open, BeginPreflight,
         PreflightFails, RecordRequest, PreflightSucceeds, BecomeReady,
         LedgerStarted, PromptUnreadable, PromptRead, PrepareWorkspace,
         WorkspaceFails, WorkspaceReady, StartRunning, Launch, Supervising,
         Return, LedgerFinished, Settle, Conclude, Publish, Announce, Exit,
         Transition, unrecorded, Environment, Fault, Interrupt, Kill, LateOutput
  <1> QED
    BY <1>1, <1>2, <1>3, <1>4, <1>5 DEF Own

\* Nor of its run directory, if identifiers are distinct.
LEMMA OthersShown ==
  ASSUME TypeOK, DistinctDispatches, NEW s \in Shims, Shim(s) \/ Environment(s),
         NEW t \in Shims, t # s
  PROVE  Shown(t)' = Shown(t)
  <1>1. Home(t) # Home(s) /\ Home(t)' = Home(t)
    BY DEF DistinctDispatches, Home
  <1>2. /\ \/ UNCHANGED run
           \/ \E state : run' = [run EXCEPT ![Home(s)] = state]
        /\ \/ UNCHANGED record
           \/ \E r : record' = [record EXCEPT ![Home(s)] = r]
    BY DEF Shim, Start, Create, Open, BeginPreflight, PreflightFails,
       RecordRequest, PreflightSucceeds, BecomeReady, LedgerStarted,
       PromptUnreadable, PromptRead, PrepareWorkspace, WorkspaceFails,
       WorkspaceReady, StartRunning, Launch, Supervising, Return,
       LedgerFinished, Settle, Conclude, Publish, Announce, Exit, Transition,
       Environment, Fault, Interrupt, Kill, LateOutput, unrecorded, unharmed,
       shimVars
  <1>3. Home(t) \in Dispatches
    BY DispatchAssumption DEF Home
  <1> QED
    BY <1>1, <1>2, <1>3 DEF TypeOK, Shown

-----------------------------------------------------------------------------
(* The state of the lifecycle.                                             *)

\* A step of the shim takes its state where the place says.
LEMMA LifeByShim ==
  ASSUME TypeOK, NEW s \in Shims, LifeFits(s), Shim(s)
  PROVE  LifeFits(s)'
  <1>t. /\ pc \in [Shims -> Pc] /\ life \in [Shims -> LifeState]
        /\ verdict \in [Shims -> Verdict]
    BY DEF TypeOK
  <1>1. CASE Start(s) \/ Create(s) \/ RecordRequest(s) \/ PreflightSucceeds(s)
             \/ LedgerStarted(s) \/ PromptRead(s) \/ Launch(s) \/ LedgerFinished(s) \/ Conclude(s)
             \/ Publish(s) \/ Announce(s) \/ Exit(s)
    BY <1>t, <1>1 DEF LifeFits, EarlyEnd, Start, Create, RecordRequest,
       PreflightSucceeds, LedgerStarted, PromptRead, Launch, LedgerFinished,
       Conclude, Publish, Announce, Exit, Goes, unrecorded
  <1>2. CASE Open(s) \/ BeginPreflight(s) \/ BecomeReady(s) \/ PrepareWorkspace(s)
             \/ WorkspaceReady(s) \/ StartRunning(s)
    BY <1>t, <1>2 DEF LifeFits, EarlyEnd, Open, BeginPreflight, BecomeReady,
       PrepareWorkspace, WorkspaceReady, StartRunning, Transition, Goes
  <1>3. CASE PreflightFails(s) \/ PromptUnreadable(s) \/ WorkspaceFails(s)
    BY <1>t, <1>3 DEF LifeFits, EarlyEnd, PreflightFails, PromptUnreadable,
       WorkspaceFails, Ends, Goes, unrecorded, TRANSITIONS
  <1>4. CASE Supervising(s)
    BY <1>4 DEF LifeFits, EarlyEnd, Supervising, shimVars
  <1>5. CASE Return(s)
    BY <1>t, <1>5 DEF LifeFits, EarlyEnd, Return, FinalStatus, Ends, Goes,
       unrecorded, TRANSITIONS
  <1>6. CASE Settle(s)
    BY <1>t, <1>6 DEF LifeFits, EarlyEnd, Settle, Transition, Goes
  <1> QED
    BY <1>1, <1>2, <1>3, <1>4, <1>5, <1>6 DEF Shim

\* A fault, an interrupt or a kill takes the shim to a place that agrees with
\* the state it is in, or to one where nothing is said of it.
LEMMA LifeByEnvironment ==
  ASSUME TypeOK, NEW s \in Shims, LifeFits(s), Environment(s)
  PROVE  LifeFits(s)'
  <1>t. /\ pc \in [Shims -> Pc] /\ life \in [Shims -> LifeState]
    BY DEF TypeOK
  <1>1. CASE Fault(s) \/ Interrupt(s) \/ Kill(s)
    BY <1>t, <1>1 DEF LifeFits, EarlyEnd, Fault, Interrupt, Kill, Goes,
       FinalTry, Ended, unharmed
  <1>2. CASE LateOutput(s) \/ UNCHANGED shimVars
    BY <1>2 DEF LifeFits, EarlyEnd, LateOutput, shimVars
  <1> QED
    BY <1>1, <1>2 DEF Environment

\* The places and the states of the lifecycle stay together.
LEMMA LifeKept ==
  ASSUME TypeOK, LifeInv, [Next]_vars
  PROVE  LifeInv'
  <1>1. ASSUME NEW s \in Shims, Shim(s) \/ Environment(s)
        PROVE  LifeInv'
    <2>1. LifeFits(s)'
      BY <1>1, LifeByShim, LifeByEnvironment DEF LifeInv
    <2>2. ASSUME NEW t \in Shims, t # s
          PROVE  LifeFits(t)'
      BY <1>1, <2>2, OthersOwn DEF Own, LifeInv, LifeFits
    <2> QED
      BY <2>1, <2>2 DEF LifeInv
  <1>2. CASE UNCHANGED vars
    BY <1>2 DEF vars, shimVars, LifeInv, LifeFits
  <1> QED
    BY <1>1, <1>2 DEF Next

\* The state of the lifecycle and the place agree at all times.
LEMMA LifeHolds == Spec => []LifeInv
  <1>1. Init => LifeInv
    BY DEF Init, LifeInv, LifeFits, EarlyEnd
  <1> QED
    BY <1>1, LifeKept, ShimTypeCorrect, PTL DEF Spec

\* A change of the state is a step of the table.
LEMMA TableFollowed ==
  ASSUME TypeOK, LifeInv, [Next]_vars, NEW t \in Shims, life'[t] # life[t]
  PROVE  life[t] \in DOMAIN TRANSITIONS /\ life'[t] \in TRANSITIONS[life[t]]
  <1>t. life \in [Shims -> LifeState]
    BY DEF TypeOK
  <1>1. PICK s \in Shims : Shim(s) \/ Environment(s)
    BY DEF Next, vars, shimVars
  <1>2. s = t
    BY <1>1, OthersOwn DEF Own
  <1>3. Open(t) \/ BeginPreflight(t) \/ BecomeReady(t) \/ PrepareWorkspace(t)
        \/ WorkspaceReady(t) \/ StartRunning(t) \/ Settle(t)
    BY <1>1, <1>2 DEF Shim, Start, Create, PreflightFails, RecordRequest,
       PreflightSucceeds, LedgerStarted, PromptUnreadable, PromptRead,
       WorkspaceFails, Launch, Supervising, Return, LedgerFinished, Conclude,
       Publish, Announce, Exit, unrecorded, Environment, Fault, Interrupt, Kill,
       LateOutput, unharmed, shimVars
  <1>4. CASE Settle(t)
    BY <1>t, <1>4 DEF Settle, Transition, Goes, LifeInv, LifeFits
  <1>5. CASE ~Settle(t)
    BY <1>t, <1>3, <1>5 DEF Open, BeginPreflight, BecomeReady, PrepareWorkspace,
       WorkspaceReady, StartRunning, Transition, Goes, LifeInv, LifeFits,
       TRANSITIONS
  <1> QED
    BY <1>4, <1>5

\* Whichever early or late end a dispatch takes, Lifecycle.transition is asked
\* for nothing its table refuses.
THEOREM TableNeverRefuses == Spec => TransitionsNeverRefused
  <1>1. TypeOK /\ LifeInv /\ [Next]_vars =>
          [\A s \in Shims :
             life'[s] # life[s] =>
               life[s] \in DOMAIN TRANSITIONS
               /\ life'[s] \in TRANSITIONS[life[s]]]_vars
    BY TableFollowed
  <1> QED
    BY <1>1, LifeHolds, ShimTypeCorrect, PTL DEF Spec, TransitionsNeverRefused

-----------------------------------------------------------------------------
(* The end of the dispatch.                                                *)

\* The final status, the exit status and what the supervision saw belong
\* together.
LEMMA FinalFits ==
  ASSUME SupervisorTyped, NEW s \in Shims
  PROVE  /\ FinalStatus(s) # "none"
         /\ Promise!Agrees(FinalStatus(s), ExitCode(s))
         /\ FinalStatus(s) = "timed_out" <=> timedOut[s]
         /\ FinalStatus(s) = "cancelled" => cancelled[s]
         /\ FinalStatus(s) = "succeeded" => code[s] = 0 /\ ~cancelled[s]
  BY DEF SupervisorTyped, FinalStatus, ExitCode, Clamp, Promise!Agrees

\* A dispatch ends early before there is a provider to disagree.
LEMMA EarlyEndFits ==
  ASSUME TypeOK, Placed, NEW s \in Shims, VerdictFits(s), pc[s] \in Early,
         NEW to \in {"settle"} \cup EarlyEnd, Goes(s, pc[s], to),
         UNCHANGED unrecorded,
         \/ Ends(s, "preflight_failed", 127)
         \/ \E exit \in {1, 66} : Ends(s, "failed", exit)
  PROVE  VerdictFits(s)'
  <1>1. sentinel[s] = None
    BY Unsaid DEF Early, Ended
  <1>2. step[s] = "idle"
    BY DEF Placed
  <1>3. ~timedOut[s] /\ ~cancelled[s]
    BY <1>2 DEF VerdictFits
  <1>4. pc'[s] \in {"settle"} \cup EarlyEnd
    BY DEF TypeOK, Goes
  <1>5. \/ verdict'[s] = [status |-> "preflight_failed", exit |-> 127]
        \/ \E exit \in {1, 66} : verdict'[s] = [status |-> "failed", exit |-> exit]
    BY DEF TypeOK, Ends
  <1>6. UNCHANGED <<step, timedOut, cancelled, sentinel, code>>
    BY DEF unrecorded, supervisorVars, groupVars
  <1> QED
    BY <1>1, <1>2, <1>3, <1>4, <1>5, <1>6
    DEF VerdictFits, Early, EarlyEnd, Promise!Agrees

\* A step of the shim decides on the end that the supervision saw.
LEMMA VerdictByShim ==
  ASSUME TypeOK, Placed, NEW s \in Shims, VerdictFits(s), Shim(s)
  PROVE  VerdictFits(s)'
  <1>t. /\ pc \in [Shims -> Pc] /\ verdict \in [Shims -> Verdict]
        /\ sentinel \in [Shims -> 0 .. 255 \cup {None}] /\ SupervisorTyped
    BY DEF TypeOK
  <1>1. CASE Start(s) \/ Create(s) \/ RecordRequest(s) \/ PreflightSucceeds(s)
             \/ LedgerStarted(s) \/ PromptRead(s) \/ LedgerFinished(s) \/ Conclude(s) \/ Publish(s)
             \/ Exit(s)
    BY <1>t, <1>1 DEF VerdictFits, Start, Create, RecordRequest, PreflightSucceeds,
       LedgerStarted, PromptRead, LedgerFinished, Conclude, Publish, Exit, Goes,
       unrecorded, supervisorVars, groupVars, Early
  <1>2. CASE Open(s) \/ BeginPreflight(s) \/ BecomeReady(s) \/ PrepareWorkspace(s)
             \/ WorkspaceReady(s) \/ StartRunning(s) \/ Settle(s)
    BY <1>t, <1>2 DEF VerdictFits, Open, BeginPreflight, BecomeReady,
       PrepareWorkspace, WorkspaceReady, StartRunning, Settle, Transition, Goes,
       supervisorVars, groupVars, Early
  <1>3. CASE PreflightFails(s) \/ PromptUnreadable(s) \/ WorkspaceFails(s)
    BY <1>3, EarlyEndFits DEF PreflightFails, PromptUnreadable, WorkspaceFails,
       Goes, Early, EarlyEnd
  <1>4. CASE Launch(s)
    <2>1. pc[s] = "spawn" /\ pc'[s] = "supervise"
          /\ UNCHANGED <<verdict, sentinel, timedOut, cancelled>>
      BY <1>t, <1>4 DEF Launch, Goes, Spawn, SpawnFails
    <2>2. verdict[s].status = "none" /\ ~timedOut[s] /\ ~cancelled[s]
      BY <2>1 DEF VerdictFits, Placed, Early
    <2> QED
      BY <2>1, <2>2 DEF VerdictFits
  <1>5. CASE Supervising(s)
    <2>1. pc[s] = "supervise" /\ UNCHANGED <<pc, verdict, sentinel>>
      BY <1>5 DEF Supervising, shimVars
    <2>2. step'[s] # "idle"
      BY <1>t, <1>5 DEF SupervisorTyped, Supervising, Supervise, BeginPolling,
         SeesExit, TimesOut, Terminate, GraceOver, Reap, Sweep, SweepOver, Drain,
         ToStep
    <2> QED
      BY <2>1, <2>2 DEF VerdictFits
  <1>6. CASE Return(s)
    <2>1. sentinel[s] = None
      BY <1>6, Unsaid DEF Return, Goes, Ended
    <2>2. /\ pc'[s] = "ledger" /\ step[s] = "done"
          /\ verdict'[s] = [status |-> FinalStatus(s), exit |-> ExitCode(s)]
          /\ UNCHANGED <<step, timedOut, cancelled, sentinel, code>>
      BY <1>t, <1>6 DEF Return, Goes, Ends, unrecorded, supervisorVars, groupVars
    <2> QED
      BY <1>t, <2>1, <2>2, FinalFits DEF VerdictFits, Early
  <1>7. CASE Announce(s)
    <2>1. /\ pc'[s] \in {"announced", "interrupted"}
          /\ sentinel'[s] = verdict[s].exit
          /\ UNCHANGED <<verdict, step, timedOut, cancelled, code>>
      BY <1>t, <1>7 DEF Announce, Goes, supervisorVars, groupVars
    <2> QED
      BY <2>1 DEF VerdictFits, Early
  <1> QED
    BY <1>1, <1>2, <1>3, <1>4, <1>5, <1>6, <1>7 DEF Shim

\* Once the end is decided neither an interrupt nor the provider changes what
\* the supervision saw.
LEMMA VerdictByEnvironment ==
  ASSUME TypeOK, Supervised, NEW s \in Shims, VerdictFits(s), Environment(s)
  PROVE  VerdictFits(s)'
  <1>t. pc \in [Shims -> Pc] /\ SupervisorTyped
    BY DEF TypeOK
  <1>0. UNCHANGED <<verdict, sentinel>>
    BY DEF Environment, Fault, Interrupt, Kill, LateOutput, unharmed, shimVars
  <1>1. CASE Cancels(s) /\ pc[s] = "supervise" /\ UNCHANGED pc
    <2>1. step'[s] = "cancelling"
      BY <1>t, <1>1 DEF SupervisorTyped, Cancels
    <2> QED
      BY <1>0, <1>1, <2>1 DEF VerdictFits
  <1>2. CASE Provider(s) /\ UNCHANGED pc
    <2>1. step[s] \in {"idle", "done"} => code'[s] = code[s]
      BY <1>t, <1>2 DEF Supervised, GroupGone, Provider, LeaderExits, OthersExit,
         PipesClose
    <2>2. UNCHANGED <<step, timedOut, cancelled>>
      BY <1>2 DEF Provider, LeaderExits, OthersExit, PipesClose
    <2> QED
      BY <1>0, <1>2, <2>1, <2>2 DEF VerdictFits
  <1>3. CASE UNCHANGED supervisorVars
    <2>1. pc'[s] \in Early \cup {"supervise"} => pc[s] \in Early \cup {"supervise"}
      BY <1>t, <1>3 DEF Environment, Fault, Interrupt, Kill, LateOutput, Goes,
         Early, FinalTry, Ended, shimVars, Cancels
    <2> QED
      BY <1>0, <1>3, <2>1 DEF VerdictFits, supervisorVars, groupVars
  <1> QED
    BY <1>1, <1>2, <1>3 DEF Environment, Fault, Interrupt, Kill, LateOutput,
       shimVars

\* The end that was decided stays the one that was seen.
LEMMA VerdictKept ==
  ASSUME TypeOK, Supervised, Placed, VerdictInv, [Next]_vars
  PROVE  VerdictInv'
  <1>1. ASSUME NEW s \in Shims, Shim(s) \/ Environment(s)
        PROVE  VerdictInv'
    <2>1. VerdictFits(s)'
      BY <1>1, VerdictByShim, VerdictByEnvironment DEF VerdictInv
    <2>2. ASSUME NEW t \in Shims, t # s
          PROVE  VerdictFits(t)'
      BY <1>1, <2>2, OthersOwn DEF Own, VerdictInv, VerdictFits
    <2> QED
      BY <2>1, <2>2 DEF VerdictInv
  <1>2. CASE UNCHANGED vars
    BY <1>2 DEF vars, shimVars, supervisorVars, groupVars, VerdictInv, VerdictFits
  <1> QED
    BY <1>1, <1>2 DEF Next

-----------------------------------------------------------------------------
(* The ledger.                                                             *)

\* What a row makes of a ledger without a finished row.
LEMMA Appended ==
  /\ Append(<< >>, [event |-> "started"]) = Started
  /\ \A exit \in 0 .. 255 :
       /\ Started \notin ClosedRows(exit)
       /\ \A rows \in OpenRows : Append(rows, Finished(exit)) \in ClosedRows(exit)
  <1> DEFINE first == [event |-> "started"]
  <1>1. \A row : Append(<< >>, row) = <<row>>
    OBVIOUS
  <1>2. Append(<< >>, first) = Started
    BY <1>1 DEF Started
  <1>3. ASSUME NEW exit \in 0 .. 255
        PROVE  /\ Started \notin ClosedRows(exit)
               /\ \A rows \in OpenRows : Append(rows, Finished(exit)) \in ClosedRows(exit)
    <2> DEFINE last == Finished(exit)
    <2>1. /\ Len(Started) = 1 /\ Started[1].event = "started"
          /\ last.event = "finished"
      BY DEF Started, Finished
    <2>2. Len(Append(Started, last)) = 2
      BY DEF Started
    <2> HIDE DEF last
    <2>3. Started # <<last>>
      <3>1. <<last>>[1] = last
        OBVIOUS
      <3>2. <<last>>[1].event = "finished"
        BY <2>1, <3>1
      <3> QED
        BY <2>1, <3>2
    <2>4. Started # Append(Started, last)
      BY <2>1, <2>2
    <2>5. Append(<< >>, last) = <<last>>
      BY <1>1
    <2> QED
      BY <2>3, <2>4, <2>5 DEF ClosedRows, OpenRows, last
  <1> QED
    BY <1>2, <1>3

\* The first row.
LEMMA FirstRow ==
  ASSUME TypeOK, NEW s \in Shims, LedgerFits(s), LedgerStarted(s)
  PROVE  LedgerFits(s)'
  <1>1. /\ \/ pc[s] = "ledgerFirst" /\ pc'[s] = "prompt"
           \/ pc[s] = "ledgerSecond" /\ pc'[s] = "prepare"
        /\ ledger'[s] = Append(ledger[s], [event |-> "started"])
        /\ UNCHANGED <<verdict, adapter, spent>>
    <2>1. pc \in [Shims -> Pc] /\ ledger \in [Shims -> Seq(Row)]
      BY DEF TypeOK
    <2> QED
      BY <2>1 DEF LedgerStarted, Goes, Append1, unrecorded
  <1>2. ledger'[s] = Started
    BY <1>1, Appended DEF LedgerFits
  <1> QED
    BY <1>1, <1>2 DEF LedgerFits, OpenRows, Early

\* The last row has the exit status that is decided with it or was before.
LEMMA LastRow ==
  ASSUME TypeOK, NEW s \in Shims, LedgerFits(s), NEW exit \in 0 .. 255,
         pc[s] \in Early \cup {"ledger", "unread"},
         NEW to \in {"settle", "refused"}, Goes(s, pc[s], to),
         Append1(s, Finished(exit)), verdict'[s].exit = exit
  PROVE  LedgerFits(s)'
  <1>1. /\ pc'[s] \in {"settle", "refused"}
        /\ ledger'[s] = Append(ledger[s], Finished(exit))
    BY DEF TypeOK, Goes, Append1
  <1>2. ledger'[s] \in ClosedRows(exit) /\ ledger'[s] # Started
    BY <1>1, Appended DEF LedgerFits
  <1> QED
    BY <1>1, <1>2 DEF LedgerFits, Early

\* A shim that moves on without a row, to a place that expects no other rows.
LEMMA NoRow ==
  ASSUME TypeOK, NEW s \in Shims, LedgerFits(s), Shim(s),
         UNCHANGED <<ledger, adapter, spent>>, ~PreflightFails(s)
  PROVE  LedgerFits(s)'
  <1>t. pc \in [Shims -> Pc] /\ verdict \in [Shims -> Verdict]
    BY DEF TypeOK
  <1>r. /\ \A row : Append(ledger[s], row) # ledger[s]
        /\ ~LedgerStarted(s) /\ ~WorkspaceFails(s) /\ ~LedgerFinished(s)
    <2>1. ASSUME NEW row, Append(ledger[s], row) = ledger[s]
          PROVE  FALSE
      <3>1. ledger[s] \in Seq(Row)
        BY DEF TypeOK
      <3>2. Len(Append(ledger[s], row)) = Len(ledger[s]) + 1
        BY <3>1
      <3> QED
        BY <2>1, <3>1, <3>2
    <2> QED
      BY <2>1 DEF TypeOK, LedgerStarted, WorkspaceFails, LedgerFinished, Append1
  <1>1. CASE Start(s) \/ Create(s) \/ PreflightSucceeds(s) \/ PromptRead(s)
    <2>1. << >> # Started
      BY DEF Started
    <2> QED
      BY <1>t, <1>1, <2>1 DEF LedgerFits, Start, Create, PreflightSucceeds,
         PromptRead, Goes, unrecorded, Early, OpenRows
  <1>5. CASE Launch(s) \/ Conclude(s) \/ Publish(s) \/ Announce(s) \/ Exit(s)
    BY <1>t, <1>5 DEF LedgerFits, Launch, Conclude, Publish, Announce, Exit, Goes,
       unrecorded, Early, OpenRows
  <1>2. CASE Open(s) \/ BeginPreflight(s) \/ BecomeReady(s) \/ PrepareWorkspace(s)
             \/ WorkspaceReady(s) \/ StartRunning(s) \/ Settle(s)
    BY <1>t, <1>2 DEF LedgerFits, Open, BeginPreflight, BecomeReady,
       PrepareWorkspace, WorkspaceReady, StartRunning, Settle, Transition, Goes,
       Early, OpenRows
  <1>3. CASE Supervising(s)
    BY <1>3 DEF LedgerFits, Supervising, shimVars
  <1>4. CASE Return(s) \/ PromptUnreadable(s)
    BY <1>t, <1>4 DEF LedgerFits, Return, PromptUnreadable, Goes, Ends, Early,
       OpenRows
  <1>6. CASE RecordRequest(s)
    BY <1>t, <1>6 DEF LedgerFits, RecordRequest, Goes, Early
  <1> QED
    BY <1>r, <1>1, <1>2, <1>3, <1>4, <1>5, <1>6 DEF Shim

\* A step of the shim adds the row its place calls for.
LEMMA LedgerByShim ==
  ASSUME TypeOK, NEW s \in Shims, LedgerFits(s), Shim(s)
  PROVE  LedgerFits(s)'
  <1>t. pc \in [Shims -> Pc] /\ verdict \in [Shims -> Verdict]
    BY DEF TypeOK
  <1>1. CASE LedgerStarted(s)
    BY <1>1, FirstRow
  <1>2. CASE WorkspaceFails(s)
    <2>1. /\ pc[s] \in Early /\ Goes(s, pc[s], "settle")
          /\ Append1(s, Finished(1)) /\ verdict'[s].exit = 1
      BY <1>t, <1>2 DEF WorkspaceFails, Ends, Goes, Early
    <2> QED
      BY <2>1, LastRow
  <1>3. CASE LedgerFinished(s)
    <2>1. verdict[s].exit \in 0 .. 255
      BY <1>t DEF Verdict
    <2> QED
      BY <1>3, <2>1, LastRow DEF LedgerFinished, Goes
  <1>4. CASE PreflightFails(s)
    <2>1. CASE UNCHANGED ledger
      <3>1. pc'[s] = "refused" /\ ledger'[s] = << >>
        BY <1>t, <1>4, <2>1 DEF PreflightFails, Goes, LedgerFits
      <3>2. << >> # Started
        BY DEF Started
      <3> QED
        BY <3>1, <3>2 DEF LedgerFits, OpenRows, Early
    <2>2. CASE Append1(s, Finished(127))
      <3>1. Goes(s, "preflight", "refused") /\ verdict'[s].exit = 127
        BY <1>t, <1>4 DEF PreflightFails, Ends
      <3>2. pc[s] \in Early \cup {"ledger"} /\ Goes(s, pc[s], "refused")
        BY <3>1 DEF Goes, Early
      <3> QED
        BY <2>2, <3>1, <3>2, LastRow
    <2> QED
      BY <1>4, <2>1, <2>2 DEF PreflightFails
  <1>5. CASE UNCHANGED <<ledger, adapter, spent>> /\ ~PreflightFails(s)
    BY <1>5, NoRow
  <1> QED
    BY <1>1, <1>2, <1>3, <1>4, <1>5 DEF Shim, Start, Create, Open,
       BeginPreflight, RecordRequest, PreflightSucceeds, BecomeReady,
       PromptUnreadable, PromptRead, PrepareWorkspace, WorkspaceReady,
       StartRunning, Launch, Supervising, Return, Settle, Conclude, Publish,
       Announce, Exit, Transition, unrecorded, shimVars

\* A row that could not be written was passed over in a run with a fault.
LEMMA LedgerByEnvironment ==
  ASSUME TypeOK, NEW s \in Shims, LedgerFits(s), Environment(s)
  PROVE  LedgerFits(s)'
  <1>t. /\ pc \in [Shims -> Pc]
        /\ spent \in [faults : Nat, interrupts : Nat, kills : Nat]
    BY DEF TypeOK
  <1>0. UNCHANGED <<ledger, verdict, adapter>>
    BY DEF Environment, Fault, Interrupt, Kill, LateOutput, unharmed, shimVars
  <1>1. CASE Fault(s)
    <2>1. spent'.faults # 0
      BY <1>t, <1>1 DEF Fault
    <2> QED
      BY <1>t, <1>0, <1>1, <2>1 DEF LedgerFits, Fault, Goes, FinalTry, Ended,
         Early, OpenRows
  <1>2. CASE Interrupt(s) \/ Kill(s)
    <2>1. spent'.faults = spent.faults
      BY <1>t, <1>2 DEF Interrupt, Kill
    <2>2. pc'[s] \in {pc[s], "lastWords", "interrupted", "killed"}
      BY <1>t, <1>2 DEF Interrupt, Kill, Goes
    <2> QED
      BY <1>0, <2>1, <2>2 DEF LedgerFits, Early
  <1>3. CASE LateOutput(s) \/ UNCHANGED <<shimVars, spent>>
    BY <1>0, <1>3 DEF LedgerFits, LateOutput, shimVars
  <1> QED
    BY <1>1, <1>2, <1>3 DEF Environment

\* The ledger and the place stay together.
LEMMA LedgerKept ==
  ASSUME TypeOK, LedgerInv, [Next]_vars
  PROVE  LedgerInv'
  <1>1. ASSUME NEW s \in Shims, Shim(s) \/ Environment(s)
        PROVE  LedgerInv'
    <2>1. LedgerFits(s)'
      BY <1>1, LedgerByShim, LedgerByEnvironment DEF LedgerInv
    <2>2. spent'.faults = 0 => spent.faults = 0
      <3>1. \/ UNCHANGED spent
            \/ \E n \in Nat : spent' = [spent EXCEPT !.interrupts = n]
            \/ \E n \in Nat : spent' = [spent EXCEPT !.kills = n]
            \/ spent' = [spent EXCEPT !.faults = @ + 1]
        BY <1>1 DEF TypeOK, Shim, Start, Create, Open, BeginPreflight,
           PreflightFails, RecordRequest, PreflightSucceeds, BecomeReady,
           LedgerStarted, PromptUnreadable, PromptRead, PrepareWorkspace,
           WorkspaceFails, WorkspaceReady, StartRunning, Launch, Supervising,
           Return, LedgerFinished, Settle, Conclude, Publish, Announce, Exit,
           Transition, unrecorded, Environment, Fault, Interrupt, Kill,
           LateOutput
      <3> QED
        BY <3>1 DEF TypeOK
    <2>3. ASSUME NEW t \in Shims, t # s
          PROVE  LedgerFits(t)'
      BY <1>1, <2>2, <2>3, OthersOwn DEF Own, LedgerInv, LedgerFits
    <2> QED
      BY <2>1, <2>3 DEF LedgerInv
  <1>2. CASE UNCHANGED vars
    BY <1>2 DEF vars, shimVars, LedgerInv, LedgerFits
  <1> QED
    BY <1>1, <1>2 DEF Next

\* Decided, supervised, placed: what the proofs about ledger and record rest on.
LEMMA PlacedHolds == Spec => [](TypeOK /\ Decided /\ Supervised /\ Placed)
  <1>1. Init => Supervised /\ Placed
    BY DEF Init, SupervisorInit, Supervised, Placed, GroupGone, Early, Late,
       FinalTry
  <1>2. TypeOK /\ Supervised /\ Placed /\ [Next]_vars => (Supervised /\ Placed)'
    BY SupervisedKept, PlacedKept
  <1> QED
    BY <1>1, <1>2, ShimTypeCorrect, PTL DEF Spec

\* The verdict agrees with the supervision and the sentinel with the verdict,
\* and the ledger with the verdict, at all times.
LEMMA VerdictHolds == Spec => [](VerdictInv /\ LedgerInv)
  <1>1. Init => VerdictInv /\ LedgerInv
    <2>1. ASSUME Init, NEW s \in Shims
          PROVE  VerdictFits(s)
      <3>1. /\ verdict[s] = [status |-> "none", exit |-> 64] /\ sentinel[s] = None
            /\ ~timedOut[s] /\ ~cancelled[s]
        BY <2>1 DEF Init, SupervisorInit
      <3> QED
        BY <3>1 DEF VerdictFits
    <2>2. ASSUME Init, NEW s \in Shims
          PROVE  LedgerFits(s)
      <3>1. ledger[s] = << >> /\ pc[s] = "start"
        BY <2>2 DEF Init
      <3> QED
        BY <3>1 DEF LedgerFits, OpenRows, Early
    <2> QED
      BY <2>1, <2>2 DEF VerdictInv, LedgerInv
  <1> QED
    BY <1>1, VerdictKept, LedgerKept, PlacedHolds, PTL DEF Spec

\* What is in a sequence of two.
LEMMA TwoElements ==
  ASSUME NEW x, NEW y
  PROVE  LET two == Append(<<x>>, y)
         IN  Len(two) = 2 /\ DOMAIN two = {1, 2} /\ two[1] = x /\ two[2] = y
  <1>1. <<x>> \in Seq({x, y}) /\ Len(<<x>>) = 1 /\ <<x>>[1] = x
    OBVIOUS
  <1>2. /\ Append(<<x>>, y) \in Seq({x, y}) /\ Len(Append(<<x>>, y)) = 1 + 1
        /\ Append(<<x>>, y)[1] = x /\ Append(<<x>>, y)[1 + 1] = y
    BY <1>1, AppendProperties
  <1> QED
    BY <1>2

\* Rows of a sequence that has one of the forms a ledger has.
LEMMA RowForms ==
  ASSUME NEW exit \in 0 .. 255, NEW rows \in OpenRows \cup ClosedRows(exit)
  PROVE  /\ Len(rows) <= 2
         /\ \A i \in DOMAIN rows :
              /\ rows[i].event = "finished" =>
                   i = Len(rows) /\ rows[i].exit = exit
              /\ rows[i].event = "started" /\ rows # Started =>
                   i = 1 /\ Len(rows) = 2
  <1> DEFINE first == [event |-> "started"]
             last == Finished(exit)
  <1>r. /\ first.event = "started" /\ last.event = "finished"
        /\ last.exit = exit
    BY DEF Finished
  <1>1. CASE rows = << >>
    BY <1>1
  <1>2. CASE rows = Started
    <2>1. Len(rows) = 1 /\ DOMAIN rows = {1} /\ rows[1] = first
      BY <1>2 DEF Started
    <2> QED
      BY <1>r, <1>2, <2>1
  <1>3. CASE rows = <<last>>
    <2>1. Len(rows) = 1 /\ DOMAIN rows = {1} /\ rows[1] = last
      BY <1>3
    <2> QED
      BY <1>r, <2>1
  <1>4. CASE rows = Append(Started, last)
    <2> HIDE DEF first, last
    <2>1. rows = Append(<<first>>, last)
      BY <1>4 DEF Started, first, last
    <2>2. /\ Len(rows) = 2 /\ DOMAIN rows = {1, 2}
          /\ rows[1] = first /\ rows[2] = last
      BY <2>1, TwoElements
    <2> QED
      BY <1>r, <2>2
  <1> QED
    BY <1>1, <1>2, <1>3, <1>4 DEF OpenRows, ClosedRows

\* The ledger agrees with the sentinel, has its rows in order and once, and
\* leaves a started row without its finished one only if the shim was cut
\* short or a row could not be written.
THEOREM LedgerIsTruthful == Spec => []LedgerTruthful
  <1>1. TypeOK /\ VerdictInv /\ LedgerInv => LedgerTruthful
    <2>1. ASSUME TypeOK, VerdictInv, LedgerInv, NEW s \in Shims
          PROVE  /\ \A i \in DOMAIN ledger[s] :
                      ledger[s][i].event = "finished" =>
                        /\ i = Len(ledger[s])
                        /\ sentinel[s] \in {None, ledger[s][i].exit}
                 /\ Len(ledger[s]) <= 2
                 /\ \A i \in DOMAIN ledger[s] :
                      /\ ledger[s][i].event = "started"
                      /\ pc[s] = "returned" /\ spent.faults = 0
                      => i = 1 /\ Len(ledger[s]) = 2
      <3>1. verdict[s].exit \in 0 .. 255
        BY <2>1 DEF TypeOK, Verdict
      <3>2. ledger[s] \in OpenRows \cup ClosedRows(verdict[s].exit)
        BY <2>1 DEF LedgerInv, LedgerFits
      <3>3. sentinel[s] \in {None, verdict[s].exit}
        BY <2>1 DEF VerdictInv, VerdictFits
      <3>4. pc[s] = "returned" /\ spent.faults = 0 => ledger[s] # Started
        BY <2>1 DEF LedgerInv, LedgerFits
      <3>5. /\ Len(ledger[s]) <= 2
            /\ \A i \in DOMAIN ledger[s] :
                 /\ ledger[s][i].event = "finished" =>
                      i = Len(ledger[s]) /\ ledger[s][i].exit = verdict[s].exit
                 /\ ledger[s][i].event = "started" /\ ledger[s] # Started =>
                      i = 1 /\ Len(ledger[s]) = 2
        BY <3>1, <3>2, RowForms
      <3> QED
        BY <3>3, <3>4, <3>5
    <2> QED
      BY <2>1 DEF LedgerTruthful
  <1> QED
    BY <1>1, PlacedHolds, VerdictHolds, PTL

-----------------------------------------------------------------------------
(* The run directory, for dispatches with identifiers of their own.        *)

\* A step of the shim leaves in its run directory what its place says.
LEMMA RecordByShim ==
  ASSUME TypeOK, Decided, NEW s \in Shims, LifeFits(s), VerdictFits(s),
         RecordFits(s), Shim(s)
  PROVE  RecordFits(s)'
  <1>t. /\ pc \in [Shims -> Pc] /\ life \in [Shims -> LifeState]
        /\ verdict \in [Shims -> Verdict]
        /\ run \in [Dispatches -> LifeState \cup {"none"}]
        /\ record \in [Dispatches -> Record \cup {NoRecord}]
    BY DEF TypeOK
  <1>h. Home(s) \in Dispatches /\ Home(s)' = Home(s)
    BY DispatchAssumption DEF Home
  <1>1. CASE Start(s) \/ Create(s) \/ RecordRequest(s) \/ PreflightSucceeds(s)
             \/ LedgerStarted(s)
             \/ PromptRead(s) \/ Launch(s) \/ LedgerFinished(s) \/ Publish(s)
             \/ Announce(s) \/ Exit(s)
    BY <1>t, <1>h, <1>1 DEF RecordFits, Start, Create, RecordRequest,
       PreflightSucceeds, LedgerStarted, PromptRead, Launch, LedgerFinished,
       Publish, Announce, Exit, Goes, unrecorded, Early, EarlyEnd
  <1>2. CASE Open(s) \/ BeginPreflight(s) \/ BecomeReady(s) \/ PrepareWorkspace(s)
             \/ WorkspaceReady(s) \/ StartRunning(s)
    BY <1>t, <1>h, <1>2 DEF RecordFits, Open, BeginPreflight, BecomeReady,
       PrepareWorkspace, WorkspaceReady, StartRunning, Transition, Goes, Early,
       EarlyEnd, DispatchStatus
  <1>3. CASE PreflightFails(s) \/ PromptUnreadable(s) \/ WorkspaceFails(s)
             \/ Return(s)
    <2>1. /\ pc[s] \in {"preflight", "prompt", "workspace", "supervise"}
          /\ pc'[s] \in {"settle", "ledger"} \cup EarlyEnd
          /\ UNCHANGED <<life, run, record>>
      BY <1>t, <1>3 DEF PreflightFails, PromptUnreadable, WorkspaceFails, Return,
         Goes, unrecorded, EarlyEnd
    <2>2. run[Home(s)] \notin DispatchStatus \cup {"none"}
      BY <2>1 DEF RecordFits, LifeFits, Early, EarlyEnd, DispatchStatus
    <2> QED
      BY <1>h, <2>1, <2>2 DEF RecordFits, Early, EarlyEnd
  <1>4. CASE Supervising(s)
    BY <1>h, <1>4 DEF RecordFits, Supervising, shimVars
  <1>5. CASE Settle(s)
    <2>1. verdict[s].status \in DispatchStatus
      BY <1>t, <1>5 DEF Settle, Transition, Goes, Decided, FinalTry, Verdict
    <2>2. /\ pc[s] = "settle" /\ pc'[s] = "conclude"
          /\ run'[Home(s)] = verdict[s].status
          /\ UNCHANGED <<verdict, record>>
      BY <1>t, <1>h, <1>5 DEF Settle, Transition, Goes
    <2> QED
      BY <1>h, <2>1, <2>2 DEF RecordFits, Early, EarlyEnd, DispatchStatus
  <1>6. CASE Conclude(s)
    <2>1. verdict[s].status \in DispatchStatus
      BY <1>t, <1>6 DEF Conclude, Goes, Decided, FinalTry, Verdict
    <2>2. /\ pc[s] = "conclude" /\ pc'[s] = "publish"
          /\ record'[Home(s)] = verdict[s]
          /\ UNCHANGED <<verdict, run>>
      BY <1>t, <1>h, <1>6 DEF Conclude, Goes
    <2> QED
      BY <1>h, <2>1, <2>2 DEF RecordFits, Early, EarlyEnd
  <1> QED
    BY <1>1, <1>2, <1>3, <1>4, <1>5, <1>6 DEF Shim

\* Nothing that happens to a shim touches its run directory.
LEMMA RecordByEnvironment ==
  ASSUME TypeOK, NEW s \in Shims, RecordFits(s), Environment(s)
  PROVE  RecordFits(s)'
  <1>t. pc \in [Shims -> Pc] /\ Home(s)' = Home(s)
    BY DEF TypeOK, Home
  <1>0. UNCHANGED <<life, verdict, run, record>>
    BY DEF Environment, Fault, Interrupt, Kill, LateOutput, unharmed, shimVars
  <1>1. CASE Fault(s) \/ Interrupt(s) \/ Kill(s)
    BY <1>t, <1>0, <1>1 DEF RecordFits, Fault, Interrupt, Kill, Goes, FinalTry,
       Ended, Early, EarlyEnd
  <1>2. CASE UNCHANGED pc
    BY <1>t, <1>0, <1>2 DEF RecordFits
  <1> QED
    BY <1>1, <1>2 DEF Environment, LateOutput, shimVars

\* Run directory, verdict and place stay together.
LEMMA RecordKept ==
  ASSUME DistinctDispatches, TypeOK, Decided, LifeInv, VerdictInv, RecordInv,
         [Next]_vars
  PROVE  RecordInv'
  <1>1. ASSUME NEW s \in Shims, Shim(s) \/ Environment(s)
        PROVE  RecordInv'
    <2>1. RecordFits(s)'
      BY <1>1, RecordByShim, RecordByEnvironment DEF LifeInv, VerdictInv, RecordInv
    <2>2. ASSUME NEW t \in Shims, t # s
          PROVE  RecordFits(t)'
      <3>1. Own(t)' = Own(t) /\ Shown(t)' = Shown(t)
        BY <1>1, <2>2, OthersOwn, OthersShown
      <3>2. RecordFits(t)
        BY DEF RecordInv
      <3> QED
        BY <3>1, <3>2 DEF Own, Shown, RecordFits
    <2> QED
      BY <2>1, <2>2 DEF RecordInv
  <1>2. CASE UNCHANGED vars
    BY <1>2 DEF vars, shimVars, RecordInv, RecordFits, Home
  <1> QED
    BY <1>1, <1>2 DEF Next

\* What is on record is what happened, at all times.
LEMMA RecordHolds ==
  ASSUME DistinctDispatches
  PROVE  Spec => []RecordInv
  <1>1. Init => RecordInv
    <2>1. ASSUME Init, NEW s \in Shims
          PROVE  RecordFits(s)
      <3>1. Home(s) \in Dispatches
        BY DispatchAssumption DEF Home
      <3>2. /\ pc[s] = "start" /\ run[Home(s)] = "none"
            /\ record[Home(s)] = NoRecord
            /\ verdict[s].status = "none"
        BY <2>1, <3>1 DEF Init
      <3> QED
        BY <3>2 DEF RecordFits, DispatchStatus
    <2> QED
      BY <2>1 DEF RecordInv
  <1>2. TypeOK /\ Decided /\ LifeInv /\ VerdictInv /\ RecordInv /\ [Next]_vars
          => RecordInv'
    BY RecordKept
  <1> QED
    BY <1>1, <1>2, PlacedHolds, LifeHolds, VerdictHolds, PTL DEF Spec

\* Nothing but what happened is on record.
THEOREM RecordIsTruthful ==
  ASSUME DistinctDispatches
  PROVE  Spec => []RecordTruthful
  <1>1. TypeOK /\ VerdictInv /\ RecordInv => RecordTruthful
    <2>1. ASSUME TypeOK, VerdictInv, RecordInv, NEW s \in Shims,
                 record[Home(s)] # NoRecord
          PROVE  LET r == record[Home(s)]
                 IN  /\ r.status = "succeeded" =>
                          code[s] = 0 /\ r.exit = 0 /\ ~timedOut[s] /\ ~cancelled[s]
                     /\ r.status = "cancelled" => cancelled[s]
                     /\ r.status = "timed_out" <=> timedOut[s]
      <3>1. record[Home(s)] = verdict[s] /\ run[Home(s)] \in DispatchStatus
            /\ run[Home(s)] = verdict[s].status
        BY <2>1 DEF RecordInv, RecordFits
      <3>2. verdict[s].status # "none"
        BY <3>1 DEF DispatchStatus
      <3> QED
        BY <2>1, <3>1, <3>2 DEF VerdictInv, VerdictFits, Promise!Agrees
    <2>2. NoRecord.status = "none"
      BY DEF NoRecord
    <2> QED
      BY <2>1, <2>2 DEF RecordTruthful
  <1> QED
    BY <1>1, PlacedHolds, VerdictHolds, RecordHolds, PTL

\* What the scheduler reads off one shim that has ended.
LEMMA OutcomeCovered ==
  ASSUME TypeOK, VerdictInv, RecordInv, NEW s \in Shims, pc[s] \in Ended
  PROVE  /\ RunnerOutcome(s) \in ShimOutcome
         /\ CancellationExplained(RunnerOutcome(s), cancelled[s])
  <1> DEFINE exit == ShimExit(s)
             r == record[Home(s)]
             o == RunnerOutcome(s)
  <1>h. Home(s) \in Dispatches
    BY DispatchAssumption DEF Home
  <1>e. exit \in 0 .. 255 /\ exit \in {0, 1, verdict[s].exit}
    BY DEF TypeOK, Verdict, ShimExit
  <1>s. /\ Seen(exit) \in {0, 1, 64, 66, 127, 130}
        /\ Seen(exit) = 127 <=> exit = 127
        /\ Seen(exit) = 130 <=> exit = 130
        /\ exit = 124 => Seen(exit) = 1
        /\ exit \in {0, 1} => Seen(exit) = exit
    BY <1>e DEF Seen
  <1>1. CASE r = NoRecord
    <2>1. /\ o.status = IF exit = 124 THEN "timed_out"
                        ELSE IF exit = 130 THEN "cancelled" ELSE "failed"
          /\ o.exit = Seen(exit) /\ o.transport = TRUE
          /\ o = [status |-> o.status, exit |-> o.exit, transport |-> o.transport]
      BY <1>1 DEF RunnerOutcome
    <2>2. o \in AttemptOutcome
      BY <1>s, <2>1 DEF AttemptOutcome, DispatchStatus
    <2> QED
      BY <1>s, <2>1, <2>2 DEF ShimOutcome, CancellationExplained
  <1>2. CASE r # NoRecord
    <2>1. r = verdict[s] /\ r.status \in DispatchStatus
      BY <1>2 DEF RecordInv, RecordFits
    <2>2. Promise!Agrees(r.status, verdict[s].exit)
          /\ (r.status = "cancelled" => cancelled[s])
      BY <2>1 DEF VerdictInv, VerdictFits, DispatchStatus
    <2>3. /\ o.status = r.status /\ o.exit = Seen(exit)
          /\ o.transport = (r.status = "preflight_failed" \/ exit = 127)
          /\ o = [status |-> o.status, exit |-> o.exit, transport |-> o.transport]
      BY <1>2 DEF RunnerOutcome
    <2>4. o \in AttemptOutcome
      BY <1>s, <2>1, <2>3 DEF AttemptOutcome
    <2>5. \/ r.status = "succeeded" /\ exit \in {0, 1}
          \/ r.status = "failed"
          \/ r.status = "timed_out" /\ exit \in {0, 1, 124}
          \/ r.status = "cancelled" /\ exit \in {0, 1, 130}
          \/ r.status = "preflight_failed" /\ exit \in {0, 1, 127}
      BY <1>e, <2>1, <2>2 DEF Promise!Agrees, DispatchStatus
    <2>6. o \in ShimOutcome
      <3>1. o.transport <=> r.status = "preflight_failed" \/ exit = 127
        BY <2>3
      <3> HIDE DEF o, r, exit
      <3>2. CASE exit = 127
        BY <1>s, <2>3, <2>4, <2>5, <3>1, <3>2 DEF ShimOutcome
      <3>3. CASE exit # 127 /\ r.status = "preflight_failed"
        BY <1>s, <2>3, <2>4, <2>5, <3>1, <3>3 DEF ShimOutcome
      <3>4. CASE exit # 127 /\ r.status # "preflight_failed"
        BY <1>s, <2>3, <2>4, <2>5, <3>1, <3>4 DEF ShimOutcome
      <3> QED
        BY <3>2, <3>3, <3>4
    <2> QED
      BY <2>2, <2>3, <2>6 DEF CancellationExplained
  <1> QED
    BY <1>1, <1>2

\* Every outcome the scheduler can read off an ended shim, for any return code
\* of any provider, is one the scheduler's proofs assume.
THEOREM EveryOutcomeCovered ==
  ASSUME DistinctDispatches
  PROVE  Spec => []OutcomesCovered
  <1>1. TypeOK /\ VerdictInv /\ RecordInv => OutcomesCovered
    BY OutcomeCovered DEF OutcomesCovered
  <1> QED
    BY <1>1, PlacedHolds, VerdictHolds, RecordHolds, PTL

-----------------------------------------------------------------------------
(* The refinement.                                                         *)

state == [s \in Shims |-> Phase(run[Home(s)])]
result == [s \in Shims |-> record[Home(s)]]

\* A write to the run directory of one shim is one to its state, or its
\* result, alone.
LEMMA Mapped ==
  ASSUME TypeOK, DistinctDispatches, NEW s \in Shims
  PROVE  /\ \A new : run' = [run EXCEPT ![Home(s)] = new] =>
                       state' = [state EXCEPT ![s] = Phase(new)]
         /\ \A new : record' = [record EXCEPT ![Home(s)] = new] =>
                       result' = [result EXCEPT ![s] = new]
         /\ UNCHANGED run => UNCHANGED state
         /\ UNCHANGED record => UNCHANGED result
  <1>h. /\ \A t \in Shims : Home(t) \in Dispatches /\ Home(t)' = Home(t)
        /\ \A t \in Shims : t # s => Home(t) # Home(s)
    BY DispatchAssumption DEF Home, DistinctDispatches
  <1>1. ASSUME NEW new, run' = [run EXCEPT ![Home(s)] = new]
        PROVE  state' = [state EXCEPT ![s] = Phase(new)]
    BY <1>h, <1>1 DEF TypeOK, state, Phase
  <1>2. ASSUME NEW new, record' = [record EXCEPT ![Home(s)] = new]
        PROVE  result' = [result EXCEPT ![s] = new]
    BY <1>h, <1>2 DEF TypeOK, result
  <1>3. (UNCHANGED run => UNCHANGED state) /\ (UNCHANGED record => UNCHANGED result)
    BY <1>h DEF state, result, Phase
  <1> QED
    BY <1>1, <1>2, <1>3

\* What a step of a shim is to a reader of its directory and last line.
LEMMA StepMapped ==
  ASSUME TypeOK, Decided, DistinctDispatches, Placed, LifeInv, VerdictInv,
         RecordInv, NEW s \in Shims, Shim(s)
  PROVE  [Promise!Next]_<<state, result, sentinel>>
  <1>t. /\ pc \in [Shims -> Pc] /\ sentinel \in [Shims -> 0 .. 255 \cup {None}]
        /\ verdict \in [Shims -> Verdict]
    BY DEF TypeOK
  <1>f. LifeFits(s) /\ VerdictFits(s) /\ RecordFits(s)
    BY DEF LifeInv, VerdictInv, RecordInv
  <1>m. state[s] = Phase(run[Home(s)]) /\ result[s] = record[Home(s)]
    BY DEF state, result
  <1>1. CASE UNCHANGED <<run, record, sentinel>>
    BY <1>1, Mapped
  <1>2. CASE Open(s)
    <2>1. /\ run' = [run EXCEPT ![Home(s)] = "created"]
          /\ UNCHANGED <<record, sentinel>> /\ pc[s] = "open"
      BY <1>2 DEF Open, Transition, Goes
    <2>2. state[s] = "none" /\ Phase("created") = "open"
      BY <1>f, <1>m, <2>1 DEF RecordFits, Phase, DispatchStatus
    <2>3. /\ state[s] = "none" /\ state' = [state EXCEPT ![s] = "open"]
          /\ result' = result /\ sentinel' = sentinel
      BY <2>1, <2>2, Mapped
    <2>4. Promise!Accept(s)
      BY <2>3 DEF Promise!Accept, state, result
    <2> QED
      BY <2>4 DEF Promise!Next
  <1>3. CASE BeginPreflight(s) \/ BecomeReady(s) \/ PrepareWorkspace(s)
             \/ WorkspaceReady(s) \/ StartRunning(s)
    <2>1. /\ \E new \in {"preflighting", "ready", "workspace_preparing",
                         "workspace_ready", "running"} :
               run' = [run EXCEPT ![Home(s)] = new]
          /\ UNCHANGED <<record, sentinel>>
          /\ pc[s] \in {"created", "passed", "prepare", "workspace", "prepared"}
      BY <1>3 DEF BeginPreflight, BecomeReady, PrepareWorkspace, WorkspaceReady,
         StartRunning, Transition, Goes
    <2>2. state[s] = "open"
      BY <1>f, <1>m, <2>1 DEF RecordFits, LifeFits, Early, Phase, DispatchStatus
    <2>3. state' = [state EXCEPT ![s] = "open"] /\ result' = result
      BY <2>1, Mapped DEF Phase, DispatchStatus
    <2>4. state' = state
      BY <2>2, <2>3 DEF state
    <2> QED
      BY <2>1, <2>3, <2>4
  <1>4. CASE Settle(s)
    <2>1. /\ run' = [run EXCEPT ![Home(s)] = verdict[s].status]
          /\ UNCHANGED <<record, sentinel>> /\ pc[s] = "settle"
      BY <1>4 DEF Settle, Transition, Goes
    <2>2. verdict[s].status \in DispatchStatus
      BY <1>t, <2>1 DEF Decided, FinalTry, Verdict
    <2>3. state[s] = "open"
      BY <1>f, <1>m, <2>1 DEF RecordFits, LifeFits, TRANSITIONS, Phase,
         DispatchStatus
    <2>4. sentinel[s] = None
      BY <2>1, Unsaid DEF Ended
    <2>5. /\ state' = [state EXCEPT ![s] = verdict[s].status]
          /\ result' = result /\ sentinel' = sentinel
      BY <2>1, <2>2, Mapped DEF Phase
    <2>6. /\ state[s] = "open" /\ sentinel[s] = None
          /\ \E status \in DispatchStatus :
               state' = [state EXCEPT ![s] = status]
          /\ UNCHANGED <<result, sentinel>>
      BY <2>2, <2>3, <2>4, <2>5
    <2>7. Promise!Settle(s)
      BY <2>6 DEF Promise!Settle, Promise!DispatchStatus, DispatchStatus,
         state, result
    <2> QED
      BY <2>7 DEF Promise!Next
  <1>5. CASE Conclude(s)
    <2>1. /\ record' = [record EXCEPT ![Home(s)] = verdict[s]]
          /\ UNCHANGED <<run, sentinel>> /\ pc[s] = "conclude"
      BY <1>5 DEF Conclude, Goes
    <2>2. verdict[s].status \in DispatchStatus
      BY <1>t, <2>1 DEF Decided, FinalTry, Verdict
    <2>3. state[s] = verdict[s].status /\ result[s] = NoRecord
      BY <1>f, <1>m, <2>1, <2>2 DEF RecordFits, Phase
    <2>4. sentinel[s] = None
      BY <2>1, Unsaid DEF Ended
    <2>5. /\ Promise!Agrees(verdict[s].status, verdict[s].exit)
          /\ verdict[s].exit \in 0 .. 255
          /\ verdict[s] = [status |-> state[s], exit |-> verdict[s].exit]
      BY <1>t, <1>f, <2>2, <2>3 DEF VerdictFits, Verdict, DispatchStatus
    <2>6. /\ result' = [result EXCEPT ![s] = [status |-> state[s],
                                             exit |-> verdict[s].exit]]
          /\ state' = state /\ sentinel' = sentinel
      BY <2>1, <2>5, Mapped
    <2>7. /\ state[s] \in DispatchStatus /\ result[s] = NoRecord
          /\ sentinel[s] = None
          /\ \E exit \in 0 .. 255 :
               /\ Promise!Agrees(state[s], exit)
               /\ result' = [result EXCEPT ![s] = [status |-> state[s],
                                                  exit |-> exit]]
          /\ UNCHANGED <<state, sentinel>>
      BY <2>2, <2>3, <2>4, <2>5, <2>6
    <2>8. Promise!Conclude(s)
      BY <2>7 DEF Promise!Conclude, Promise!DispatchStatus, DispatchStatus,
         state, result
    <2> QED
      BY <2>8 DEF Promise!Next
  <1>6. CASE Announce(s)
    <2>1. /\ sentinel' = [sentinel EXCEPT ![s] = verdict[s].exit]
          /\ UNCHANGED <<run, record>> /\ pc[s] \in {"announce", "lastWords"}
      BY <1>6 DEF Announce, Goes
    <2>2. sentinel[s] = None /\ verdict[s].exit \in 0 .. 255
      BY <1>t, <2>1, Unsaid DEF Ended, Verdict
    <2>3. state[s] = "none" => verdict[s].exit = 64
      BY <1>f, <1>m DEF RecordFits, VerdictFits, Phase, DispatchStatus
    <2>4. state[s] \in DispatchStatus => Promise!Agrees(state[s], verdict[s].exit)
      BY <1>f, <1>m DEF RecordFits, VerdictFits, Phase, DispatchStatus
    <2>5. result[s] # NoRecord => verdict[s].exit = result[s].exit
      BY <1>f, <1>m DEF RecordFits
    <2>6. state' = state /\ result' = result
      BY <2>1, Mapped
    <2>7. /\ sentinel[s] = None
          /\ \E exit \in 0 .. 255 :
               /\ state[s] = "none" => exit = 64
               /\ state[s] \in DispatchStatus => Promise!Agrees(state[s], exit)
               /\ result[s] # NoRecord => exit = result[s].exit
               /\ sentinel' = [sentinel EXCEPT ![s] = exit]
          /\ UNCHANGED <<state, result>>
      BY <2>1, <2>2, <2>3, <2>4, <2>5, <2>6
    <2>8. Promise!Announce(s)
      BY <2>7 DEF Promise!Announce, Promise!DispatchStatus, DispatchStatus,
         state, result
    <2> QED
      BY <2>8 DEF Promise!Next
  <1> QED
    BY <1>1, <1>2, <1>3, <1>4, <1>5, <1>6 DEF Shim, Start, Create,
       PreflightFails, RecordRequest, PreflightSucceeds, LedgerStarted,
       PromptUnreadable, PromptRead, WorkspaceFails, Launch, Supervising,
       Return, LedgerFinished, Publish, Exit, unrecorded, shimVars

\* Every behaviour of shims with identifiers of their own is one of
\* DispatchRecord: final state, then result, then sentinel, all in agreement,
\* whatever cuts a shim short.
THEOREM RecordImplemented ==
  ASSUME DistinctDispatches
  PROVE  Spec => ImplementsDispatchRecord
  <1>1. Init => Promise!Init
    <2>1. \A s \in Shims : Home(s) \in Dispatches
      BY DispatchAssumption DEF Home
    <2> QED
      BY <2>1 DEF Init, Promise!Init, Phase
  <1>2. TypeOK /\ Decided /\ Placed /\ LifeInv /\ VerdictInv /\ RecordInv
          /\ [Next]_vars => [Promise!Next]_<<state, result, sentinel>>
    <2>1. ASSUME TypeOK, NEW s \in Shims, Environment(s)
          PROVE  UNCHANGED <<state, result, sentinel>>
      BY <2>1, Mapped DEF Environment, Fault, Interrupt, Kill, LateOutput, unharmed,
         shimVars
    <2>2. ASSUME UNCHANGED vars
          PROVE  UNCHANGED <<state, result, sentinel>>
      BY <2>2 DEF vars, shimVars, state, result, Home, Phase
    <2> QED
      BY <2>1, <2>2, StepMapped DEF Next
  <1>3. [Promise!Next]_<<state, result, sentinel>> =>
          [Promise!Next]_<<[s \in Shims |-> Phase(run[Home(s)])],
                           [s \in Shims |-> record[Home(s)]], sentinel>>
    BY DEF state, result
  <1> QED
    BY <1>1, <1>2, <1>3, PlacedHolds, LifeHolds, VerdictHolds, RecordHolds, PTL
    DEF Spec, ImplementsDispatchRecord, Promise!Spec
=============================================================================
