-------------------------- MODULE WorkflowProof ---------------------------
(***************************************************************************)
(* Proofs about the scheduler, for every document that validation accepts, *)
(* every set of outcomes and every bound on crashes, resumes, cancels and  *)
(* interrupts: its inductive invariant, the safety properties that follow  *)
(* from it, and its refinement of DurableProgress, every step of which is  *)
(* an attempt put on record, one settled, the end of a process, or not     *)
(* visible.                                                                *)
(***************************************************************************)
EXTENDS WorkflowInvariant, WorkflowRefinement, FiniteSetTheorems, SequenceTheorems,
        TLAPS

-----------------------------------------------------------------------------
(* Lemmas about the operators the actions are built from.                  *)

\* A write leaves one document, in memory and on disk: the one written, with
\* a cancellation taken over from the disk.
LEMMA PersistWrites ==
  ASSUME disk \in StateDocument, NEW s \in StateDocument, Persist(s)
  PROVE  /\ mem' \in StateDocument /\ disk' = mem'
         /\ mem'.status = s.status /\ mem'.tasks = s.tasks
         /\ mem'.attempts = s.attempts
         /\ disk.cancellationRequested => mem'.cancellationRequested
  BY DEF Persist, StateDocument

\* Setting the status of one attempt changes nothing else in a history.
LEMMA SetStatus ==
  ASSUME NEW h \in Seq(Attempt), NEW n, NEW v \in DispatchStatus \cup {"running"}
  PROVE  LET g == [h EXCEPT ![n].status = v]
         IN  /\ g \in Seq(Attempt) /\ Len(g) = Len(h)
             /\ \A i \in 1..Len(h) :
                  g[i] = IF i = n THEN [h[i] EXCEPT !.status = v] ELSE h[i]
  <1> DEFINE g == [h EXCEPT ![n].status = v]
  <1>1. g = [i \in 1..Len(h) |->
               IF i = n THEN [h[i] EXCEPT !.status = v] ELSE h[i]]
    OBVIOUS
  <1>2. \A a \in Attempt : [a EXCEPT !.status = v] \in Attempt
    BY DEF Attempt
  <1>3. \A i \in 1..Len(h) : h[i] \in Attempt
    BY ElementOfSeq
  <1>4. g \in [1..Len(h) -> Attempt]
    BY <1>1, <1>2, <1>3
  <1>5. g \in Seq(Attempt) /\ Len(g) = Len(h)
    BY <1>4, LenProperties
  <1> QED
    BY <1>1, <1>5

\* Another attempt is put on record behind the others.
LEMMA AppendAttempt ==
  ASSUME NEW h \in Seq(Attempt), NEW a \in Attempt
  PROVE  LET g == Append(h, a)
         IN  /\ g \in Seq(Attempt) /\ Len(g) = Len(h) + 1
             /\ g[Len(h) + 1] = a
             /\ \A i \in 1..Len(h) : g[i] = h[i]
  BY AppendProperties

\* What a marking visit or a resume leaves is a state of a task.
LEMMA TaskStates ==
  /\ \A s \in TaskState : ResumedTask(s) \in TaskState
  /\ \A tasks \in [Tasks -> TaskState], t \in Tasks, f \in BOOLEAN :
       MarkedState(tasks, t, f) \in TaskState
  BY DEF ResumedTask, MarkedState, TaskState, TerminalStates, TerminalSuccess,
         TerminalFailure, RunFailure

-----------------------------------------------------------------------------
(* The variables have their types.                                         *)

\* The document of a workflow that was just created has its type.
LEMMA InitialStateTyped == InitialState \in StateDocument
  BY EmptySeq DEF InitialState, StateDocument, WorkflowStatus, TaskState

(* What each writing action leaves in the document, in memory and on disk. *)

\* The first write of a resume puts the document in memory on disk and
\* keeps a cancellation that is there.
LEMMA ResumeWriteWrites ==
  ASSUME DocumentsTyped, ResumeWrite
  PROVE  /\ mem' \in StateDocument /\ disk' = mem'
         /\ mem'.status = mem.status /\ mem'.tasks = mem.tasks
         /\ mem'.attempts = mem.attempts
         /\ disk.cancellationRequested => disk'.cancellationRequested
  BY PersistWrites DEF ResumeWrite, DocumentsTyped

\* initialize changes the status alone and keeps a recorded cancellation.
LEMMA InitializeWrites ==
  ASSUME DocumentsTyped, GhostsTyped, Initialize
  PROVE  /\ mem' \in StateDocument /\ disk' = mem'
         /\ mem'.status = "running" /\ mem'.tasks = mem.tasks
         /\ mem'.attempts = mem.attempts
         /\ disk.cancellationRequested => disk'.cancellationRequested
  <1> DEFINE s == [mem EXCEPT !.status = "running", !.runnerPid = Process,
                              !.cancellationRequested = FALSE]
  <1>1. Process \in Nat
    BY DEF Process, GhostsTyped
  <1>2. s \in StateDocument /\ s.status = "running" /\ s.tasks = mem.tasks
        /\ s.attempts = mem.attempts
    BY <1>1 DEF DocumentsTyped, StateDocument, WorkflowStatus
  <1> QED
    BY <1>2, PersistWrites DEF Initialize, DocumentsTyped

\* settle changes the state of the collected task alone.
LEMMA CollectWrites ==
  ASSUME DocumentsTyped, WorkersTyped, NEW t \in Tasks, Collect(t)
  PROVE  /\ mem' \in StateDocument /\ disk' = mem'
         /\ mem'.status = mem.status /\ mem'.attempts = mem.attempts
         /\ mem'.tasks = [mem.tasks EXCEPT ![t] = result[t]]
         /\ disk.cancellationRequested => disk'.cancellationRequested
  <1> DEFINE s == [mem EXCEPT !.tasks[t] = result[t]]
  <1>1. result[t] \in TaskState
    BY DEF WorkersTyped, TaskState, TerminalStates, TerminalFailure
  <1>2. s \in StateDocument /\ s.status = mem.status /\ s.attempts = mem.attempts
        /\ s.tasks = [mem.tasks EXCEPT ![t] = result[t]]
    BY <1>1 DEF DocumentsTyped, StateDocument
  <1> QED
    BY <1>2, PersistWrites DEF Collect, DocumentsTyped

\* The states in which Finalize leaves the tasks, and the workflow's.
FinalTasks ==
  [t \in Tasks |-> IF cancelEvent /\ mem.tasks[t] \notin TerminalStates
                   THEN "cancelled" ELSE mem.tasks[t]]
FinalStatus ==
  IF cancelEvent THEN "cancelled"
  ELSE IF \A t \in Tasks : FinalTasks[t] \in TerminalSuccess THEN "succeeded"
  ELSE "failed"

\* The final write settles the status and the tasks that were cancelled.
LEMMA FinalizeWrites ==
  ASSUME DocumentsTyped, Finalize
  PROVE  /\ mem' \in StateDocument /\ disk' = mem'
         /\ mem'.status = FinalStatus /\ mem'.attempts = mem.attempts
         /\ mem'.tasks = FinalTasks
         /\ disk.cancellationRequested => disk'.cancellationRequested
  <1> DEFINE s == [mem EXCEPT !.tasks = FinalTasks, !.status = FinalStatus,
                              !.runnerPid = 0]
  <1>1. FinalTasks \in [Tasks -> TaskState]
    BY DEF FinalTasks, DocumentsTyped, StateDocument, TaskState,
           TerminalStates, TerminalFailure, RunFailure
  <1>2. FinalStatus \in WorkflowStatus
    BY DEF FinalStatus, WorkflowStatus, TerminalWorkflowStates
  <1>3. s \in StateDocument /\ s.status = FinalStatus /\ s.tasks = FinalTasks
        /\ s.attempts = mem.attempts
    BY <1>1, <1>2 DEF DocumentsTyped, StateDocument
  <1>4. Persist(s)
    BY DEF Finalize, FinalTasks, FinalStatus
  <1> QED
    BY <1>3, <1>4, PersistWrites DEF DocumentsTyped

\* started marks the task as running and appends one running attempt.
LEMMA StartAttemptWrites ==
  ASSUME DocumentsTyped, WorkersTyped, NEW t \in Tasks, StartAttempt(t)
  PROVE  LET a == [number |-> firstAttempt[t] + attemptInRun[t],
                   status |-> "running"]
         IN  /\ mem' \in StateDocument /\ disk' = mem'
             /\ mem'.status = mem.status
             /\ mem'.tasks = [mem.tasks EXCEPT ![t] = "running"]
             /\ mem'.attempts = [mem.attempts EXCEPT ![t] = Append(@, a)]
             /\ disk.cancellationRequested => disk'.cancellationRequested
  <1> DEFINE a == [number |-> firstAttempt[t] + attemptInRun[t],
                   status |-> "running"]
             s == [mem EXCEPT !.tasks[t] = "running",
                              !.attempts[t] = Append(@, a)]
  <1>1. a \in Attempt
    BY DEF WorkersTyped, Attempt
  <1>2. mem.attempts \in [Tasks -> Seq(Attempt)]
        /\ mem.tasks \in [Tasks -> TaskState]
    BY DEF DocumentsTyped, StateDocument
  <1>3. Append(mem.attempts[t], a) \in Seq(Attempt)
    BY <1>1, <1>2, AppendAttempt
  <1> HIDE DEF a
  <1>4. s \in StateDocument /\ s.status = mem.status
        /\ s.tasks = [mem.tasks EXCEPT ![t] = "running"]
        /\ s.attempts = [mem.attempts EXCEPT ![t] = Append(@, a)]
    BY <1>2, <1>3 DEF DocumentsTyped, StateDocument, TaskState
  <1>5. Persist(s)
    BY DEF StartAttempt, a
  <1> QED
    BY <1>4, <1>5, PersistWrites DEF DocumentsTyped, a

\* finished gives the last attempt its status and changes nothing else.
LEMMA FinishAttemptWrites ==
  ASSUME DocumentsTyped, WorkersTyped, NEW t \in Tasks, FinishAttempt(t)
  PROVE  /\ mem' \in StateDocument /\ disk' = mem'
         /\ mem'.status = mem.status /\ mem'.tasks = mem.tasks
         /\ mem'.attempts =
              [mem.attempts EXCEPT
                 ![t] = [@ EXCEPT ![Len(@)].status = outcome[t].status]]
         /\ disk.cancellationRequested => disk'.cancellationRequested
  <1> DEFINE h == mem.attempts[t]
             v == outcome[t].status
             s == [mem EXCEPT !.attempts[t][Len(mem.attempts[t])].status = v]
  <1>1. v \in DispatchStatus
    BY DEF WorkersTyped, AttemptOutcome
  <1>2. mem.attempts \in [Tasks -> Seq(Attempt)]
    BY DEF DocumentsTyped, StateDocument
  <1>3. [h EXCEPT ![Len(h)].status = v] \in Seq(Attempt)
    BY <1>1, <1>2, SetStatus
  <1> HIDE DEF v
  <1>4. s \in StateDocument /\ s.status = mem.status /\ s.tasks = mem.tasks
        /\ s.attempts = [mem.attempts EXCEPT
                           ![t] = [h EXCEPT ![Len(h)].status = v]]
    BY <1>2, <1>3 DEF DocumentsTyped, StateDocument
  <1>5. Persist(s)
    BY DEF FinishAttempt, v
  <1> QED
    BY <1>4, <1>5, PersistWrites DEF DocumentsTyped, v

\* The initial states of run_workflow are well typed.
LEMMA TypeInit == Init => TypeOK
  <1> SUFFICES ASSUME Init PROVE TypeOK
    OBVIOUS
  <1>1. DocumentsTyped
    BY InitialStateTyped DEF Init, DocumentsTyped
  <1>2. MainTyped
    <2>1. cancelEvent \in BOOLEAN /\ failureTriggered \in BOOLEAN
      BY DEF Init, Idle
    <2> QED
      BY <2>1 DEF Init, Idle, MainTyped, MainPc, Handling
  <1>3. WorkersTyped
    BY DEF Init, Idle, WorkersTyped, NoOutcome, AttemptOutcome, DispatchStatus,
           RunFailure, WorkerPc
  <1>4. ClientTyped
    BY DEF Init, ClientTyped
  <1>5. GhostsTyped
    BY EmptySeq DEF Init, GhostsTyped
  <1> QED
    BY <1>1, <1>2, <1>3, <1>4, <1>5 DEF TypeOK

\* The end of a scheduler process, by itself or by SIGKILL, leaves everything
\* well typed.
LEMMA TypeProcessEnds ==
  ASSUME TypeOK, ProcessEnds,
         spent' \in [crashes : Nat, resumes : Nat, cancels : Nat, interrupts : Nat]
  PROVE  TypeOK'
  <1>1. DocumentsTyped'
    BY DEF TypeOK, DocumentsTyped, ProcessEnds
  <1>2. MainTyped'
    <2>1. cancelEvent' \in BOOLEAN /\ failureTriggered' \in BOOLEAN
      BY DEF ProcessEnds
    <2> QED
      BY <2>1 DEF TypeOK, MainTyped, ProcessEnds, MainPc, Handling
  <1>3. WorkersTyped'
    BY DEF ProcessEnds, WorkersTyped, NoOutcome, AttemptOutcome, DispatchStatus,
           RunFailure, WorkerPc
  <1>4. ClientTyped' /\ GhostsTyped'
    BY DEF TypeOK, ClientTyped, GhostsTyped, ProcessEnds, clientVars
  <1> QED
    BY <1>1, <1>2, <1>3, <1>4 DEF TypeOK

\* Every action keeps the types.
LEMMA TypeNext == TypeOK /\ [Next]_vars => TypeOK'
  <1> SUFFICES ASSUME TypeOK, [Next]_vars PROVE TypeOK'
    OBVIOUS
  <1> USE DEF TypeOK, loopVars, mainVars, workerVars, clientVars, ghostVars, workerFrame,
              clientFrame
  <1>1. ASSUME ResumeWrite PROVE TypeOK'
    <2>1. DocumentsTyped'
      BY <1>1, ResumeWriteWrites DEF ResumeWrite, DocumentsTyped
    <2>2. MainTyped'
      BY <1>1 DEF ResumeWrite, MainTyped, MainPc, Handling
    <2>3. WorkersTyped' /\ ClientTyped' /\ GhostsTyped'
      BY <1>1 DEF ResumeWrite, WorkersTyped, ClientTyped, GhostsTyped
    <2> QED
      BY <2>1, <2>2, <2>3
  <1>2. ASSUME AcquireLease PROVE TypeOK'
    <2>1. MainTyped'
      BY <1>2 DEF AcquireLease, MainTyped, MainPc, Handling
    <2>2. DocumentsTyped' /\ WorkersTyped' /\ ClientTyped' /\ GhostsTyped'
      BY <1>2 DEF AcquireLease, DocumentsTyped, WorkersTyped, ClientTyped,
         GhostsTyped
    <2> QED
      BY <2>1, <2>2
  <1>3. ASSUME LeaseRefused PROVE TypeOK'
    BY <1>3, TypeProcessEnds DEF LeaseRefused, GhostsTyped
  <1>4. ASSUME Initialize PROVE TypeOK'
    <2>1. DocumentsTyped'
      BY <1>4, InitializeWrites DEF Initialize, DocumentsTyped
    <2>2. MainTyped'
      BY <1>4 DEF Initialize, MainTyped, MainPc, Handling
    <2>3. WorkersTyped' /\ ClientTyped' /\ GhostsTyped'
      BY <1>4 DEF Initialize, WorkersTyped, ClientTyped, GhostsTyped
    <2> QED
      BY <2>1, <2>2, <2>3
  <1>5. ASSUME Poll PROVE TypeOK'
    <2>1. MainTyped'
      BY <1>5 DEF Poll, MainTyped, MainPc, Handling, RequestCancel
    <2>2. WorkersTyped'
      BY <1>5 DEF Poll, WorkersTyped
    <2>3. DocumentsTyped' /\ ClientTyped' /\ GhostsTyped'
      BY <1>5 DEF Poll, DocumentsTyped, ClientTyped, GhostsTyped
    <2> QED
      BY <2>1, <2>2, <2>3
  <1>6. ASSUME NEW t \in Tasks, MarkTask(t) PROVE TypeOK'
    <2>1. DocumentsTyped'
      BY <1>6, TaskStates DEF MarkTask, DocumentsTyped, StateDocument,
         MainTyped
    <2>2. MainTyped' /\ WorkersTyped' /\ ClientTyped' /\ GhostsTyped'
      BY <1>6 DEF MarkTask, MainTyped, WorkersTyped, ClientTyped, GhostsTyped
    <2> QED
      BY <2>1, <2>2
  <1>7. ASSUME EndMark PROVE TypeOK'
    <2>1. MainTyped'
      BY <1>7 DEF EndMark, MainTyped, MainPc, Handling
    <2>2. DocumentsTyped' /\ WorkersTyped' /\ ClientTyped' /\ GhostsTyped'
      BY <1>7 DEF EndMark, DocumentsTyped, WorkersTyped, ClientTyped,
         GhostsTyped
    <2> QED
      BY <2>1, <2>2
  <1>8. ASSUME NEW t \in Tasks, Submit(t) PROVE TypeOK'
    <2>1. MainTyped'
      BY <1>8, TasksAssumption DEF Submit, MainTyped
    <2>2. WorkersTyped'
      BY <1>8 DEF Submit, WorkersTyped, WorkerPc
    <2>3. DocumentsTyped' /\ ClientTyped' /\ GhostsTyped'
      BY <1>8 DEF Submit, DocumentsTyped, ClientTyped, GhostsTyped
    <2> QED
      BY <2>1, <2>2, <2>3
  <1>9. ASSUME EndSubmit PROVE TypeOK'
    <2>1. MainTyped'
      BY <1>9 DEF EndSubmit, MainTyped, AfterSubmit, MainPc, Handling
    <2>2. DocumentsTyped' /\ WorkersTyped' /\ ClientTyped' /\ GhostsTyped'
      BY <1>9 DEF EndSubmit, DocumentsTyped, WorkersTyped, ClientTyped,
         GhostsTyped
    <2> QED
      BY <2>1, <2>2
  <1>10. ASSUME Wait PROVE TypeOK'
    <2>1. MainTyped'
      BY <1>10 DEF Wait, MainTyped, MainPc, Handling
    <2>2. DocumentsTyped' /\ WorkersTyped' /\ ClientTyped' /\ GhostsTyped'
      BY <1>10 DEF Wait, DocumentsTyped, WorkersTyped, ClientTyped, GhostsTyped
    <2> QED
      BY <2>1, <2>2
  <1>11. ASSUME NEW t \in Tasks, Collect(t) PROVE TypeOK'
    <2>1. DocumentsTyped'
      BY <1>11, CollectWrites DEF Collect, DocumentsTyped
    <2>2. MainTyped'
      <3>1. TriggeredBy(result[t]) \in BOOLEAN
        BY DEF TriggeredBy, MainTyped
      <3>2. failureTriggered' \in BOOLEAN
        BY <1>11, <3>1, Zenon DEF Collect
      <3>3. cancelEvent' \in BOOLEAN
        BY <1>11 DEF Collect, MainTyped
      <3> QED
        BY <1>11, <3>2, <3>3, TasksAssumption DEF Collect, MainTyped
    <2>3. WorkersTyped'
      BY <1>11 DEF Collect, WorkersTyped, Leave, WorkerPc, NoOutcome,
         AttemptOutcome, DispatchStatus, RunFailure
    <2>4. ClientTyped' /\ GhostsTyped'
      BY <1>11 DEF Collect, ClientTyped, GhostsTyped
    <2> QED
      BY <2>1, <2>2, <2>3, <2>4
  <1>12. ASSUME EndCollect PROVE TypeOK'
    <2>1. MainTyped'
      BY <1>12 DEF EndCollect, MainTyped, MainPc, Handling
    <2>2. WorkersTyped'
      BY <1>12 DEF EndCollect, WorkersTyped
    <2>3. DocumentsTyped' /\ ClientTyped' /\ GhostsTyped'
      BY <1>12 DEF EndCollect, DocumentsTyped, ClientTyped, GhostsTyped
    <2> QED
      BY <2>1, <2>2, <2>3
  <1>13. ASSUME Finalize PROVE TypeOK'
    <2>1. DocumentsTyped'
      BY <1>13, FinalizeWrites DEF Finalize, DocumentsTyped
    <2>2. MainTyped'
      BY <1>13 DEF Finalize, MainTyped, MainPc, Handling
    <2>3. WorkersTyped' /\ ClientTyped' /\ GhostsTyped'
      BY <1>13 DEF Finalize, WorkersTyped, ClientTyped, GhostsTyped
    <2> QED
      BY <2>1, <2>2, <2>3
  <1>14. ASSUME ReleaseLease PROVE TypeOK'
    BY <1>14, TypeProcessEnds DEF ReleaseLease, GhostsTyped
  <1>15. ASSUME ResumeLoad PROVE TypeOK'
    <2>1. DocumentsTyped'
      BY <1>15, TaskStates DEF ResumeLoad, DocumentsTyped, ResumedState,
         StateDocument, WorkflowStatus
    <2>2. MainTyped'
      BY <1>15 DEF ResumeLoad, MainTyped, MainPc, Handling
    <2>3. GhostsTyped'
      BY <1>15 DEF ResumeLoad, GhostsTyped
    <2>4. WorkersTyped' /\ ClientTyped'
      BY <1>15 DEF ResumeLoad, WorkersTyped, ClientTyped
    <2> QED
      BY <2>1, <2>2, <2>3, <2>4
  <1>16. ASSUME NEW t \in Tasks, BeginTask(t) PROVE TypeOK'
    <2>1. WorkersTyped'
      BY <1>16, LenProperties DEF BeginTask, WorkersTyped, Go, WorkerPc,
         DocumentsTyped, StateDocument
    <2>2. DocumentsTyped' /\ MainTyped' /\ ClientTyped' /\ GhostsTyped'
      BY <1>16 DEF BeginTask, DocumentsTyped, MainTyped, ClientTyped,
         GhostsTyped
    <2> QED
      BY <2>1, <2>2
  <1>17. ASSUME NEW t \in Tasks, PromptFails(t) PROVE TypeOK'
    <2>1. WorkersTyped'
      BY <1>17 DEF PromptFails, WorkersTyped, Return, Go, WorkerPc, RunFailure,
         TerminalSuccess
    <2>2. DocumentsTyped' /\ MainTyped' /\ ClientTyped' /\ GhostsTyped'
      BY <1>17 DEF PromptFails, DocumentsTyped, MainTyped, ClientTyped,
         GhostsTyped
    <2> QED
      BY <2>1, <2>2
  <1>18. ASSUME NEW t \in Tasks, StartAttempt(t) PROVE TypeOK'
    <2>1. DocumentsTyped'
      BY <1>18, StartAttemptWrites DEF StartAttempt, DocumentsTyped
    <2>2. WorkersTyped'
      BY <1>18 DEF StartAttempt, WorkersTyped, Go, WorkerPc
    <2>3. MainTyped' /\ ClientTyped' /\ GhostsTyped'
      BY <1>18 DEF StartAttempt, MainTyped, ClientTyped, GhostsTyped
    <2> QED
      BY <2>1, <2>2, <2>3
  <1>19. ASSUME NEW t \in Tasks, CheckCancel(t) PROVE TypeOK'
    <2>1. WorkersTyped'
      <3>1. CancelledEarly \in AttemptOutcome
        BY DEF CancelledEarly, AttemptOutcome, DispatchStatus
      <3>2. workerPc' \in [Tasks -> WorkerPc]
        BY <1>19 DEF CheckCancel, WorkersTyped, Go, WorkerPc
      <3>3. outcome' \in [Tasks -> AttemptOutcome]
        BY <1>19, <3>1 DEF CheckCancel, WorkersTyped
      <3> QED
        BY <1>19, <3>2, <3>3 DEF CheckCancel, WorkersTyped
    <2>2. DocumentsTyped' /\ MainTyped' /\ ClientTyped' /\ GhostsTyped'
      BY <1>19 DEF CheckCancel, DocumentsTyped, MainTyped, ClientTyped,
         GhostsTyped
    <2> QED
      BY <2>1, <2>2
  <1>20. ASSUME NEW t \in Tasks, Launch(t) PROVE TypeOK'
    <2>1. WorkersTyped'
      BY <1>20 DEF Launch, WorkersTyped, Go, WorkerPc
    <2>2. GhostsTyped'
      BY <1>20 DEF Launch, GhostsTyped, HandOver, AttemptNumber, WorkersTyped
    <2>3. DocumentsTyped' /\ MainTyped' /\ ClientTyped'
      BY <1>20 DEF Launch, DocumentsTyped, MainTyped, ClientTyped
    <2> QED
      BY <2>1, <2>2, <2>3
  <1>21. ASSUME NEW t \in Tasks, LaunchFails(t) PROVE TypeOK'
    <2>1. WorkersTyped'
      BY <1>21 DEF LaunchFails, WorkersTyped, Go, WorkerPc, NotLaunched,
         AttemptOutcome, DispatchStatus
    <2>2. GhostsTyped'
      BY <1>21 DEF LaunchFails, GhostsTyped, HandOver, AttemptNumber,
         WorkersTyped
    <2>3. DocumentsTyped' /\ MainTyped' /\ ClientTyped'
      BY <1>21 DEF LaunchFails, DocumentsTyped, MainTyped, ClientTyped
    <2> QED
      BY <2>1, <2>2, <2>3
  <1>22. ASSUME NEW t \in Tasks, RunnerRaises(t) PROVE TypeOK'
    <2>1. WorkersTyped'
      BY <1>22 DEF RunnerRaises, WorkersTyped, Return, Go, WorkerPc,
         RunFailure, TerminalSuccess
    <2>2. GhostsTyped'
      BY <1>22 DEF RunnerRaises, GhostsTyped, HandOver, AttemptNumber,
         WorkersTyped
    <2>3. DocumentsTyped' /\ MainTyped' /\ ClientTyped'
      BY <1>22 DEF RunnerRaises, DocumentsTyped, MainTyped, ClientTyped
    <2> QED
      BY <2>1, <2>2, <2>3
  <1>23. ASSUME NEW t \in Tasks, ShimExits(t) PROVE TypeOK'
    <2>1. WorkersTyped'
      BY <1>23, OutcomesAssumption
      DEF ShimExits, ShimOutcome, WorkersTyped, Go, WorkerPc
    <2>2. DocumentsTyped' /\ MainTyped' /\ ClientTyped' /\ GhostsTyped'
      BY <1>23 DEF ShimExits, DocumentsTyped, MainTyped, ClientTyped,
         GhostsTyped
    <2> QED
      BY <2>1, <2>2
  <1>24. ASSUME NEW t \in Tasks, FinishAttempt(t) PROVE TypeOK'
    <2>1. DocumentsTyped'
      BY <1>24, FinishAttemptWrites DEF FinishAttempt, DocumentsTyped
    <2>2. WorkersTyped'
      <3>1. NoOutcome \in AttemptOutcome
        BY DEF NoOutcome, AttemptOutcome, DispatchStatus
      <3>2. workerPc' \in [Tasks -> WorkerPc]
        BY <1>24 DEF FinishAttempt, WorkersTyped, Return, Go, WorkerPc
      <3>3. result' \in [Tasks -> TerminalSuccess \cup RunFailure]
        BY <1>24 DEF FinishAttempt, WorkersTyped, Return, RunFailure,
                    TerminalSuccess
      <3>4. outcome' \in [Tasks -> AttemptOutcome]
        BY <1>24, <3>1 DEF FinishAttempt, WorkersTyped
      <3> QED
        BY <1>24, <3>2, <3>3, <3>4 DEF FinishAttempt, WorkersTyped
    <2>3. MainTyped' /\ ClientTyped' /\ GhostsTyped'
      BY <1>24 DEF FinishAttempt, MainTyped, ClientTyped, GhostsTyped
    <2> QED
      BY <2>1, <2>2, <2>3
  <1>25. ASSUME NEW t \in Tasks, VerifyTask(t) PROVE TypeOK'
    <2>1. WorkersTyped'
      BY <1>25 DEF VerifyTask, WorkersTyped, Return, Go, WorkerPc, RunFailure,
         TerminalSuccess
    <2>2. DocumentsTyped' /\ MainTyped' /\ ClientTyped' /\ GhostsTyped'
      BY <1>25 DEF VerifyTask, DocumentsTyped, MainTyped, ClientTyped,
         GhostsTyped
    <2> QED
      BY <2>1, <2>2
  <1>26. ASSUME NEW t \in Tasks, BackoffElapses(t) PROVE TypeOK'
    <2>1. WorkersTyped'
      BY <1>26 DEF BackoffElapses, WorkersTyped, Go, WorkerPc
    <2>2. DocumentsTyped' /\ MainTyped' /\ ClientTyped' /\ GhostsTyped'
      BY <1>26 DEF BackoffElapses, DocumentsTyped, MainTyped, ClientTyped,
         GhostsTyped
    <2> QED
      BY <2>1, <2>2
  <1>27. ASSUME NEW t \in Tasks, BackoffCancelled(t) PROVE TypeOK'
    <2>1. WorkersTyped'
      BY <1>27 DEF BackoffCancelled, WorkersTyped, Return, Go, WorkerPc,
         RunFailure, TerminalSuccess
    <2>2. DocumentsTyped' /\ MainTyped' /\ ClientTyped' /\ GhostsTyped'
      BY <1>27 DEF BackoffCancelled, DocumentsTyped, MainTyped, ClientTyped,
         GhostsTyped
    <2> QED
      BY <2>1, <2>2
  <1>28. ASSUME CancelProbe PROVE TypeOK'
    <2>1. MainTyped'
      BY <1>28 DEF CancelProbe, MainTyped
    <2>2. ClientTyped'
      BY <1>28 DEF CancelProbe, ClientTyped
    <2>3. GhostsTyped'
      BY <1>28 DEF CancelProbe, GhostsTyped
    <2>4. DocumentsTyped' /\ WorkersTyped'
      BY <1>28 DEF CancelProbe, DocumentsTyped, WorkersTyped
    <2> QED
      BY <2>1, <2>2, <2>3, <2>4
  <1>29. ASSUME CancelProbeRelease PROVE TypeOK'
    <2>1. MainTyped'
      BY <1>29 DEF CancelProbeRelease, MainTyped
    <2>2. ClientTyped'
      BY <1>29 DEF CancelProbeRelease, ClientTyped
    <2>3. DocumentsTyped' /\ WorkersTyped' /\ GhostsTyped'
      BY <1>29 DEF CancelProbeRelease, DocumentsTyped, WorkersTyped,
         GhostsTyped
    <2> QED
      BY <2>1, <2>2, <2>3
  <1>30. ASSUME CancelFlag PROVE TypeOK'
    <2>1. DocumentsTyped'
      BY <1>30 DEF CancelFlag, DocumentsTyped, StateDocument
    <2>2. ClientTyped'
      <3>1. disk.runnerPid \in Nat
        BY DEF DocumentsTyped, StateDocument
      <3>2. clientTarget' \in Nat
        BY <1>30, <3>1 DEF CancelFlag, ClientTyped
      <3>3. clientPc' \in {"idle", "signalling"}
        BY <1>30 DEF CancelFlag
      <3>4. clientActive' \in BOOLEAN
        BY <1>30 DEF CancelFlag
      <3> QED
        BY <3>2, <3>3, <3>4 DEF ClientTyped
    <2>3. GhostsTyped'
      BY <1>30 DEF CancelFlag, GhostsTyped
    <2>4. MainTyped' /\ WorkersTyped'
      BY <1>30 DEF CancelFlag, MainTyped, WorkersTyped
    <2> QED
      BY <2>1, <2>2, <2>3, <2>4
  <1>31. ASSUME CancelSignal PROVE TypeOK'
    <2>1. MainTyped'
      BY <1>31 DEF CancelSignal, MainTyped, RequestCancel
    <2>2. WorkersTyped'
      BY <1>31 DEF CancelSignal, WorkersTyped
    <2>3. ClientTyped'
      BY <1>31 DEF CancelSignal, ClientTyped
    <2>4. DocumentsTyped' /\ GhostsTyped'
      BY <1>31 DEF CancelSignal, DocumentsTyped, GhostsTyped
    <2> QED
      BY <2>1, <2>2, <2>3, <2>4
  <1>32. ASSUME Interrupt PROVE TypeOK'
    <2>1. MainTyped'
      BY <1>32 DEF Interrupt, MainTyped, RequestCancel
    <2>2. WorkersTyped'
      BY <1>32 DEF Interrupt, WorkersTyped, RequestCancel, SignalShims
    <2>3. GhostsTyped'
      BY <1>32 DEF Interrupt, GhostsTyped
    <2>4. DocumentsTyped' /\ ClientTyped'
      BY <1>32 DEF Interrupt, DocumentsTyped, ClientTyped
    <2> QED
      BY <2>1, <2>2, <2>3, <2>4
  <1>33. ASSUME Crash PROVE TypeOK'
    BY <1>33, TypeProcessEnds DEF Crash, GhostsTyped
  <1>34. ASSUME UNCHANGED vars PROVE TypeOK'
    BY <1>34 DEF vars, DocumentsTyped, MainTyped, WorkersTyped, ClientTyped,
       GhostsTyped
  <1>35. ASSUME CancelActive PROVE TypeOK'
    <2>1. MainTyped'
      BY <1>35 DEF CancelActive, MainTyped, MainPc, Handling
    <2>2. WorkersTyped'
      BY <1>35 DEF CancelActive, SignalShims, WorkersTyped
    <2>3. DocumentsTyped' /\ ClientTyped' /\ GhostsTyped'
      BY <1>35 DEF CancelActive, DocumentsTyped, ClientTyped, GhostsTyped
    <2> QED
      BY <2>1, <2>2, <2>3
  <1>36. ASSUME WriteFails PROVE TypeOK'
    BY <1>36, TypeProcessEnds DEF WriteFails, GhostsTyped
  <1> QED
    BY <1>1, <1>2, <1>3, <1>4, <1>5, <1>6, <1>7, <1>8, <1>9, <1>10, <1>11,
       <1>12, <1>13, <1>14, <1>15, <1>16, <1>17, <1>18, <1>19, <1>20, <1>21,
       <1>22, <1>23, <1>24, <1>25, <1>26, <1>27, <1>28, <1>29, <1>30, <1>31,
       <1>32, <1>33, <1>34, <1>35, <1>36 DEF Next, Main, Worker, Client

\* The types are right in every reachable state.
THEOREM TypeCorrect == Spec => []TypeOK
  BY TypeInit, TypeNext, PTL DEF Spec
-----------------------------------------------------------------------------
(* The inductive invariant.                                                *)

\* Nothing depends on a process that has ended.
LEMMA InductiveProcessEnds ==
  ASSUME TypeOK, Inductive, ProcessEnds
  PROVE  Inductive'
  <1>p. Persisted /\ Numbered /\ Handed /\ Statused
    BY DEF Inductive
  <1>1. Threads'
    BY DEF ProcessEnds, Threads
  <1>2. Counters'
    <2>1. \A r \in Providers : ActiveOf(r, {}) = {}
      BY DEF ActiveOf
    <2>2. \A r \in Providers : ProviderLimit(r) \in Nat \ {0}
      BY LimitsAssumption DEF ProviderLimit
    <2> QED
      BY <2>1, <2>2, FS_EmptySet, LimitsAssumption DEF ProcessEnds, Counters
  <1>3. Persisted'
    BY DEF ProcessEnds, Persisted
  <1>4. Ordered' /\ Marked' /\ ProgressAlwaysMade'
    BY DEF ProcessEnds, Ordered, Up, Marked, ProgressAlwaysMade
  <1>5. Numbered'
    <2>1. \A t \in Tasks : disk.attempts[t] = mem.attempts[t]
      BY <1>p DEF Persisted
    <2> QED
      BY <1>p, <2>1 DEF ProcessEnds, Numbered, NumberedAt, Attempting
  <1>6. Handed'
    BY <1>p DEF ProcessEnds, Handed, HandedAt
  <1>7. Statused'
    BY <1>p DEF ProcessEnds, Statused, InLoop
  <1> QED
    BY <1>1, <1>2, <1>3, <1>4, <1>5, <1>6, <1>7 DEF Inductive

\* A step of arithmetic about attempt numbers, kept apart from the sets.
LEMMA OneLess == \A i, j, k \in Nat : i + j - 1 = k => i + j = k + 1
  OBVIOUS

\* Handing the attempt last recorded to the runner keeps the order of the
\* attempts handed over.
LEMMA HandOverKeepsOrder ==
  ASSUME Handed, WorkersTyped, GhostsTyped, NEW t \in Tasks, NEW to,
         to \notin {"started", "launching"},
         workerPc[t] = "launching", workerPc' = [workerPc EXCEPT ![t] = to],
         AttemptNumber(t) \in Int, AttemptNumber(t) = Len(disk.attempts[t]),
         launches' = [launches EXCEPT ![t] = Append(@, AttemptNumber(t))],
         UNCHANGED disk
  PROVE  Handed'
  <1>1. launches \in [Tasks -> Seq(Int)]
    BY DEF GhostsTyped
  <1>2. /\ Len(launches'[t]) = Len(launches[t]) + 1
        /\ launches'[t][Len(launches[t]) + 1] = AttemptNumber(t)
        /\ \A i \in 1..Len(launches[t]) : launches'[t][i] = launches[t][i]
        /\ Len(launches[t]) \in Nat
    BY <1>1, AppendProperties, LenProperties
  <1>3. \A i \in 1..Len(launches[t]) : launches[t][i] < AttemptNumber(t)
    BY DEF Handed, HandedAt
  <1>4. \A u \in Tasks \ {t} : launches'[u] = launches[u] /\ workerPc'[u] = workerPc[u]
    BY <1>1 DEF WorkersTyped
  <1>5. ASSUME NEW i \in 1..Len(launches'[t]), NEW j \in 1..Len(launches'[t]), i < j
        PROVE  launches'[t][i] < launches'[t][j]
    BY <1>2, <1>3, <1>5 DEF Handed, HandedAt
  <1>6. \A i \in 1..Len(launches'[t]) : launches'[t][i] <= Len(disk.attempts[t])
    BY <1>2 DEF Handed, HandedAt
  <1>7. workerPc'[t] \notin {"started", "launching"}
    BY DEF WorkersTyped
  <1> QED
    BY <1>4, <1>5, <1>6, <1>7 DEF Handed, HandedAt

\* On an acyclic graph whose tasks are marked, an empty executor means that
\* everything is finished or that a task could have been submitted.
LEMMA EndSubmitProgresses ==
  ASSUME TypeOK, Inductive, EndSubmit
  PROVE  ProgressAlwaysMade'
  <1>p. Threads /\ Counters /\ Ordered /\ Marked
    BY DEF Inductive
  <1>1. SUFFICES ASSUME futures = {}, ~cancelEvent, Unfinished # {} PROVE FALSE
    BY DEF EndSubmit, AfterSubmit, ProgressAlwaysMade
  <1>2. PICK t \in Unfinished : DependsOn[t] \cap Unfinished = {}
    BY <1>1, AcyclicAssumption DEF Unfinished
  <1>3. t \in Tasks /\ DependsOn[t] \subseteq Tasks
    BY TasksAssumption DEF Unfinished
  <1>4. \A d \in DependsOn[t] : mem.tasks[d] \in TerminalStates
    BY <1>2, <1>3 DEF Unfinished
  <1>5. mem.tasks[t] \in {"pending", "ready"}
    <2>1. mem.tasks[t] \in TaskState \ TerminalStates
      BY <1>2, <1>3 DEF Unfinished, TypeOK, DocumentsTyped, StateDocument
    <2>2. mem.tasks[t] # "running"
      BY <1>p, <1>1, <1>3 DEF EndSubmit, Ordered, Up
    <2> QED
      BY <2>1, <2>2 DEF TaskState
  <1>6. MarkedState(mem.tasks, t, failureTriggered) = mem.tasks[t]
    BY <1>p, <1>3, <1>5 DEF EndSubmit, Marked, Markable
  <1>7. mem.tasks[t] = "ready"
    BY <1>4, <1>5, <1>6 DEF MarkedState, TerminalStates
  <1>8. providerActive[Provider[t]] = 0
    <2>1. ActiveOf(Provider[t], futures) = {}
      BY <1>1 DEF ActiveOf
    <2> QED
      BY <1>p, <1>3, <2>1, TasksAssumption, FS_EmptySet DEF Counters
  <1>9. ProviderLimit(Provider[t]) \in Nat \ {0}
    BY LimitsAssumption DEF ProviderLimit
  <1>10. Submittable(t)
    BY <1>1, <1>7, <1>8, <1>9, FS_EmptySet, LimitsAssumption DEF Submittable
  <1> QED
    BY <1>3, <1>10 DEF EndSubmit

\* Every action keeps the inductive invariant.
LEMMA InductiveNext == TypeOK /\ Inductive /\ [Next]_vars => Inductive'
  <1> SUFFICES ASSUME TypeOK, Inductive, [Next]_vars PROVE Inductive'
    OBVIOUS
  <1> USE DEF loopVars, mainVars, workerVars, clientVars, ghostVars, workerFrame,
              clientFrame
  <1>p. /\ Threads /\ Counters /\ Persisted /\ Ordered /\ Numbered /\ Handed
        /\ Statused /\ Marked /\ ProgressAlwaysMade
    BY DEF Inductive
  <1>s. /\ disk.attempts \in [Tasks -> Seq(Attempt)]
        /\ mem.attempts \in [Tasks -> Seq(Attempt)]
        /\ disk.tasks \in [Tasks -> TaskState]
        /\ mem.tasks \in [Tasks -> TaskState]
    BY DEF TypeOK, DocumentsTyped, StateDocument
  <1>t. DocumentsTyped /\ MainTyped /\ WorkersTyped /\ GhostsTyped
    BY DEF TypeOK
  <1>1. ASSUME ResumeWrite PROVE Inductive'
    <2>a. /\ mainPc = "loaded" /\ mainPc' = "acquire"
          /\ UNCHANGED <<mainVars, workerVars, launches, cancelEvent>>
      BY <1>1 DEF ResumeWrite
    <2>w. /\ disk' = mem' /\ mem'.status = mem.status
          /\ mem'.tasks = mem.tasks /\ mem'.attempts = mem.attempts
      BY <1>1, <1>t, ResumeWriteWrites
    <2>1. Ordered'
      <3>1. \A u \in Tasks : mem.tasks[u] \notin {"ready", "running"}
        BY <2>a, <1>p DEF Persisted, ResumedTask, TerminalSuccess
      <3>2. futures' = {}
        BY <2>a, <1>p DEF Threads
      <3> QED
        BY <2>w, <3>1, <3>2 DEF Ordered
    <2>2. Handed'
      BY <2>a, <2>w, <1>p, <1>s DEF Handed, HandedAt, Persisted
    <2>3. Statused'
      BY <2>a, <2>w, <1>p, <1>s DEF Statused, InLoop, Unfinished, Persisted,
         WorkflowStatus, TerminalWorkflowStates
    <2>4. /\ Threads' /\ Counters' /\ Persisted' /\ Numbered' /\ Marked'
          /\ ProgressAlwaysMade'
      BY <2>a, <2>w, <1>p, <1>s DEF Threads, Counters, Persisted, Numbered,
         NumberedAt, Attempting, AttemptNumber, Marked, Markable,
         ProgressAlwaysMade
    <2> QED
      BY <2>1, <2>2, <2>3, <2>4 DEF Inductive
  <1>2. ASSUME AcquireLease PROVE Inductive'
    <2>1. /\ Threads' /\ Counters' /\ Persisted' /\ Ordered' /\ Numbered'
          /\ Handed' /\ Statused' /\ Marked' /\ ProgressAlwaysMade'
      BY <1>2, <1>p DEF AcquireLease, Threads, Counters, Persisted, Ordered,
         Up, Numbered, NumberedAt, Attempting, AttemptNumber, Handed, HandedAt,
         Statused, InLoop, Unfinished, Marked, Markable, ProgressAlwaysMade
    <2> QED
      BY <2>1 DEF Inductive
  <1>3. ASSUME LeaseRefused PROVE Inductive'
    BY <1>3, InductiveProcessEnds DEF LeaseRefused
  <1>4. ASSUME Initialize PROVE Inductive'
    <2>a. /\ mainPc = "initialize" /\ mainPc' = "poll"
          /\ UNCHANGED <<mainVars, workerVars, launches, cancelEvent>>
      BY <1>4 DEF Initialize
    <2>w. /\ disk' = mem' /\ mem'.status = "running"
          /\ mem'.tasks = mem.tasks /\ mem'.attempts = mem.attempts
      BY <1>4, <1>t, InitializeWrites
    <2>1. Handed'
      BY <2>a, <2>w, <1>p, <1>s DEF Handed, HandedAt, Persisted
    <2>2. Statused'
      BY <2>a, <2>w, <1>p, <1>s DEF Statused, InLoop, Unfinished,
         TerminalWorkflowStates
    <2>3. /\ Threads' /\ Counters' /\ Persisted' /\ Ordered' /\ Numbered'
          /\ Marked' /\ ProgressAlwaysMade'
      BY <2>a, <2>w, <1>p, <1>s DEF Threads, Counters, Persisted, Ordered, Up,
         Numbered, NumberedAt, Attempting, AttemptNumber, Marked, Markable,
         ProgressAlwaysMade
    <2> QED
      BY <2>1, <2>2, <2>3 DEF Inductive
  <1>5. ASSUME Poll PROVE Inductive'
    <2>1. /\ Threads' /\ Counters' /\ Persisted' /\ Ordered' /\ Numbered'
          /\ Handed' /\ Statused' /\ Marked' /\ ProgressAlwaysMade'
      BY <1>5, <1>p DEF Poll, Threads, Counters, Persisted, Ordered, Up,
         Numbered, NumberedAt, Attempting, AttemptNumber, Handed, HandedAt,
         Statused, InLoop, Unfinished, Marked, Markable, ProgressAlwaysMade,
         RequestCancel
    <2> QED
      BY <2>1 DEF Inductive
  <1>6. ASSUME NEW t \in Tasks, MarkTask(t) PROVE Inductive'
    <2>a. /\ mainPc = "mark" /\ mem.tasks[t] \in {"pending", "ready"}
          /\ UNCHANGED <<disk, mainPc, mainVars, workerVars, launches,
                         cancelEvent>>
      BY <1>6 DEF MarkTask, Markable
    <2>w. /\ \A u \in Tasks \ {t} : mem'.tasks[u] = mem.tasks[u]
          /\ mem'.attempts = mem.attempts /\ mem'.status = mem.status
      BY <1>6, <1>t DEF MarkTask, DocumentsTyped, StateDocument
    <2>m. /\ mem'.tasks[t] \in {"ready", "blocked", "skipped"}
          /\ mem'.tasks[t] = "ready" =>
               \A d \in DependsOn[t] : mem.tasks[d] \in TerminalSuccess
      BY <1>6, <1>s, <1>t DEF MarkTask, Markable, MarkedState, DocumentsTyped,
         StateDocument
    <2>1. Persisted'
      <3>1. mainPc # "loaded" /\ mainPc' # "loaded"
        BY <2>a
      <3>2. disk.tasks[t] \in {"pending", "ready"}
        BY <2>a, <3>1, <1>p DEF Persisted
      <3> QED
        BY <2>a, <2>w, <2>m, <3>1, <3>2, <1>p DEF Persisted
    <2>2. Ordered'
      <3>1. \A u \in Tasks : mem.tasks[u] \in TerminalSuccess =>
                            mem'.tasks[u] = mem.tasks[u]
        BY <2>a, <2>w DEF TerminalSuccess
      <3>2. /\ mem'.tasks[t] \notin TerminalSuccess
            /\ mem'.tasks[t] # "running"
        BY <2>m DEF TerminalSuccess
      <3>3. mainPc # "release" /\ UNCHANGED <<mainPc, futures>> /\ Up
        BY <2>a DEF Up
      <3>4. \A u \in Tasks :
              mem'.tasks[u] \in {"ready", "running"} \/ u \in futures =>
                \A d \in DependsOn[u] : mem'.tasks[d] \in TerminalSuccess
        BY <1>p, <2>w, <2>m, <3>1, <3>2, <3>3, TasksAssumption DEF Ordered
      <3>5. \A u \in futures' : mem'.tasks[u] \notin TerminalSuccess
        BY <1>p, <1>t, <2>w, <3>2, <3>3 DEF Ordered, MainTyped
      <3>6. \A u \in Tasks : mem'.tasks[u] = "running" => u \in futures'
        BY <1>p, <2>w, <3>2, <3>3 DEF Ordered
      <3> QED
        BY <3>3, <3>4, <3>5, <3>6 DEF Ordered
    <2>3. /\ Threads' /\ Counters' /\ Numbered' /\ Handed' /\ Statused'
          /\ Marked' /\ ProgressAlwaysMade'
      BY <2>a, <2>w, <2>m, <1>p, <1>s DEF Threads, Counters, Numbered,
         NumberedAt, Attempting, AttemptNumber, Handed, HandedAt, Statused,
         InLoop, Unfinished, Marked, Markable, ProgressAlwaysMade
    <2> QED
      BY <2>1, <2>2, <2>3 DEF Inductive
  <1>7. ASSUME EndMark PROVE Inductive'
    <2>1. /\ Threads' /\ Counters' /\ Persisted' /\ Ordered' /\ Numbered'
          /\ Handed' /\ Statused' /\ Marked' /\ ProgressAlwaysMade'
      BY <1>7, <1>p DEF EndMark, Threads, Counters, Persisted, Ordered, Up,
         Numbered, NumberedAt, Attempting, AttemptNumber, Handed, HandedAt,
         Statused, InLoop, Unfinished, Marked, Markable, ProgressAlwaysMade
    <2> QED
      BY <2>1 DEF Inductive
  <1>8. ASSUME NEW t \in Tasks, Submit(t) PROVE Inductive'
    <2>a. /\ mainPc = "submit" /\ mem.tasks[t] = "ready" /\ t \notin futures
          /\ Cardinality(futures) < MaxConcurrency
          /\ providerActive[Provider[t]] < ProviderLimit(Provider[t])
      BY <1>8 DEF Submit, Submittable
    <2>w. /\ futures' = futures \cup {t}
          /\ providerActive' = [providerActive EXCEPT ![Provider[t]] = @ + 1]
          /\ workerPc' = [workerPc EXCEPT ![t] = "queued"]
          /\ UNCHANGED <<disk, mem, mainPc, completed, failureTriggered,
                         firstAttempt, attemptInRun, result, launches,
                         cancelEvent>>
      BY <1>8 DEF Submit
    <2>1. Threads'
      BY <2>a, <2>w, <1>p, <1>t DEF Threads, WorkersTyped
    <2>2. Counters'
      <3>1. IsFiniteSet(futures)
        BY <1>t, TasksAssumption, FS_Subset DEF MainTyped
      <3>2. Cardinality(futures') <= MaxConcurrency
        <4>1. Cardinality(futures') = Cardinality(futures) + 1
          BY <3>1, <2>a, <2>w, FS_AddElement
        <4>2. Cardinality(futures) \in Nat
          BY <3>1, FS_CardinalityType
        <4> QED
          BY <4>1, <4>2, <2>a, LimitsAssumption
      <3>3. ASSUME NEW r \in Providers
            PROVE  /\ providerActive'[r] = Cardinality(ActiveOf(r, futures'))
                   /\ providerActive'[r] <= ProviderLimit(r)
        <4>1. CASE r = Provider[t]
          <5>1. ActiveOf(r, futures') = ActiveOf(r, futures) \cup {t}
            BY <4>1, <2>w DEF ActiveOf
          <5>2. t \notin ActiveOf(r, futures) /\ IsFiniteSet(ActiveOf(r, futures))
            BY <3>1, <2>a, FS_Subset DEF ActiveOf
          <5>3. Cardinality(ActiveOf(r, futures')) = providerActive[r] + 1
            BY <5>1, <5>2, <1>p, FS_AddElement DEF Counters
          <5>4. providerActive'[r] = providerActive[r] + 1
            BY <4>1, <2>w, <1>t DEF MainTyped
          <5>5. ProviderLimit(r) \in Nat
            BY LimitsAssumption DEF ProviderLimit
          <5> QED
            BY <4>1, <5>3, <5>4, <5>5, <2>a, <1>t DEF MainTyped
        <4>2. CASE r # Provider[t]
          <5>1. ActiveOf(r, futures') = ActiveOf(r, futures)
            BY <4>2, <2>w DEF ActiveOf
          <5>2. providerActive'[r] = providerActive[r]
            BY <4>2, <2>w, <1>t DEF MainTyped
          <5> QED
            BY <5>1, <5>2, <1>p DEF Counters
        <4> QED
          BY <4>1, <4>2
      <3> QED
        BY <3>2, <3>3 DEF Counters
    <2>3. Ordered'
      BY <2>a, <2>w, <1>p, <1>t DEF Ordered, Up, TerminalStates,
         TerminalSuccess, TerminalFailure, RunFailure
    <2>4. Numbered'
      BY <2>a, <2>w, <1>p, <1>t DEF Numbered, NumberedAt, Attempting,
         AttemptNumber, WorkersTyped, Threads
    <2>5. /\ Persisted' /\ Handed' /\ Statused' /\ Marked'
          /\ ProgressAlwaysMade'
      BY <2>a, <2>w, <1>p, <1>t DEF Persisted, Handed, HandedAt, Statused,
         InLoop, Unfinished, Marked, Markable, ProgressAlwaysMade
    <2> QED
      BY <2>1, <2>2, <2>3, <2>4, <2>5 DEF Inductive
  <1>9. ASSUME EndSubmit PROVE Inductive'
    <2>1. ProgressAlwaysMade'
      BY <1>9, <1>p, <1>t, EndSubmitProgresses DEF Inductive
    <2>2. /\ Threads' /\ Counters' /\ Persisted' /\ Ordered' /\ Numbered'
          /\ Handed' /\ Statused' /\ Marked'
      BY <1>9, <1>p DEF EndSubmit, Threads, Counters, Persisted, Ordered, Up,
         Numbered, NumberedAt, Attempting, AttemptNumber, Handed, HandedAt,
         Statused, InLoop, Unfinished, Marked, Markable, AfterSubmit
    <2> QED
      BY <2>1, <2>2 DEF Inductive
  <1>10. ASSUME Wait PROVE Inductive'
    <2>1. /\ Threads' /\ Counters' /\ Persisted' /\ Ordered' /\ Numbered'
          /\ Handed' /\ Statused' /\ Marked' /\ ProgressAlwaysMade'
      BY <1>10, <1>p DEF Wait, Threads, Counters, Persisted, Ordered, Up,
         Numbered, NumberedAt, Attempting, AttemptNumber, Handed, HandedAt,
         Statused, InLoop, Unfinished, Marked, Markable, ProgressAlwaysMade
    <2> QED
      BY <2>1 DEF Inductive
  <1>11. ASSUME NEW t \in Tasks, Collect(t) PROVE Inductive'
    <2>a. /\ mainPc = "collect" /\ t \in completed
          /\ completed' = completed \ {t} /\ futures' = futures \ {t}
          /\ providerActive' = [providerActive EXCEPT ![Provider[t]] = @ - 1]
          /\ workerPc' = [workerPc EXCEPT ![t] = "idle"]
          /\ attemptInRun' = [attemptInRun EXCEPT ![t] = 0]
          /\ firstAttempt' = [firstAttempt EXCEPT ![t] = 0]
          /\ result' = [result EXCEPT ![t] = "failed"]
          /\ UNCHANGED <<mainPc, cancelEvent, launches>>
      BY <1>11 DEF Collect, Leave
    <2>d. workerPc[t] = "done" /\ t \in futures
      BY <1>11, <2>a, <1>p DEF Threads
    <2>w. /\ disk' = mem' /\ mem'.status = mem.status
          /\ mem'.attempts = mem.attempts
          /\ mem'.tasks = [mem.tasks EXCEPT ![t] = result[t]]
      BY <1>11, <1>t, CollectWrites
    <2>r. result[t] \in TerminalSuccess \cup RunFailure
      BY <1>11, <1>t DEF WorkersTyped
    <2>1. Threads'
      BY <2>a, <2>d, <2>w, <2>r, <1>p, <1>t, <1>s DEF Threads, WorkersTyped
    <2>2. Counters'
      <3>1. IsFiniteSet(futures)
        BY <1>t, TasksAssumption, FS_Subset DEF MainTyped
      <3>2. Cardinality(futures') <= MaxConcurrency
        BY <3>1, <2>a, <1>p, FS_Subset, FS_CardinalityType, LimitsAssumption
           DEF Counters
      <3>3. ASSUME NEW r \in Providers
            PROVE  /\ providerActive'[r] = Cardinality(ActiveOf(r, futures'))
                   /\ providerActive'[r] <= ProviderLimit(r)
        <4>1. CASE r = Provider[t]
          <5>1. ActiveOf(r, futures') = ActiveOf(r, futures) \ {t}
            BY <4>1, <2>a DEF ActiveOf
          <5>2. t \in ActiveOf(r, futures) /\ IsFiniteSet(ActiveOf(r, futures))
            BY <3>1, <4>1, <2>d, FS_Subset DEF ActiveOf
          <5>3. Cardinality(ActiveOf(r, futures')) = providerActive[r] - 1
            BY <5>1, <5>2, <1>p, FS_RemoveElement DEF Counters
          <5>4. providerActive'[r] = providerActive[r] - 1
            BY <4>1, <2>a, <1>t DEF MainTyped
          <5>5. ProviderLimit(r) \in Nat
            BY LimitsAssumption DEF ProviderLimit
          <5> QED
            BY <5>3, <5>4, <5>5, <1>p, <1>t DEF MainTyped, Counters
        <4>2. CASE r # Provider[t]
          <5>1. ActiveOf(r, futures') = ActiveOf(r, futures)
            BY <4>2, <2>a DEF ActiveOf
          <5>2. providerActive'[r] = providerActive[r]
            BY <4>2, <2>a, <1>t DEF MainTyped
          <5> QED
            BY <5>1, <5>2, <1>p DEF Counters
        <4> QED
          BY <4>1, <4>2
      <3> QED
        BY <3>2, <3>3 DEF Counters
    <2>3. Ordered'
      BY <2>a, <2>d, <2>w, <2>r, <1>p, <1>t, <1>s, TasksAssumption DEF Ordered,
         Up, TerminalStates, TerminalSuccess, TerminalFailure, RunFailure
    <2>4. Numbered'
      BY <2>a, <2>d, <2>w, <2>r, <1>p, <1>t, <1>s DEF Numbered, NumberedAt,
         Attempting, AttemptNumber, WorkersTyped
    <2>5. Handed'
      BY <2>a, <2>d, <2>w, <2>r, <1>p, <1>t, <1>s DEF Handed, HandedAt,
         Persisted, WorkersTyped
    <2>6. Statused'
      BY <2>a, <2>d, <2>w, <2>r, <1>p, <1>t, <1>s DEF Statused, InLoop,
         Unfinished, TerminalWorkflowStates
    <2>7. Persisted' /\ Marked' /\ ProgressAlwaysMade'
      BY <2>a, <2>d, <2>w, <2>r, <1>p, <1>t, <1>s DEF Persisted, Marked,
         Markable, ProgressAlwaysMade
    <2> QED
      BY <2>1, <2>2, <2>3, <2>4, <2>5, <2>6, <2>7 DEF Inductive
  <1>12. ASSUME EndCollect PROVE Inductive'
    <2>1. /\ Threads' /\ Counters' /\ Persisted' /\ Ordered' /\ Numbered'
          /\ Handed' /\ Statused' /\ Marked' /\ ProgressAlwaysMade'
      BY <1>12, <1>p DEF EndCollect, Threads, Counters, Persisted, Ordered, Up,
         Numbered, NumberedAt, Attempting, AttemptNumber, Handed, HandedAt,
         Statused, InLoop, Unfinished, Marked, Markable, ProgressAlwaysMade
    <2> QED
      BY <2>1 DEF Inductive
  <1>13. ASSUME Finalize PROVE Inductive'
    <2>a. /\ mainPc = "finalize" /\ mainPc' = "release"
          /\ UNCHANGED <<mainVars, workerVars, launches, cancelEvent>>
      BY <1>13 DEF Finalize
    <2>w. /\ disk' = mem' /\ mem'.status = FinalStatus
          /\ mem'.attempts = mem.attempts /\ mem'.tasks = FinalTasks
      BY <1>13, <1>t, FinalizeWrites
    <2>i. futures = {} /\ \A t \in Tasks : workerPc[t] = "idle"
      BY <1>13, <2>a, <1>p DEF Threads
    <2>f. \A t \in Tasks :
            /\ FinalTasks[t] \in TerminalStates
            /\ mem.tasks[t] \in TerminalStates => FinalTasks[t] = mem.tasks[t]
      BY <1>13, <2>a, <1>p DEF FinalTasks, Statused, Unfinished,
         TerminalStates, TerminalSuccess, TerminalFailure, RunFailure
    <2>1. Ordered'
      BY <2>a, <2>w, <2>i, <2>f, <1>p, <1>t, <1>s, TasksAssumption DEF Ordered,
         Up, TerminalStates, TerminalSuccess, TerminalFailure, RunFailure
    <2>2. Numbered'
      BY <2>a, <2>w, <2>i, <2>f, <1>p, <1>t, <1>s DEF Numbered, NumberedAt,
         Attempting, AttemptNumber
    <2>3. Handed'
      BY <2>a, <2>w, <2>i, <2>f, <1>p, <1>t, <1>s DEF Handed, HandedAt,
         Persisted
    <2>4. Statused'
      BY <2>a, <2>w, <2>i, <2>f, <1>p, <1>t, <1>s DEF Statused, InLoop,
         Unfinished, FinalStatus, TerminalStates, TerminalSuccess,
         TerminalFailure, RunFailure
    <2>5. /\ Threads' /\ Counters' /\ Persisted' /\ Marked'
          /\ ProgressAlwaysMade'
      BY <2>a, <2>w, <2>i, <2>f, <1>p, <1>t, <1>s DEF Threads, Counters,
         Persisted, Marked, Markable, ProgressAlwaysMade
    <2> QED
      BY <2>1, <2>2, <2>3, <2>4, <2>5 DEF Inductive
  <1>14. ASSUME ReleaseLease PROVE Inductive'
    BY <1>14, InductiveProcessEnds DEF ReleaseLease
  <1>15. ASSUME ResumeLoad PROVE Inductive'
    <2>a. /\ mainPc = "down" /\ mainPc' = "loaded"
          /\ UNCHANGED <<disk, mainVars, workerVars, launches, cancelEvent>>
      BY <1>15 DEF ResumeLoad
    <2>w. /\ mem'.status = "created" /\ mem'.attempts = disk.attempts
          /\ mem'.tasks = [t \in Tasks |-> ResumedTask(disk.tasks[t])]
      BY <1>15, <1>t DEF ResumeLoad, ResumedState, DocumentsTyped,
         StateDocument
    <2>i. \A t \in Tasks : workerPc[t] = "idle" /\ disk.attempts[t] = mem.attempts[t]
      BY <1>15, <2>a, <1>p DEF Threads, Persisted
    <2>1. /\ Threads' /\ Counters' /\ Persisted' /\ Ordered' /\ Numbered'
          /\ Handed' /\ Statused' /\ Marked' /\ ProgressAlwaysMade'
      BY <2>a, <2>w, <2>i, <1>p, <1>s DEF Threads, Counters, Persisted,
         Ordered, Up, Numbered, NumberedAt, Attempting, AttemptNumber, Handed,
         HandedAt, Statused, InLoop, Unfinished, Marked, Markable,
         ProgressAlwaysMade
    <2> QED
      BY <2>1 DEF Inductive
  <1>16. ASSUME NEW t \in Tasks, BeginTask(t) PROVE Inductive'
    <2>1. Threads'
      BY <1>16, <1>p, <1>t DEF BeginTask, Threads, Go, LockFree, WorkersTyped
    <2>2. Numbered'
      <3>1. \A u \in Tasks \ {t} : NumberedAt(u)'
        BY <1>16, <1>p, <1>t DEF BeginTask, Go, Numbered, NumberedAt, Attempting,
           AttemptNumber, WorkersTyped
      <3>2. NumberedAt(t)'
        <4>1. /\ workerPc[t] = "queued" /\ workerPc'[t] = "starting"
              /\ firstAttempt'[t] = Len(mem.attempts[t]) + 1
              /\ UNCHANGED <<mem, attemptInRun>>
          BY <1>16, <1>t DEF BeginTask, Go, WorkersTyped
        <4>2. attemptInRun[t] = 0 /\ NumberedAt(t)
          BY <4>1, <1>p DEF Numbered, NumberedAt
        <4>3. Len(mem.attempts[t]) \in Nat
          BY <1>s, LenProperties
        <4> QED
          BY <4>1, <4>2, <4>3 DEF NumberedAt, Attempting
      <3> QED
        BY <3>1, <3>2 DEF Numbered
    <2>3. Handed'
      BY <1>16, <1>p, <1>t DEF BeginTask, Handed, HandedAt, Go, LockFree,
         WorkersTyped
    <2>4. Marked'
      BY <1>16, <1>p, <1>t DEF BeginTask, Marked, Markable, Go, LockFree,
         WorkersTyped
    <2>5. /\ Counters' /\ Persisted' /\ Ordered' /\ Statused'
          /\ ProgressAlwaysMade'
      BY <1>16, <1>p, <1>t DEF BeginTask, Counters, Persisted, Ordered, Up,
         Statused, InLoop, Unfinished, ProgressAlwaysMade, Go, LockFree,
         WorkersTyped
    <2> QED
      BY <2>1, <2>2, <2>3, <2>4, <2>5 DEF Inductive
  <1>17. ASSUME NEW t \in Tasks, PromptFails(t) PROVE Inductive'
    <2>1. Numbered'
      BY <1>17, <1>p, <1>t, <1>s DEF PromptFails, Numbered, NumberedAt,
         Attempting, AttemptNumber, Return, Go, LockFree, WorkersTyped,
         TerminalStates, TerminalSuccess, TerminalFailure, RunFailure
    <2>2. /\ Threads' /\ Counters' /\ Persisted' /\ Ordered' /\ Handed'
          /\ Statused' /\ Marked' /\ ProgressAlwaysMade'
      BY <1>17, <1>p, <1>t, <1>s DEF PromptFails, Threads, Counters, Persisted,
         Ordered, Up, Handed, HandedAt, Statused, InLoop, Unfinished, Marked,
         Markable, ProgressAlwaysMade, Return, Go, LockFree, WorkersTyped
    <2> QED
      BY <2>1, <2>2 DEF Inductive
  <1>18. ASSUME NEW t \in Tasks, StartAttempt(t) PROVE Inductive'
    <2>a. /\ workerPc[t] = "starting" /\ mainPc # "mark"
          /\ workerPc' = [workerPc EXCEPT ![t] = "started"]
          /\ attemptInRun' = [attemptInRun EXCEPT ![t] = @ + 1]
          /\ UNCHANGED <<mainPc, mainVars, cancelEvent, firstAttempt, result,
                         launches>>
      BY <1>18 DEF StartAttempt, Go, LockFree
    <2>n. firstAttempt[t] + attemptInRun[t] = Len(mem.attempts[t]) + 1
      BY <1>18, <2>a, <1>p DEF Numbered, NumberedAt
    <2>w. /\ disk' = mem' /\ mem'.status = mem.status
          /\ mem'.tasks = [mem.tasks EXCEPT ![t] = "running"]
          /\ mem'.attempts =
               [mem.attempts EXCEPT
                  ![t] = Append(@, [number |-> firstAttempt[t] + attemptInRun[t],
                                    status |-> "running"])]
      BY <1>18, <1>t, StartAttemptWrites
    <2>o. \A u \in Tasks \ {t} : mem'.attempts[u] = mem.attempts[u]
      BY <1>18, <1>s, <2>w
    <2>l. Len(mem.attempts[t]) \in Nat /\ mem.attempts[t] \in Seq(Attempt)
      BY <1>18, <1>s, LenProperties
    <2>h. LET n == Len(mem.attempts[t])
          IN  /\ Len(mem'.attempts[t]) = n + 1
              /\ mem'.attempts[t][n + 1] = [number |-> n + 1, status |-> "running"]
              /\ \A i \in 1..n : mem'.attempts[t][i] = mem.attempts[t][i]
      BY <1>18, <1>s, <2>w, <2>n, <2>l, AppendAttempt DEF Attempt
    <2>f. t \in futures /\ mainPc \in InLoop \ {"mark", "finalize"}
      BY <1>18, <2>a, <1>p, <1>t DEF Threads, MainTyped, MainPc, Handling,
         InLoop
    <2>g. mem.tasks[t] \notin TerminalSuccess /\ mem.status = "running"
      BY <1>18, <2>f, <1>p DEF Ordered, Up, Statused, InLoop
    <2>1. Threads'
      BY <2>a, <2>n, <2>w, <2>o, <2>l, <2>h, <2>f, <2>g, <1>p, <1>t, <1>s DEF
         Threads, WorkersTyped
    <2>2. Persisted'
      BY <2>a, <2>n, <2>w, <2>o, <2>l, <2>h, <2>f, <2>g, <1>p, <1>t, <1>s DEF
         Persisted
    <2>3. Ordered'
      BY <2>a, <2>n, <2>w, <2>o, <2>l, <2>h, <2>f, <2>g, <1>p, <1>t, <1>s,
         TasksAssumption DEF Ordered, Up, TerminalStates, TerminalSuccess,
         TerminalFailure, RunFailure
    <2>4. Numbered'
      <3>1. \A u \in Tasks \ {t} : NumberedAt(u)'
        BY <2>a, <2>w, <2>o, <1>p, <1>t, <1>s DEF Numbered, NumberedAt,
           Attempting, AttemptNumber, WorkersTyped
      <3>2. NumberedAt(t)'
        <4>1. workerPc'[t] = "started" /\ attemptInRun'[t] = attemptInRun[t] + 1
              /\ mem'.tasks[t] = "running" /\ firstAttempt' = firstAttempt
          BY <2>a, <2>w, <1>s, <1>t DEF WorkersTyped
        <4>2. attemptInRun[t] \in Nat /\ firstAttempt[t] \in Nat
          BY <1>t DEF WorkersTyped
        <4>3. \A i \in 1..Len(mem.attempts[t]) : mem.attempts[t][i].number = i
          BY <1>p DEF Numbered, NumberedAt
        <4>4. \A i \in 1..Len(mem'.attempts[t]) : mem'.attempts[t][i].number = i
          <5> DEFINE n == Len(mem.attempts[t])
          <5> SUFFICES ASSUME NEW i \in 1..n + 1
                       PROVE  mem'.attempts[t][i].number = i
            BY <2>h
          <5>1. CASE i = n + 1
            BY <5>1, <2>h
          <5>2. CASE i # n + 1
            <6>1. i \in 1..n
              BY <5>2, <2>l
            <6> QED
              BY <6>1, <4>3, <2>h
          <5> QED
            BY <5>1, <5>2
        <4>5. AttemptNumber(t)' = Len(mem'.attempts[t])
          BY <4>1, <4>2, <2>n, <2>l, <2>h DEF AttemptNumber
        <4>6. Len(mem'.attempts[t]) > 0 /\ attemptInRun'[t] > 0
          BY <4>1, <4>2, <2>l, <2>h
        <4>7. mem'.attempts[t][Len(mem'.attempts[t])].status = "running"
          BY <2>h
        <4> QED
          BY <4>1, <4>4, <4>5, <4>6, <4>7 DEF NumberedAt, Attempting
      <3> QED
        BY <3>1, <3>2 DEF Numbered
    <2>5. Handed'
      <3>1. \A u \in Tasks : disk.attempts[u] = mem.attempts[u]
        BY <2>f, <1>p DEF Persisted, InLoop
      <3>2. \A u \in Tasks \ {t} : HandedAt(u)'
        BY <2>a, <2>w, <2>o, <3>1, <1>p, <1>t DEF Handed, HandedAt, WorkersTyped
      <3>3. launches[t] \in Seq(Int)
        BY <1>t DEF GhostsTyped
      <3>4. \A i \in 1..Len(launches[t]) : launches[t][i] \in Int
        BY <3>3, ElementOfSeq
      <3>5. HandedAt(t)'
        BY SMTT(60), <2>a, <2>w, <2>l, <2>h, <3>1, <3>4, <1>p DEF Handed, HandedAt
      <3> QED
        BY <3>2, <3>5 DEF Handed
    <2>6. Statused'
      BY <2>a, <2>n, <2>w, <2>o, <2>l, <2>h, <2>f, <2>g, <1>p, <1>t, <1>s DEF
         Statused, InLoop, Unfinished, TerminalWorkflowStates
    <2>7. Marked'
      BY <2>a, <2>n, <2>w, <2>o, <2>l, <2>h, <2>f, <2>g, <1>p, <1>t, <1>s,
         TasksAssumption DEF Marked, Markable, MarkedState, TerminalStates,
         TerminalSuccess, TerminalFailure, RunFailure
    <2>8. Counters' /\ ProgressAlwaysMade'
      BY <2>a, <2>n, <2>w, <2>o, <2>l, <2>h, <2>f, <2>g, <1>p, <1>t, <1>s DEF
         Counters, ProgressAlwaysMade
    <2> QED
      BY <2>1, <2>2, <2>3, <2>4, <2>5, <2>6, <2>7, <2>8 DEF Inductive
  <1>19. ASSUME NEW t \in Tasks, CheckCancel(t) PROVE Inductive'
    <2>1. Threads'
      <3>1. /\ workerPc[t] = "started"
            /\ \E to \in {"returned", "launching"} :
                 workerPc' = [workerPc EXCEPT ![t] = to]
            /\ UNCHANGED <<mainPc, futures, completed>>
        BY <1>19 DEF CheckCancel, Go
      <3> QED
        BY <3>1, <1>p, <1>t DEF Threads, WorkersTyped
    <2>2. /\ Counters' /\ Persisted' /\ Ordered' /\ Numbered' /\ Handed'
          /\ Statused' /\ Marked' /\ ProgressAlwaysMade'
      BY <1>19, <1>p, <1>t DEF CheckCancel, Counters, Persisted, Ordered, Up,
         Numbered, NumberedAt, Attempting, AttemptNumber, Handed, HandedAt,
         Statused, InLoop, Unfinished, Marked, Markable, ProgressAlwaysMade, Go,
         LockFree, WorkersTyped
    <2> QED
      BY <2>1, <2>2 DEF Inductive
  <1>20. ASSUME NEW t \in Tasks, Launch(t) PROVE Inductive'
    <2>1. Handed'
      <3>1. /\ workerPc[t] = "launching" /\ workerPc' = [workerPc EXCEPT ![t] = "running"]
            /\ launches' = [launches EXCEPT ![t] = Append(@, AttemptNumber(t))]
            /\ UNCHANGED disk
        BY <1>20 DEF Launch, Go, HandOver
      <3>2. \A u \in Tasks : disk.attempts[u] = mem.attempts[u]
        BY <1>p, <3>1 DEF Threads, Persisted
      <3>3. AttemptNumber(t) = Len(disk.attempts[t]) /\ AttemptNumber(t) \in Int
        <4>1. AttemptNumber(t) = Len(mem.attempts[t])
          BY <1>p, <3>1 DEF Numbered, NumberedAt, Attempting
        <4>2. AttemptNumber(t) \in Int
          BY <1>t DEF AttemptNumber, WorkersTyped
        <4> QED
          BY <3>2, <4>1, <4>2
      <3> QED
        BY <1>p, <1>t, <3>1, <3>3, HandOverKeepsOrder
    <2>2. /\ Threads' /\ Counters' /\ Persisted' /\ Ordered' /\ Numbered'
          /\ Statused' /\ Marked' /\ ProgressAlwaysMade'
      BY <1>20, <1>p, <1>t DEF Launch, Threads, Counters, Persisted, Ordered,
         Up, Numbered, NumberedAt, Attempting, AttemptNumber, Statused, InLoop,
         Unfinished, Marked, Markable, ProgressAlwaysMade, HandOver, Go, LockFree,
         WorkersTyped
    <2> QED
      BY <2>1, <2>2 DEF Inductive
  <1>21. ASSUME NEW t \in Tasks, LaunchFails(t) PROVE Inductive'
    <2>1. Handed'
      <3>1. /\ workerPc[t] = "launching" /\ workerPc' = [workerPc EXCEPT ![t] = "returned"]
            /\ launches' = [launches EXCEPT ![t] = Append(@, AttemptNumber(t))]
            /\ UNCHANGED disk
        BY <1>21 DEF LaunchFails, Go, HandOver
      <3>2. \A u \in Tasks : disk.attempts[u] = mem.attempts[u]
        BY <1>p, <3>1 DEF Threads, Persisted
      <3>3. AttemptNumber(t) = Len(disk.attempts[t]) /\ AttemptNumber(t) \in Int
        <4>1. AttemptNumber(t) = Len(mem.attempts[t])
          BY <1>p, <3>1 DEF Numbered, NumberedAt, Attempting
        <4>2. AttemptNumber(t) \in Int
          BY <1>t DEF AttemptNumber, WorkersTyped
        <4> QED
          BY <3>2, <4>1, <4>2
      <3> QED
        BY <1>p, <1>t, <3>1, <3>3, HandOverKeepsOrder
    <2>2. /\ Threads' /\ Counters' /\ Persisted' /\ Ordered' /\ Numbered'
          /\ Statused' /\ Marked' /\ ProgressAlwaysMade'
      BY <1>21, <1>p, <1>t DEF LaunchFails, Threads, Counters, Persisted,
         Ordered, Up, Numbered, NumberedAt, Attempting, AttemptNumber, Statused,
         InLoop, Unfinished, Marked, Markable, ProgressAlwaysMade, HandOver, Go,
         LockFree, WorkersTyped
    <2> QED
      BY <2>1, <2>2 DEF Inductive
  <1>22. ASSUME NEW t \in Tasks, RunnerRaises(t) PROVE Inductive'
    <2>1. Handed'
      <3>1. /\ workerPc[t] = "launching" /\ workerPc' = [workerPc EXCEPT ![t] = "done"]
            /\ launches' = [launches EXCEPT ![t] = Append(@, AttemptNumber(t))]
            /\ UNCHANGED disk
        BY <1>22 DEF RunnerRaises, Return, Go, HandOver
      <3>2. \A u \in Tasks : disk.attempts[u] = mem.attempts[u]
        BY <1>p, <3>1 DEF Threads, Persisted
      <3>3. AttemptNumber(t) = Len(disk.attempts[t]) /\ AttemptNumber(t) \in Int
        <4>1. AttemptNumber(t) = Len(mem.attempts[t])
          BY <1>p, <3>1 DEF Numbered, NumberedAt, Attempting
        <4>2. AttemptNumber(t) \in Int
          BY <1>t DEF AttemptNumber, WorkersTyped
        <4> QED
          BY <3>2, <4>1, <4>2
      <3> QED
        BY <1>p, <1>t, <3>1, <3>3, HandOverKeepsOrder
    <2>2. /\ Threads' /\ Counters' /\ Persisted' /\ Ordered' /\ Numbered'
          /\ Statused' /\ Marked' /\ ProgressAlwaysMade'
      BY <1>22, <1>p, <1>t DEF RunnerRaises, Threads, Counters, Persisted,
         Ordered, Up, Numbered, NumberedAt, Attempting, AttemptNumber, Statused,
         InLoop, Unfinished, Marked, Markable, ProgressAlwaysMade, Return,
         HandOver, Go, LockFree, WorkersTyped
    <2> QED
      BY <2>1, <2>2 DEF Inductive
  <1>23. ASSUME NEW t \in Tasks, ShimExits(t) PROVE Inductive'
    <2>1. /\ Threads' /\ Counters' /\ Persisted' /\ Ordered' /\ Numbered'
          /\ Handed' /\ Statused' /\ Marked' /\ ProgressAlwaysMade'
      BY <1>23, <1>p, <1>t DEF ShimExits, Threads, Counters, Persisted,
         Ordered, Up, Numbered, NumberedAt, Attempting, AttemptNumber, Handed,
         HandedAt, Statused, InLoop, Unfinished, Marked, Markable,
         ProgressAlwaysMade, Go, LockFree, WorkersTyped
    <2> QED
      BY <2>1 DEF Inductive
  <1>24. ASSUME NEW t \in Tasks, FinishAttempt(t) PROVE Inductive'
    <2>a. /\ workerPc[t] = "returned" /\ mainPc # "mark"
          /\ \E to \in {"done", "verifying", "backoff"} :
               workerPc' = [workerPc EXCEPT ![t] = to]
          /\ UNCHANGED <<mainPc, mainVars, cancelEvent, firstAttempt,
                         attemptInRun, launches>>
      BY <1>24 DEF FinishAttempt, Return, Go, LockFree
    <2>r. \A u \in Tasks \ {t} : result'[u] = result[u]
      BY <1>24, <1>t DEF FinishAttempt, Return, WorkersTyped
    <2>w. /\ disk' = mem' /\ mem'.status = mem.status /\ mem'.tasks = mem.tasks
          /\ \A u \in Tasks \ {t} : mem'.attempts[u] = mem.attempts[u]
          /\ mem'.attempts[t] =
               [mem.attempts[t] EXCEPT
                  ![Len(mem.attempts[t])].status = outcome[t].status]
      BY <1>24, <1>t, <1>s, FinishAttemptWrites
    <2>l. Len(mem.attempts[t]) \in Nat /\ mem.attempts[t] \in Seq(Attempt)
      BY <1>24, <1>s, LenProperties
    <2>v. outcome[t].status \in DispatchStatus
      BY <1>24, <1>t DEF WorkersTyped, AttemptOutcome
    <2>e. \A i \in 1..Len(mem.attempts[t]) : mem.attempts[t][i] \in Attempt
      BY <1>24, <2>l, ElementOfSeq
    <2>h. /\ Len(mem'.attempts[t]) = Len(mem.attempts[t])
          /\ \A i \in 1..Len(mem.attempts[t]) :
               mem'.attempts[t][i].number = mem.attempts[t][i].number
      BY <1>24, <2>w, <2>l, <2>v, <2>e, SetStatus DEF Attempt
    <2>f. t \in futures /\ mainPc \in InLoop \ {"mark", "finalize"}
      BY <1>24, <2>a, <1>p, <1>t DEF Threads, MainTyped, MainPc, Handling,
         InLoop
    <2>g. mem.status = "running"
      BY <1>24, <2>f, <1>p DEF Statused, InLoop
    <2>1. Threads'
      BY <2>a, <2>r, <2>w, <2>l, <2>v, <2>e, <2>h, <2>f, <2>g, <1>p, <1>t, <1>s
         DEF Threads, WorkersTyped
    <2>2. Numbered'
      <3>1. \A u \in Tasks \ {t} : NumberedAt(u)'
        BY <2>a, <2>w, <2>r, <1>p, <1>t DEF Numbered, NumberedAt,
           Attempting, AttemptNumber, WorkersTyped
      <3>2. NumberedAt(t)'
        <4>1. workerPc'[t] \in {"done", "verifying", "backoff"}
          BY <2>a, <1>t DEF WorkersTyped
        <4>2. NumberedAt(t)
          BY <1>p DEF Numbered
        <4>3. /\ AttemptNumber(t) = Len(mem.attempts[t])
              /\ Len(mem.attempts[t]) > 0 /\ attemptInRun[t] > 0
          BY <4>2, <2>a DEF NumberedAt, Attempting
        <4>4. UNCHANGED <<attemptInRun, AttemptNumber(t)>>
          BY <2>a DEF AttemptNumber
        <4>5. attemptInRun[t] \in Nat
          BY <1>t DEF WorkersTyped
        <4> QED
          BY <4>1, <4>2, <4>3, <4>4, <4>5, <2>h DEF NumberedAt, Attempting
      <3> QED
        BY <3>1, <3>2 DEF Numbered
    <2>3. Handed'
      BY <2>a, <2>r, <2>w, <2>l, <2>v, <2>e, <2>h, <2>f, <2>g, <1>p, <1>t, <1>s
         DEF Handed, HandedAt, Persisted, WorkersTyped
    <2>4. Statused'
      BY <2>a, <2>r, <2>w, <2>l, <2>v, <2>e, <2>h, <2>f, <2>g, <1>p, <1>t, <1>s
         DEF Statused, InLoop, Unfinished, TerminalWorkflowStates
    <2>5. /\ Counters' /\ Persisted' /\ Ordered' /\ Marked'
          /\ ProgressAlwaysMade'
      BY <2>a, <2>r, <2>w, <2>l, <2>v, <2>e, <2>h, <2>f, <2>g, <1>p, <1>t, <1>s
         DEF Counters, Persisted, Ordered, Up, Marked, Markable,
         ProgressAlwaysMade
    <2> QED
      BY <2>1, <2>2, <2>3, <2>4, <2>5 DEF Inductive
  <1>25. ASSUME NEW t \in Tasks, VerifyTask(t) PROVE Inductive'
    <2>1. /\ Threads' /\ Counters' /\ Persisted' /\ Ordered' /\ Numbered'
          /\ Handed' /\ Statused' /\ Marked' /\ ProgressAlwaysMade'
      BY <1>25, <1>p, <1>t DEF VerifyTask, Threads, Counters, Persisted,
         Ordered, Up, Numbered, NumberedAt, Attempting, AttemptNumber, Handed,
         HandedAt, Statused, InLoop, Unfinished, Marked, Markable,
         ProgressAlwaysMade, Return, Go, LockFree, WorkersTyped
    <2> QED
      BY <2>1 DEF Inductive
  <1>26. ASSUME NEW t \in Tasks, BackoffElapses(t) PROVE Inductive'
    <2>1. Numbered'
      <3>1. \A u \in Tasks \ {t} : NumberedAt(u)'
        BY <1>26, <1>p, <1>t DEF BackoffElapses, Go, Numbered, NumberedAt,
           Attempting, AttemptNumber, WorkersTyped
      <3>2. NumberedAt(t)'
        <4>1. /\ workerPc[t] = "backoff" /\ workerPc'[t] = "starting"
              /\ UNCHANGED <<mem, attemptInRun, firstAttempt>>
          BY <1>26, <1>t DEF BackoffElapses, Go, WorkersTyped
        <4>2. NumberedAt(t)
          BY <1>p DEF Numbered
        <4>3. firstAttempt[t] + attemptInRun[t] - 1 = Len(mem.attempts[t])
          BY <4>1, <4>2 DEF NumberedAt, AttemptNumber
        <4>4. /\ Len(mem.attempts[t]) \in Nat
              /\ firstAttempt[t] \in Nat /\ attemptInRun[t] \in Nat
          BY <1>s, <1>t, LenProperties DEF WorkersTyped
        <4>5. firstAttempt[t] + attemptInRun[t] = Len(mem.attempts[t]) + 1
          BY <4>3, <4>4, OneLess
        <4> QED
          BY <4>1, <4>2, <4>5 DEF NumberedAt, Attempting
      <3> QED
        BY <3>1, <3>2 DEF Numbered
    <2>2. /\ Threads' /\ Counters' /\ Persisted' /\ Ordered' /\ Handed'
          /\ Statused' /\ Marked' /\ ProgressAlwaysMade'
      BY <1>26, <1>p, <1>t, <1>s DEF BackoffElapses, Threads, Counters,
         Persisted, Ordered, Up, Handed, HandedAt, Statused, InLoop, Unfinished,
         Marked, Markable, ProgressAlwaysMade, Go, LockFree, WorkersTyped
    <2> QED
      BY <2>1, <2>2 DEF Inductive
  <1>27. ASSUME NEW t \in Tasks, BackoffCancelled(t) PROVE Inductive'
    <2>1. /\ Threads' /\ Counters' /\ Persisted' /\ Ordered' /\ Numbered'
          /\ Handed' /\ Statused' /\ Marked' /\ ProgressAlwaysMade'
      BY <1>27, <1>p, <1>t DEF BackoffCancelled, Threads, Counters, Persisted,
         Ordered, Up, Numbered, NumberedAt, Attempting, AttemptNumber, Handed,
         HandedAt, Statused, InLoop, Unfinished, Marked, Markable,
         ProgressAlwaysMade, Return, Go, LockFree, WorkersTyped
    <2> QED
      BY <2>1 DEF Inductive
  <1>28. ASSUME CancelProbe PROVE Inductive'
    <2>1. /\ Threads' /\ Counters' /\ Persisted' /\ Ordered' /\ Numbered'
          /\ Handed' /\ Statused' /\ Marked' /\ ProgressAlwaysMade'
      BY <1>28, <1>p DEF CancelProbe, Threads, Counters, Persisted, Ordered,
         Up, Numbered, NumberedAt, Attempting, AttemptNumber, Handed, HandedAt,
         Statused, InLoop, Unfinished, Marked, Markable, ProgressAlwaysMade
    <2> QED
      BY <2>1 DEF Inductive
  <1>29. ASSUME CancelProbeRelease PROVE Inductive'
    <2>1. /\ Threads' /\ Counters' /\ Persisted' /\ Ordered' /\ Numbered'
          /\ Handed' /\ Statused' /\ Marked' /\ ProgressAlwaysMade'
      BY <1>29, <1>p DEF CancelProbeRelease, Threads, Counters, Persisted,
         Ordered, Up, Numbered, NumberedAt, Attempting, AttemptNumber, Handed,
         HandedAt, Statused, InLoop, Unfinished, Marked, Markable,
         ProgressAlwaysMade
    <2> QED
      BY <2>1 DEF Inductive
  <1>30. ASSUME CancelFlag PROVE Inductive'
    <2>a. UNCHANGED <<mem, mainPc, loopVars, workerVars, launches, cancelEvent>>
      BY <1>30 DEF CancelFlag
    <2>w. /\ disk'.status = disk.status /\ disk'.tasks = disk.tasks
          /\ disk'.attempts = disk.attempts
      BY <1>30, <1>t DEF CancelFlag, DocumentsTyped, StateDocument
    <2>1. /\ Threads' /\ Counters' /\ Persisted' /\ Ordered' /\ Numbered'
          /\ Handed' /\ Statused' /\ Marked' /\ ProgressAlwaysMade'
      BY <2>a, <2>w, <1>p DEF Threads, Counters, Persisted, Ordered, Up,
         Numbered, NumberedAt, Attempting, AttemptNumber, Handed, HandedAt,
         Statused, InLoop, Unfinished, Marked, Markable, ProgressAlwaysMade
    <2> QED
      BY <2>1 DEF Inductive
  <1>31. ASSUME CancelSignal PROVE Inductive'
    <2>1. /\ Threads' /\ Counters' /\ Persisted' /\ Ordered' /\ Numbered'
          /\ Handed' /\ Statused' /\ Marked' /\ ProgressAlwaysMade'
      BY <1>31, <1>p DEF CancelSignal, Threads, Counters, Persisted, Ordered,
         Up, Numbered, NumberedAt, Attempting, AttemptNumber, Handed, HandedAt,
         Statused, InLoop, Unfinished, Marked, Markable, ProgressAlwaysMade,
         RequestCancel
    <2> QED
      BY <2>1 DEF Inductive
  <1>32. ASSUME Interrupt PROVE Inductive'
    <2>1. /\ Threads' /\ Counters' /\ Persisted' /\ Ordered' /\ Numbered'
          /\ Handed' /\ Statused' /\ Marked' /\ ProgressAlwaysMade'
      BY <1>32, <1>p DEF Interrupt, Threads, Counters, Persisted, Ordered, Up,
         Numbered, NumberedAt, Attempting, AttemptNumber, Handed, HandedAt,
         Statused, InLoop, Unfinished, Marked, Markable, ProgressAlwaysMade,
         RequestCancel
    <2> QED
      BY <2>1 DEF Inductive
  <1>33. ASSUME Crash PROVE Inductive'
    BY <1>33, InductiveProcessEnds DEF Crash
  <1>34. ASSUME UNCHANGED vars PROVE Inductive'
    BY <1>34 DEF vars, Inductive, Threads, Counters, Persisted, Ordered, Up,
       Numbered, NumberedAt, Attempting, AttemptNumber, Handed, HandedAt,
       Statused, InLoop, Unfinished, Marked, Markable, ProgressAlwaysMade
  <1>35. ASSUME CancelActive PROVE Inductive'
    <2>1. /\ Threads' /\ Counters' /\ Persisted' /\ Ordered' /\ Numbered'
          /\ Handed' /\ Statused' /\ Marked' /\ ProgressAlwaysMade'
      BY <1>35, <1>p DEF CancelActive, Threads, Counters, Persisted, Ordered,
         Up, Numbered, NumberedAt, Attempting, AttemptNumber, Handed, HandedAt,
         Statused, InLoop, Unfinished, Marked, Markable, ProgressAlwaysMade
    <2> QED
      BY <2>1 DEF Inductive
  <1>36. ASSUME WriteFails PROVE Inductive'
    BY <1>36, InductiveProcessEnds DEF WriteFails
  <1> QED
    BY <1>1, <1>2, <1>3, <1>4, <1>5, <1>6, <1>7, <1>8, <1>9, <1>10, <1>11,
       <1>12, <1>13, <1>14, <1>15, <1>16, <1>17, <1>18, <1>19, <1>20, <1>21,
       <1>22, <1>23, <1>24, <1>25, <1>26, <1>27, <1>28, <1>29, <1>30, <1>31,
       <1>32, <1>33, <1>34, <1>35, <1>36 DEF Next, Main, Worker, Client

\* The inductive invariant holds at the start.
LEMMA InductiveInit == Init => Inductive
  <1> SUFFICES ASSUME Init PROVE Inductive
    OBVIOUS
  <1>1. Threads
    BY DEF Init, Idle, Threads
  <1>2. Counters
    <2>1. \A r \in Providers : ActiveOf(r, {}) = {}
      BY DEF ActiveOf
    <2>2. \A r \in Providers : ProviderLimit(r) \in Nat \ {0}
      BY LimitsAssumption DEF ProviderLimit
    <2>3. futures = {} /\ providerActive = [r \in Providers |-> 0]
      BY DEF Init, Idle
    <2>4. Cardinality({}) = 0
      BY FS_EmptySet
    <2>5. Cardinality(futures) <= MaxConcurrency
      BY <2>3, <2>4, LimitsAssumption
    <2>6. \A r \in Providers :
            /\ providerActive[r] = Cardinality(ActiveOf(r, futures))
            /\ providerActive[r] <= ProviderLimit(r)
      BY <2>1, <2>2, <2>3, <2>4
    <2> QED
      BY <2>5, <2>6 DEF Counters
  <1>3. Persisted
    BY DEF Init, Persisted
  <1>4. Ordered /\ Marked /\ ProgressAlwaysMade
    BY DEF Init, Idle, InitialState, Ordered, Marked, ProgressAlwaysMade,
           TerminalSuccess
  <1>5. Numbered
    BY DEF Init, Idle, InitialState, Numbered, NumberedAt, Attempting
  <1>6. Handed
    BY DEF Init, InitialState, Handed, HandedAt
  <1>7. Statused
    BY DEF Init, InitialState, Statused, InLoop, TerminalWorkflowStates
  <1> QED
    BY <1>1, <1>2, <1>3, <1>4, <1>5, <1>6, <1>7 DEF Inductive

\* Every reachable state satisfies the inductive invariant.
THEOREM InductiveHolds == Spec => [](TypeOK /\ Inductive)
  <1>1. Init => TypeOK /\ Inductive
    BY TypeInit, InductiveInit
  <1>2. TypeOK /\ Inductive /\ [Next]_vars => (TypeOK /\ Inductive)'
    BY TypeNext, InductiveNext
  <1> QED
    BY <1>1, <1>2, PTL DEF Spec

-----------------------------------------------------------------------------
(* State properties.                                                       *)

\* A task with a live worker is a future of a scheduler that is up.
LEMMA LiveWorkers ==
  ASSUME TypeOK, Inductive
  PROVE  /\ Live \subseteq futures /\ IsFiniteSet(futures)
         /\ futures # {} => Up
  <1>1. Live \subseteq futures
    BY DEF Live, Inductive, Threads
  <1>2. IsFiniteSet(futures)
    BY TasksAssumption, FS_Subset DEF TypeOK, MainTyped
  <1>3. futures # {} => Up
    BY DEF Inductive, Threads, Up
  <1> QED
    BY <1>1, <1>2, <1>3

\* A success is on record exactly when it is in memory.
LEMMA SuccessesAgree ==
  ASSUME TypeOK, Inductive, mainPc # "loaded", NEW t \in Tasks
  PROVE  /\ disk.tasks[t] \in TerminalSuccess => mem.tasks[t] = disk.tasks[t]
         /\ mem.tasks[t] \in TerminalSuccess => disk.tasks[t] = mem.tasks[t]
         /\ mem.tasks[t] = "running" => disk.tasks[t] = "running"
         /\ disk.attempts[t] = mem.attempts[t]
  BY DEF Inductive, Persisted, TerminalSuccess

\* The invariant bounds the tasks in hand by the limits of the document.
LEMMA CapacityFollows == TypeOK /\ Inductive => CapacityRespected
  <1> SUFFICES ASSUME TypeOK, Inductive PROVE CapacityRespected
    OBVIOUS
  <1>1. Live \subseteq futures /\ IsFiniteSet(futures) /\ IsFiniteSet(Live)
    BY LiveWorkers, FS_Subset
  <1>2. Cardinality(Live) <= MaxConcurrency
    <2>1. Cardinality(Live) <= Cardinality(futures)
      BY <1>1, FS_Subset
    <2>2. Cardinality(Live) \in Nat /\ Cardinality(futures) \in Nat
      BY <1>1, FS_CardinalityType
    <2>3. Cardinality(futures) <= MaxConcurrency
      BY DEF Inductive, Counters
    <2> QED
      BY <2>1, <2>2, <2>3, LimitsAssumption
  <1>3. ASSUME NEW r \in Providers
        PROVE  Cardinality(ActiveOf(r, Live)) <= ProviderLimit(r)
    <2>1. ActiveOf(r, Live) \subseteq ActiveOf(r, futures)
      BY <1>1 DEF ActiveOf
    <2>2. IsFiniteSet(ActiveOf(r, futures))
      BY <1>1, FS_Subset DEF ActiveOf
    <2>3. /\ IsFiniteSet(ActiveOf(r, Live))
          /\ Cardinality(ActiveOf(r, Live)) <= Cardinality(ActiveOf(r, futures))
      BY <2>1, <2>2, FS_Subset
    <2>4. /\ Cardinality(ActiveOf(r, Live)) \in Nat
          /\ Cardinality(ActiveOf(r, futures)) \in Nat
      BY <2>2, <2>3, FS_CardinalityType
    <2>5. Cardinality(ActiveOf(r, futures)) <= ProviderLimit(r)
      BY DEF Inductive, Counters
    <2>6. ProviderLimit(r) \in Nat
      BY LimitsAssumption DEF ProviderLimit
    <2> QED
      BY <2>3, <2>4, <2>5, <2>6
  <1> QED
    BY <1>2, <1>3 DEF CapacityRespected

\* The concurrency limits hold however large the graph and the limits are.
THEOREM CapacityHolds == Spec => []CapacityRespected
  BY InductiveHolds, CapacityFollows, PTL

\* In a state of the invariant a live attempt has its dependencies on record.
LEMMA DependenciesFollow == TypeOK /\ Inductive => DependenciesFirst
  <1> SUFFICES ASSUME TypeOK, Inductive, NEW t \in Live, NEW d \in DependsOn[t]
               PROVE  disk.tasks[d] \in TerminalSuccess
    BY DEF DependenciesFirst
  <1>1. t \in futures /\ t \in Tasks /\ Up
    BY LiveWorkers DEF Live
  <1>2. d \in Tasks
    BY <1>1, TasksAssumption
  <1>3. mem.tasks[d] \in TerminalSuccess
    BY <1>1 DEF Inductive, Ordered
  <1> QED
    BY <1>1, <1>2, <1>3, SuccessesAgree DEF Up

\* On every document, no task is executed before its dependencies succeeded.
THEOREM DependenciesHold == Spec => []DependenciesFirst
  BY InductiveHolds, DependenciesFollow, PTL

\* In a state of the invariant a launched attempt is the last one on record.
LEMMA WriteAheadFollows == TypeOK /\ Inductive => WriteAhead
  <1> SUFFICES ASSUME TypeOK, Inductive, NEW t \in Tasks,
                      workerPc[t] \in {"launching", "running"}
               PROVE  LET h == disk.attempts[t]
                      IN  /\ disk.tasks[t] = "running"
                          /\ h # << >>
                          /\ h[Len(h)] = [number |-> AttemptNumber(t),
                                          status |-> "running"]
    BY DEF WriteAhead
  <1>1. mainPc # "loaded"
    BY LiveWorkers DEF Live, Up
  <1>2. NumberedAt(t)
    BY DEF Inductive, Numbered
  <1>3. disk.attempts[t] = mem.attempts[t] /\ mem.attempts[t] \in Seq(Attempt)
    BY <1>1, SuccessesAgree DEF TypeOK, DocumentsTyped, StateDocument
  <1> DEFINE n == Len(mem.attempts[t])
  <1>4. n \in Nat /\ n > 0 /\ n = AttemptNumber(t)
    BY <1>2, <1>3, LenProperties DEF NumberedAt, Attempting
  <1>5. disk.tasks[t] = "running"
    BY <1>1, <1>2, SuccessesAgree DEF NumberedAt, Attempting
  <1>6. mem.attempts[t][n] \in Attempt
    BY <1>3, <1>4, ElementOfSeq
  <1>7. mem.attempts[t][n].number = n /\ mem.attempts[t][n].status = "running"
    BY <1>2, <1>4 DEF NumberedAt, Attempting
  <1>8. mem.attempts[t] # << >>
    BY <1>3, <1>4, EmptySeq
  <1> QED
    BY <1>3, <1>4, <1>5, <1>6, <1>7, <1>8 DEF Attempt

\* No shim process exists for an attempt that a crash could hide.
THEOREM WriteAheadHolds == Spec => []WriteAhead
  BY InductiveHolds, WriteAheadFollows, PTL

\* The invariant orders the attempts handed to the runner by their numbers.
LEMMA UniqueFollows == TypeOK /\ Inductive => AttemptDirectoriesUnique
  <1> SUFFICES ASSUME TypeOK, Inductive, NEW t \in Tasks
               PROVE  \A i, j \in DOMAIN launches[t] :
                        i < j => launches[t][i] < launches[t][j]
    BY DEF AttemptDirectoriesUnique
  <1>1. DOMAIN launches[t] = 1..Len(launches[t])
    BY LenProperties DEF TypeOK, GhostsTyped
  <1> QED
    BY <1>1 DEF Inductive, Handed, HandedAt

\* Attempt directories are never reused, whatever is retried or resumed.
THEOREM AttemptDirectoriesHold == Spec => []AttemptDirectoriesUnique
  BY InductiveHolds, UniqueFollows, PTL

\* The invariant says outright that only marks are not on disk.
LEMMA MarksFollow == TypeOK /\ Inductive => OnlyMarksUnpersisted
  BY DEF Inductive, Persisted, OnlyMarksUnpersisted

\* Nothing but marks is ever unpersisted.
THEOREM OnlyMarksHold == Spec => []OnlyMarksUnpersisted
  BY InductiveHolds, MarksFollow, PTL

\* In a state of the invariant a final status on disk fits the tasks on disk.
LEMMA TruthfulFollows == TypeOK /\ Inductive => FinalStatusTruthful
  <1> SUFFICES ASSUME TypeOK, Inductive, disk.status \in TerminalWorkflowStates
               PROVE  FinalStatusTruthful
    BY DEF FinalStatusTruthful
  <1>1. mainPc \in {"down", "loaded", "release"}
    BY DEF TypeOK, MainTyped, MainPc, Handling, Inductive, Statused, InLoop,
           TerminalWorkflowStates
  <1>2. \A t \in Tasks : workerPc[t] = "idle"
    BY <1>1 DEF Inductive, Threads
  <1> QED
    BY <1>2 DEF FinalStatusTruthful, Inductive, Statused

\* A final status on record is true of the tasks on record.
THEOREM FinalStatusHolds == Spec => []FinalStatusTruthful
  BY InductiveHolds, TruthfulFollows, PTL

\* On every acyclic document the scheduler makes progress.
THEOREM ProgressHolds == Spec => []ProgressAlwaysMade
  BY InductiveHolds, PTL DEF Inductive
-----------------------------------------------------------------------------
(* What a step may never do.                                               *)

\* What is on record changes only by the writes of six actions.
LEMMA WhoWrites ==
  ASSUME TypeOK, [Next]_vars
  PROVE  \/ /\ disk'.tasks = disk.tasks /\ disk'.attempts = disk.attempts
            /\ disk.cancellationRequested => disk'.cancellationRequested
         \/ ResumeWrite \/ Initialize \/ Finalize
         \/ \E t \in Tasks : Collect(t) \/ StartAttempt(t) \/ FinishAttempt(t)
  <1> DEFINE Same == /\ disk'.tasks = disk.tasks /\ disk'.attempts = disk.attempts
                     /\ disk.cancellationRequested => disk'.cancellationRequested
  <1> SUFFICES ASSUME ~ResumeWrite, ~Initialize, ~Finalize,
                      \A t \in Tasks : ~Collect(t) /\ ~StartAttempt(t)
                                      /\ ~FinishAttempt(t)
               PROVE  Same
    OBVIOUS
  <1>1. CASE CancelFlag
    BY <1>1 DEF CancelFlag, TypeOK, DocumentsTyped, StateDocument
  <1>2. CASE UNCHANGED disk
    BY <1>2
  <1>3. Main => UNCHANGED disk
    BY DEF Main, CancelActive, AcquireLease, LeaseRefused, Poll, MarkTask, EndMark, Submit,
           EndSubmit, Wait, EndCollect, WriteFails, ReleaseLease, ProcessEnds
  <1>4. ASSUME NEW t \in Tasks, Worker(t) PROVE UNCHANGED disk
    BY <1>4 DEF Worker, BeginTask, PromptFails, CheckCancel, Launch,
       LaunchFails, RunnerRaises, ShimExits, VerifyTask, BackoffElapses,
       BackoffCancelled
  <1>5. ResumeLoad \/ CancelProbe \/ CancelProbeRelease \/ CancelSignal
        \/ Interrupt \/ Crash \/ UNCHANGED vars => UNCHANGED disk
    BY DEF ResumeLoad, CancelProbe, CancelProbeRelease, CancelSignal,
           Interrupt, Crash, ProcessEnds, vars
  <1> QED
    BY <1>1, <1>2, <1>3, <1>4, <1>5 DEF Next, Client

\* Only the worker that launches an attempt hands something to the runner.
LEMMA WhoLaunches ==
  ASSUME TypeOK, [Next]_vars
  PROVE  \/ launches' = launches
         \/ \E t \in Tasks : workerPc[t] = "launching" /\ HandOver(t)
  <1>1. Main => UNCHANGED launches
    BY DEF Main, CancelActive, ResumeWrite, AcquireLease, LeaseRefused, Initialize, Poll,
           MarkTask, EndMark, Submit, EndSubmit, Wait, Collect, EndCollect,
           Finalize, WriteFails, ReleaseLease, ProcessEnds, ghostVars
  <1>2. ASSUME NEW t \in Tasks, Worker(t)
        PROVE  \/ launches' = launches
               \/ workerPc[t] = "launching" /\ HandOver(t)
    BY <1>2 DEF Worker, BeginTask, PromptFails, StartAttempt, CheckCancel,
       Launch, LaunchFails, RunnerRaises, ShimExits, FinishAttempt,
       VerifyTask, BackoffElapses, BackoffCancelled, Go, Return
  <1>3. ResumeLoad \/ CancelProbe \/ Client \/ Interrupt \/ Crash
        \/ UNCHANGED vars => UNCHANGED launches
    BY DEF ResumeLoad, CancelProbe, Client, CancelProbeRelease, CancelFlag,
           CancelSignal, Interrupt, Crash, ProcessEnds, vars, ghostVars,
           clientFrame
  <1> QED
    BY <1>1, <1>2, <1>3 DEF Next

\* A success on record stays on record as it is, and no other task becomes a
\* success unless its result is collected.
LEMMA SuccessesKept ==
  ASSUME TypeOK, Inductive, [Next]_vars, NEW t \in Tasks
  PROVE  /\ disk.tasks[t] \in TerminalSuccess => disk'.tasks[t] = disk.tasks[t]
         /\ disk.tasks[t] \notin TerminalSuccess =>
              Collect(t) \/ disk'.tasks[t] \notin TerminalSuccess
  <1> DEFINE Kept ==
        /\ disk.tasks[t] \in TerminalSuccess => disk'.tasks[t] = disk.tasks[t]
        /\ disk.tasks[t] \notin TerminalSuccess =>
             Collect(t) \/ disk'.tasks[t] \notin TerminalSuccess
  <1>p. Threads /\ Persisted /\ Ordered /\ Numbered
    BY DEF Inductive
  <1>t. /\ DocumentsTyped /\ WorkersTyped /\ GhostsTyped
        /\ mem.tasks \in [Tasks -> TaskState]
        /\ disk.tasks \in [Tasks -> TaskState]
    BY DEF TypeOK, DocumentsTyped, StateDocument
  <1>1. CASE disk'.tasks = disk.tasks
    BY <1>1
  <1>2. CASE ResumeWrite
    <2>1. mem.tasks[t] = ResumedTask(disk.tasks[t])
      BY <1>2, <1>p DEF ResumeWrite, Persisted
    <2>2. disk'.tasks = mem.tasks
      BY <1>2, <1>t, ResumeWriteWrites
    <2> QED
      BY <2>1, <2>2 DEF ResumedTask, TerminalSuccess
  <1>3. CASE Initialize
    <2>1. disk'.tasks = mem.tasks /\ mainPc # "loaded"
      BY <1>3, <1>t, InitializeWrites DEF Initialize
    <2> QED
      BY <2>1, SuccessesAgree
  <1>4. CASE Finalize
    <2>1. disk'.tasks[t] = FinalTasks[t] /\ mainPc # "loaded"
      BY <1>4, <1>t, FinalizeWrites DEF Finalize
    <2>2. /\ mem.tasks[t] \in TerminalSuccess => FinalTasks[t] = mem.tasks[t]
          /\ mem.tasks[t] \notin TerminalSuccess =>
               FinalTasks[t] \notin TerminalSuccess
      BY DEF FinalTasks, TerminalStates, TerminalSuccess
    <2> QED
      BY <2>1, <2>2, SuccessesAgree
  <1>5. ASSUME NEW u \in Tasks, Collect(u) PROVE Kept
    <2>1. /\ disk'.tasks = [mem.tasks EXCEPT ![u] = result[u]]
          /\ mainPc = "collect" /\ u \in completed
      BY <1>5, <1>t, CollectWrites DEF Collect
    <2>2. u \in futures /\ Up
      BY <2>1, <1>p DEF Threads, Up
    <2>3. mem.tasks[u] \notin TerminalSuccess
      BY <2>2, <1>p DEF Ordered
    <2>4. CASE t = u
      BY <1>5, <2>1, <2>3, <2>4, SuccessesAgree
    <2>5. CASE t # u
      BY <2>1, <2>5, <1>t, SuccessesAgree
    <2> QED
      BY <2>4, <2>5
  <1>6. ASSUME NEW u \in Tasks, StartAttempt(u) PROVE Kept
    <2>1. /\ disk'.tasks = [mem.tasks EXCEPT ![u] = "running"]
          /\ workerPc[u] = "starting"
      BY <1>6, <1>t, StartAttemptWrites DEF StartAttempt, Go
    <2>2. u \in futures /\ Up
      BY <2>1, <1>p DEF Threads, Up
    <2>3. mem.tasks[u] \notin TerminalSuccess
      BY <2>2, <1>p DEF Ordered
    <2>4. CASE t = u
      BY <2>1, <2>2, <2>3, <2>4, <1>t, SuccessesAgree DEF Up, TerminalSuccess
    <2>5. CASE t # u
      BY <2>1, <2>2, <2>5, <1>t, SuccessesAgree DEF Up
    <2> QED
      BY <2>4, <2>5
  <1>7. ASSUME NEW u \in Tasks, FinishAttempt(u) PROVE Kept
    <2>1. disk'.tasks = mem.tasks /\ workerPc[u] = "returned"
      BY <1>7, <1>t, FinishAttemptWrites DEF FinishAttempt
    <2>2. mainPc # "loaded"
      BY <2>1, <1>p DEF Threads
    <2> QED
      BY <2>1, <2>2, SuccessesAgree
  <1> QED
    BY <1>1, <1>2, <1>3, <1>4, <1>5, <1>6, <1>7, WhoWrites

\* What is on record as done is neither undone nor done again.
THEOREM SuccessHolds == Spec => SuccessIsFinal
  <1>1. ASSUME TypeOK, Inductive, [Next]_vars, NEW t \in Tasks,
               disk.tasks[t] \in TerminalSuccess
        PROVE  disk'.tasks[t] = disk.tasks[t] /\ launches'[t] = launches[t]
    <2>1. disk'.tasks[t] = disk.tasks[t]
      BY <1>1, SuccessesKept
    <2>2. workerPc[t] # "launching"
      BY <1>1, WriteAheadFollows DEF WriteAhead, TerminalSuccess
    <2>3. launches'[t] = launches[t]
      BY <1>1, <2>2, WhoLaunches DEF HandOver, TypeOK, GhostsTyped
    <2> QED
      BY <2>1, <2>3
  <1>2. TypeOK /\ Inductive /\ [Next]_vars =>
          [\A t \in Tasks : disk.tasks[t] \in TerminalSuccess =>
             disk'.tasks[t] = disk.tasks[t] /\ launches'[t] = launches[t]]_vars
    BY <1>1
  <1> QED
    BY <1>2, InductiveHolds, PTL DEF Spec, SuccessIsFinal

\* A recorded cancellation survives every rewrite of the document, whichever
\* process writes.
THEOREM CancellationHolds == Spec => CancellationNotLost
  <1>1. ASSUME TypeOK, [Next]_vars, disk.cancellationRequested
        PROVE  disk'.cancellationRequested
    <2>t. DocumentsTyped /\ WorkersTyped /\ GhostsTyped
      BY <1>1 DEF TypeOK
    <2>1. CASE ResumeWrite
      BY <1>1, <2>1, <2>t, ResumeWriteWrites
    <2>2. CASE Initialize
      BY <1>1, <2>2, <2>t, InitializeWrites
    <2>3. CASE Finalize
      BY <1>1, <2>3, <2>t, FinalizeWrites
    <2>4. ASSUME NEW t \in Tasks, Collect(t) \/ StartAttempt(t) \/ FinishAttempt(t)
          PROVE  disk'.cancellationRequested
      BY <1>1, <2>4, <2>t, CollectWrites, StartAttemptWrites, FinishAttemptWrites
    <2> QED
      BY <1>1, <2>1, <2>2, <2>3, <2>4, WhoWrites
  <1>2. TypeOK /\ [Next]_vars =>
          [disk.cancellationRequested => disk'.cancellationRequested]_vars
    BY <1>1
  <1> QED
    BY <1>2, TypeCorrect, PTL DEF Spec, CancellationNotLost

\* A recorded attempt is settled once; nothing else of the history changes.
THEOREM HistoryHolds == Spec => HistoryIntact
  <1> DEFINE Step(t) ==
        LET old == disk.attempts[t]
            new == disk'.attempts[t]
        IN  /\ Len(old) <= Len(new)
            /\ \A i \in 1..Len(old) : new[i] # old[i] =>
                 /\ i = Len(old) /\ old[i].status = "running"
                 /\ new[i].number = old[i].number
  <1>1. ASSUME TypeOK, Inductive, [Next]_vars, NEW t \in Tasks PROVE Step(t)
    <2> USE <1>1
    <2>t. /\ DocumentsTyped /\ WorkersTyped /\ GhostsTyped
          /\ disk.attempts \in [Tasks -> Seq(Attempt)]
          /\ mem.attempts \in [Tasks -> Seq(Attempt)]
      BY DEF TypeOK, DocumentsTyped, StateDocument
    <2>l. Len(disk.attempts[t]) \in Nat
      BY <2>t, LenProperties
    <2>a. disk.attempts[t] = mem.attempts[t]
      BY DEF Inductive, Persisted
    <2>1. CASE disk'.attempts[t] = disk.attempts[t]
      BY <2>1, <2>l
    <2>2. ResumeWrite \/ Initialize \/ Finalize =>
            disk'.attempts[t] = disk.attempts[t]
      BY <2>t, <2>a, ResumeWriteWrites, InitializeWrites, FinalizeWrites
    <2>3. ASSUME NEW u \in Tasks, Collect(u)
          PROVE  disk'.attempts[t] = disk.attempts[t]
      BY <2>3, <2>t, <2>a, CollectWrites
    <2>4. ASSUME NEW u \in Tasks, StartAttempt(u) PROVE Step(t)
      <3> DEFINE new == [number |-> firstAttempt[u] + attemptInRun[u],
                         status |-> "running"]
      <3>1. /\ disk' = mem'
            /\ mem'.attempts = [mem.attempts EXCEPT ![u] = Append(@, new)]
        BY <2>4, <2>t, StartAttemptWrites
      <3>2. new \in Attempt
        BY <2>t DEF WorkersTyped, Attempt
      <3> HIDE DEF new
      <3>3. CASE t = u
        <4>1. disk'.attempts[t] = Append(disk.attempts[t], new)
          BY <3>1, <3>3, <2>t, <2>a
        <4> QED
          BY <4>1, <3>2, <2>t, <2>l, AppendAttempt
      <3>4. CASE t # u
        BY <3>1, <3>4, <2>t, <2>a, <2>l
      <3> QED
        BY <3>3, <3>4
    <2>5. ASSUME NEW u \in Tasks, FinishAttempt(u) PROVE Step(t)
      <3>1. /\ disk' = mem'
            /\ mem'.attempts =
                 [mem.attempts EXCEPT
                    ![u] = [@ EXCEPT ![Len(@)].status = outcome[u].status]]
        BY <2>5, <2>t, FinishAttemptWrites
      <3>2. outcome[u].status \in DispatchStatus
        BY <2>t DEF WorkersTyped, AttemptOutcome
      <3>3. CASE t = u
        <4> DEFINE h == disk.attempts[t]
        <4>1. disk'.attempts[t] =
                [h EXCEPT ![Len(h)].status = outcome[u].status]
          BY <3>1, <3>3, <2>t, <2>a
        <4>2. h[Len(h)].status = "running"
          BY <2>5, <3>3, <2>a DEF FinishAttempt, Inductive, Numbered,
             NumberedAt, Attempting
        <4>3. \A i \in 1..Len(h) : h[i] \in Attempt
          BY <2>t, ElementOfSeq
        <4> QED
          BY <4>1, <4>2, <4>3, <3>2, <2>t, <2>l, SetStatus DEF Attempt
      <3>4. CASE t # u
        BY <3>1, <3>4, <2>t, <2>a, <2>l
      <3> QED
        BY <3>3, <3>4
    <2> QED
      BY <2>1, <2>2, <2>3, <2>4, <2>5, WhoWrites
  <1>2. TypeOK /\ Inductive /\ [Next]_vars => [\A t \in Tasks : Step(t)]_vars
    BY <1>1
  <1> QED
    BY <1>2, InductiveHolds, PTL DEF Spec, HistoryIntact

\* Under fail-fast, a collected failure ends submission for good.
THEOREM FailFastHolds == Spec => FailFastStopsSubmission
  <1>1. ASSUME TypeOK, Inductive, [Next]_vars, failureTriggered
        PROVE  futures' \subseteq futures
    <2>1. ASSUME NEW t \in Tasks, Submit(t) PROVE FALSE
      <3>1. mem.tasks[t] = "ready" /\ ~Markable(t)
        BY <2>1, <1>1 DEF Submit, Submittable, Inductive, Marked
      <3>2. MarkedState(mem.tasks, t, failureTriggered) \in {"blocked", "skipped"}
        BY <1>1 DEF MarkedState
      <3> QED
        BY <3>1, <3>2 DEF Markable
    <2>2. Main /\ (\A t \in Tasks : ~Submit(t)) => futures' \subseteq futures
      BY DEF Main, CancelActive, ResumeWrite, AcquireLease, LeaseRefused, Initialize, Poll,
             MarkTask, EndMark, EndSubmit, Wait, Collect, EndCollect,
             Finalize, WriteFails, ReleaseLease, ProcessEnds, loopVars, mainVars
    <2>3. ASSUME NEW t \in Tasks, Worker(t) PROVE UNCHANGED futures
      BY <2>3 DEF Worker, BeginTask, PromptFails, StartAttempt, CheckCancel,
         Launch, LaunchFails, RunnerRaises, ShimExits, FinishAttempt,
         VerifyTask, BackoffElapses, BackoffCancelled, workerFrame, loopVars, mainVars
    <2>4. ResumeLoad \/ CancelProbe \/ Client \/ Interrupt \/ Crash
          \/ UNCHANGED vars => futures' \subseteq futures
      BY DEF ResumeLoad, CancelProbe, Client, CancelProbeRelease, CancelFlag,
             CancelSignal, Interrupt, Crash, ProcessEnds, vars, clientFrame,
             loopVars, mainVars
    <2> QED
      BY <1>1, <2>1, <2>2, <2>3, <2>4 DEF Next
  <1>2. TypeOK /\ Inductive /\ [Next]_vars =>
          [failureTriggered => futures' \subseteq futures]_vars
    BY <1>1
  <1> QED
    BY <1>2, InductiveHolds, PTL DEF Spec, FailFastStopsSubmission

-----------------------------------------------------------------------------
(* How far failures spread.                                                *)

\* A task that did not succeed becomes a success only after all before it,
\* and loses nobody a success by any other change.
LEMMA OneTaskKeepsClosed ==
  ASSUME NEW tasks \in [Tasks -> TaskState], SuccessesClosed(tasks),
         NEW t \in Tasks, tasks[t] \notin TerminalSuccess, NEW v,
         v \in TerminalSuccess =>
           \A d \in DependsOn[t] : tasks[d] \in TerminalSuccess
  PROVE  SuccessesClosed([tasks EXCEPT ![t] = v])
  <1> DEFINE new == [tasks EXCEPT ![t] = v]
  <1> SUFFICES ASSUME NEW u \in Tasks, new[u] \in TerminalSuccess,
                      NEW d \in DependsOn[u]
               PROVE  new[d] \in TerminalSuccess
    BY DEF SuccessesClosed
  <1>1. d \in Tasks
    BY TasksAssumption
  <1>2. tasks[d] \in TerminalSuccess
    BY DEF SuccessesClosed
  <1>3. d # t
    BY <1>2
  <1> QED
    BY <1>1, <1>2, <1>3

\* A task that did not fail yet becomes a blocked one only after a failure,
\* and takes nobody's failed dependency away by any other change.
LEMMA OneTaskKeepsCause ==
  ASSUME NEW tasks \in [Tasks -> TaskState], BlockedForCause(tasks),
         NEW t \in Tasks, tasks[t] \notin TerminalFailure,
         NEW v, v # "skipped",
         v = "blocked" => \E d \in DependsOn[t] : tasks[d] \in TerminalFailure
  PROVE  BlockedForCause([tasks EXCEPT ![t] = v])
  <1> DEFINE new == [tasks EXCEPT ![t] = v]
  <1> SUFFICES ASSUME NEW u \in Tasks
               PROVE  /\ new[u] # "skipped"
                      /\ new[u] = "blocked" =>
                           \E d \in DependsOn[u] : new[d] \in TerminalFailure
    BY DEF BlockedForCause
  <1>1. new[u] # "skipped"
    BY DEF BlockedForCause
  <1>2. ASSUME new[u] = "blocked"
        PROVE  \E d \in DependsOn[u] : new[d] \in TerminalFailure
    <2>1. PICK d \in DependsOn[u] : tasks[d] \in TerminalFailure
      BY <1>2 DEF BlockedForCause
    <2>2. d \in Tasks /\ d # t
      BY <2>1, TasksAssumption
    <2> QED
      BY <2>1, <2>2
  <1> QED
    BY <1>1, <1>2

\* What a resume makes of the tasks on record still fits together.
LEMMA ResumeKeepsIsolation ==
  ASSUME NEW tasks \in [Tasks -> TaskState], SuccessesClosed(tasks)
  PROVE  LET new == [t \in Tasks |-> ResumedTask(tasks[t])]
         IN  SuccessesClosed(new) /\ BlockedForCause(new)
  <1> DEFINE new == [t \in Tasks |-> ResumedTask(tasks[t])]
  <1>1. \A t \in Tasks : /\ new[t] \notin {"skipped", "blocked"}
                         /\ new[t] \in TerminalSuccess <=>
                              tasks[t] \in TerminalSuccess
    BY DEF ResumedTask, TerminalSuccess
  <1>2. \A t \in Tasks : DependsOn[t] \subseteq Tasks
    BY TasksAssumption
  <1> HIDE DEF new
  <1>3. SuccessesClosed(new)
    BY <1>1, <1>2 DEF SuccessesClosed
  <1>4. BlockedForCause(new)
    BY <1>1 DEF BlockedForCause
  <1> QED
    BY <1>3, <1>4 DEF new

\* Cancelling what is left at the end makes no difference to the others.
LEMMA FinalKeepsIsolation ==
  ASSUME mem.tasks \in [Tasks -> TaskState]
  PROVE  /\ SuccessesClosed(mem.tasks) => SuccessesClosed(FinalTasks)
         /\ BlockedForCause(mem.tasks) => BlockedForCause(FinalTasks)
  <1>1. \A t \in Tasks :
          /\ FinalTasks[t] \in TerminalSuccess <=>
               mem.tasks[t] \in TerminalSuccess
          /\ FinalTasks[t] \in {"skipped", "blocked"} =>
               FinalTasks[t] = mem.tasks[t]
          /\ mem.tasks[t] \in TerminalFailure =>
               FinalTasks[t] \in TerminalFailure
    BY DEF FinalTasks, TerminalStates, TerminalSuccess, TerminalFailure,
           RunFailure
  <1>2. \A t \in Tasks : DependsOn[t] \subseteq Tasks
    BY TasksAssumption
  <1>3. SuccessesClosed(mem.tasks) => SuccessesClosed(FinalTasks)
    BY <1>1, <1>2 DEF SuccessesClosed
  <1>4. BlockedForCause(mem.tasks) => BlockedForCause(FinalTasks)
    BY <1>1, <1>2 DEF BlockedForCause
  <1> QED
    BY <1>3, <1>4

\* Failures spread in the document as they do in memory, and no further.
LEMMA IsolatedNext == TypeOK /\ Inductive /\ Isolated /\ [Next]_vars => Isolated'
  <1> SUFFICES ASSUME TypeOK, Inductive, Isolated, [Next]_vars
               PROVE  Isolated'
    OBVIOUS
  <1> DEFINE Copy(d) == /\ SuccessesClosed(d.tasks)
                        /\ FailurePolicy = "continue" => BlockedForCause(d.tasks)
             Batch == FailurePolicy = "continue" =>
                        /\ ~failureTriggered
                        /\ \A t \in futures : mem.tasks[t] \in {"ready", "running"}
  <1>p. Threads /\ Persisted /\ Ordered
    BY DEF Inductive
  <1>t. /\ DocumentsTyped /\ MainTyped /\ WorkersTyped /\ GhostsTyped
        /\ mem.tasks \in [Tasks -> TaskState]
        /\ disk.tasks \in [Tasks -> TaskState]
        /\ futures \subseteq Tasks /\ completed \subseteq Tasks
    BY DEF TypeOK, DocumentsTyped, StateDocument, MainTyped
  <1>i. Copy(mem) /\ Copy(disk) /\ Batch
    BY DEF Isolated
  <1>e. Copy(mem)' /\ Copy(disk)' /\ Batch' => Isolated'
    BY DEF Isolated
  <1>0. ASSUME disk'.tasks = disk.tasks, mem'.tasks = mem.tasks,
               futures' \subseteq futures,
               UNCHANGED failureTriggered
        PROVE  Isolated'
    BY <1>0, <1>i, <1>e
  <1>1. ASSUME ProcessEnds PROVE Isolated'
    BY <1>1, <1>i, <1>e DEF ProcessEnds
  <1>2. ASSUME ResumeLoad PROVE Isolated'
    <2>1. /\ futures = {} /\ UNCHANGED <<disk, futures, failureTriggered>>
          /\ mem'.tasks = [t \in Tasks |-> ResumedTask(disk.tasks[t])]
      BY <1>2, <1>p, <1>t DEF ResumeLoad, Threads, ResumedState, loopVars, mainVars,
         DocumentsTyped, StateDocument
    <2>2. SuccessesClosed(mem'.tasks) /\ BlockedForCause(mem'.tasks)
      BY <2>1, <1>t, <1>i, ResumeKeepsIsolation
    <2> QED
      BY <2>1, <2>2, <1>i, <1>e
  <1>3. ASSUME ResumeWrite \/ Initialize PROVE Isolated'
    <2>1. /\ mem'.tasks = mem.tasks /\ disk' = mem'
          /\ UNCHANGED <<futures, failureTriggered>>
      BY <1>3, <1>t, ResumeWriteWrites, InitializeWrites
         DEF ResumeWrite, Initialize, loopVars, mainVars
    <2> QED
      BY <2>1, <1>i, <1>e
  <1>4. ASSUME NEW t \in Tasks, MarkTask(t) PROVE Isolated'
    <2> DEFINE v == MarkedState(mem.tasks, t, failureTriggered)
    <2>1. /\ mem.tasks[t] \in {"pending", "ready"} /\ mainPc = "mark"
          /\ UNCHANGED <<disk, futures, failureTriggered>>
          /\ mem'.tasks = [mem.tasks EXCEPT ![t] = v]
      BY <1>4, <1>t DEF MarkTask, Markable, loopVars, mainVars, DocumentsTyped,
         StateDocument
    <2>2. /\ v \in {"blocked", "skipped", "ready", mem.tasks[t]}
          /\ v = "skipped" => failureTriggered
          /\ v = "blocked" =>
               \E d \in DependsOn[t] : mem.tasks[d] \in TerminalFailure
          /\ v # "ready" /\ (\A d \in DependsOn[t] :
                               mem.tasks[d] \in TerminalSuccess)
               => failureTriggered
      BY <2>1 DEF MarkedState, TerminalSuccess, TerminalFailure, RunFailure
    <2>3. mem.tasks[t] \notin TerminalSuccess \cup TerminalFailure
          /\ v \notin TerminalSuccess
      BY <2>1, <2>2 DEF TerminalSuccess, TerminalFailure, RunFailure
    <2> HIDE DEF v
    <2>4. SuccessesClosed(mem'.tasks)
      BY <2>1, <2>3, <1>t, <1>i, OneTaskKeepsClosed
    <2>5. FailurePolicy = "continue" => BlockedForCause(mem'.tasks)
      BY <2>1, <2>2, <2>3, <1>t, <1>i, OneTaskKeepsCause
    <2>6. t \in futures =>
            \A d \in DependsOn[t] : mem.tasks[d] \in TerminalSuccess
      BY <2>1, <1>p DEF Ordered, Up
    <2>7. Batch'
      BY <2>1, <2>2, <2>6, <1>t, <1>i
    <2> QED
      BY <2>1, <2>4, <2>5, <2>7, <1>i, <1>e
  <1>5. ASSUME NEW t \in Tasks, Submit(t) PROVE Isolated'
    <2>1. /\ mem.tasks[t] = "ready" /\ futures' = futures \cup {t}
          /\ UNCHANGED <<disk, mem, failureTriggered>>
      BY <1>5 DEF Submit, Submittable
    <2> QED
      BY <2>1, <1>i, <1>e
  <1>6. ASSUME NEW t \in Tasks, Collect(t) PROVE Isolated'
    <2>1. /\ mainPc = "collect" /\ t \in completed
          /\ futures' = futures \ {t}
          /\ failureTriggered' = TriggeredBy(result[t])
          /\ mem'.tasks = [mem.tasks EXCEPT ![t] = result[t]] /\ disk' = mem'
      BY <1>6, <1>t, CollectWrites DEF Collect
    <2>2. t \in futures /\ mem.tasks[t] \notin TerminalSuccess
          /\ \A d \in DependsOn[t] : mem.tasks[d] \in TerminalSuccess
      <3>1. t \in futures /\ Up
        BY <2>1, <1>t, <1>p DEF Threads, Up
      <3> QED
        BY <3>1, <1>t, <1>p DEF Ordered
    <2>3. SuccessesClosed(mem'.tasks)
      BY <2>1, <2>2, <1>t, <1>i, OneTaskKeepsClosed
    <2>4. ASSUME FailurePolicy = "continue"
          PROVE  /\ BlockedForCause(mem'.tasks) /\ ~failureTriggered'
                 /\ \A u \in futures' : mem'.tasks[u] \in {"ready", "running"}
      <3>1. mem.tasks[t] \notin TerminalFailure
        BY <2>2, <2>4, <1>i DEF TerminalFailure, RunFailure
      <3>2. result[t] \notin {"skipped", "blocked"}
        BY <1>t DEF WorkersTyped, TerminalSuccess, RunFailure
      <3>3. BlockedForCause(mem'.tasks)
        BY <3>1, <3>2, <2>1, <2>4, <1>t, <1>i, OneTaskKeepsCause
      <3>4. ~failureTriggered'
        BY <2>1, <2>4, <1>i DEF TriggeredBy
      <3> QED
        BY <3>3, <3>4, <2>1, <2>4, <1>t, <1>i
    <2> QED
      BY <2>1, <2>3, <2>4, <1>e
  <1>7. ASSUME Finalize PROVE Isolated'
    <2>1. /\ futures = {} /\ UNCHANGED <<futures, failureTriggered>>
          /\ mem'.tasks = FinalTasks /\ disk' = mem'
      BY <1>7, <1>t, <1>p, FinalizeWrites DEF Finalize, Threads, loopVars, mainVars
    <2> QED
      BY <2>1, <1>t, <1>i, <1>e, FinalKeepsIsolation
  <1>8. ASSUME NEW t \in Tasks, StartAttempt(t) PROVE Isolated'
    <2>1. /\ workerPc[t] = "starting" /\ UNCHANGED <<futures, failureTriggered>>
          /\ mem'.tasks = [mem.tasks EXCEPT ![t] = "running"] /\ disk' = mem'
      BY <1>8, <1>t, StartAttemptWrites
         DEF StartAttempt, Go, workerFrame, loopVars, mainVars
    <2>2. t \in futures /\ mem.tasks[t] \notin TerminalSuccess
      <3>1. t \in futures /\ Up
        BY <2>1, <1>p DEF Threads, Up
      <3> QED
        BY <3>1, <1>p DEF Ordered
    <2>3. SuccessesClosed(mem'.tasks)
      BY <2>1, <2>2, <1>t, <1>i, OneTaskKeepsClosed DEF TerminalSuccess
    <2>4. FailurePolicy = "continue" =>
            mem.tasks[t] \notin TerminalFailure
      BY <2>2, <1>i DEF TerminalFailure, RunFailure
    <2>5. FailurePolicy = "continue" => BlockedForCause(mem'.tasks)
      BY <2>1, <2>4, <1>t, <1>i, OneTaskKeepsCause
    <2>6. Batch'
      BY <2>1, <1>t, <1>i
    <2> QED
      BY <2>1, <2>3, <2>5, <2>6, <1>e
  <1>9. ASSUME NEW t \in Tasks, FinishAttempt(t) PROVE Isolated'
    <2>1. /\ mem'.tasks = mem.tasks /\ disk' = mem'
          /\ UNCHANGED <<futures, failureTriggered>>
      BY <1>9, <1>t, FinishAttemptWrites DEF FinishAttempt, workerFrame, loopVars, mainVars
    <2> QED
      BY <2>1, <1>i, <1>e
  <1>10. ASSUME AcquireLease \/ Poll \/ CancelActive \/ EndMark \/ EndSubmit
                \/ Wait \/ EndCollect
         PROVE  Isolated'
    <2>1. UNCHANGED <<mem, disk, futures, failureTriggered>>
      BY <1>10 DEF AcquireLease, Poll, CancelActive, EndMark, EndSubmit, Wait, EndCollect,
         loopVars, mainVars
    <2> QED
      BY <2>1, <1>0
  <1>11. ASSUME NEW t \in Tasks, Worker(t), ~StartAttempt(t), ~FinishAttempt(t)
         PROVE  Isolated'
    <2>1. UNCHANGED <<mem, disk, futures, failureTriggered>>
      BY <1>11 DEF Worker, BeginTask, PromptFails, CheckCancel, Launch,
         LaunchFails, RunnerRaises, ShimExits, VerifyTask, BackoffElapses,
         BackoffCancelled, workerFrame, loopVars, mainVars
    <2> QED
      BY <2>1, <1>0
  <1>12. ASSUME CancelProbe \/ Client \/ Interrupt \/ UNCHANGED vars
         PROVE  Isolated'
    <2>1. /\ UNCHANGED <<mem, futures, failureTriggered>>
          /\ disk'.tasks = disk.tasks
      BY <1>12, <1>t DEF CancelProbe, Client, CancelProbeRelease, CancelFlag,
         CancelSignal, Interrupt, clientFrame, loopVars, mainVars, vars,
         DocumentsTyped, StateDocument
    <2> QED
      BY <2>1, <1>0
  <1>13. Main => Isolated'
    BY <1>1, <1>3, <1>4, <1>5, <1>6, <1>7, <1>10
       DEF Main, LeaseRefused, WriteFails, ReleaseLease
  <1> QED
    BY <1>1, <1>2, <1>8, <1>9, <1>11, <1>12, <1>13 DEF Next, Worker, Crash

\* Every reachable state satisfies the whole inductive invariant.
THEOREM WorkflowInductiveHolds == Spec => []WorkflowInductive
  <1>1. Init => Isolated
    BY DEF Init, Idle, InitialState, Isolated, SuccessesClosed, BlockedForCause,
           TerminalSuccess
  <1>2. TypeOK /\ Inductive /\ Isolated /\ [Next]_vars => Isolated'
    BY IsolatedNext
  <1>3. TypeOK /\ Inductive /\ Isolated => WorkflowInductive
    BY DEF WorkflowInductive
  <1> QED
    BY <1>1, <1>2, <1>3, InductiveHolds, PTL DEF Spec

\* On every graph, a run that goes on after failures blocks exactly the tasks
\* below one, and skips nothing.
THEOREM ContinueHolds == Spec => []ContinueIsolatesFailures
  <1>1. ASSUME TypeOK, Inductive, Isolated, FailurePolicy = "continue",
               disk.status \in {"succeeded", "failed"}, NEW t \in Tasks
        PROVE  /\ disk.tasks[t] # "skipped"
               /\ disk.tasks[t] = "blocked" <=>
                    /\ \E d \in DependsOn[t] : disk.tasks[d] \in TerminalFailure
                    /\ disk.tasks[t] \notin RunFailure
    <2>1. disk.tasks[t] \in TerminalStates
      BY <1>1 DEF Inductive, Statused, TerminalWorkflowStates
    <2>2. SuccessesClosed(disk.tasks) /\ BlockedForCause(disk.tasks)
      BY <1>1 DEF Isolated
    <2>3. disk.tasks[t] # "skipped"
      BY <2>2 DEF BlockedForCause
    <2>4. disk.tasks[t] = "blocked" =>
            /\ \E d \in DependsOn[t] : disk.tasks[d] \in TerminalFailure
            /\ disk.tasks[t] \notin RunFailure
      BY <2>2 DEF BlockedForCause, RunFailure
    <2>5. disk.tasks[t] \in TerminalSuccess =>
            \A d \in DependsOn[t] : disk.tasks[d] \notin TerminalFailure
      BY <2>2 DEF SuccessesClosed, TerminalSuccess, TerminalFailure, RunFailure
    <2> QED
      BY <2>1, <2>3, <2>4, <2>5 DEF TerminalStates, TerminalFailure
  <1>2. TypeOK /\ Inductive /\ Isolated => ContinueIsolatesFailures
    BY <1>1 DEF ContinueIsolatesFailures
  <1>3. WorkflowInductive => TypeOK /\ Inductive /\ Isolated
    BY DEF WorkflowInductive
  <1> QED
    BY <1>2, <1>3, WorkflowInductiveHolds, PTL

-----------------------------------------------------------------------------
(* The scheduler implements DurableProgress.                               *)

\* attemptInRun changes only when an attempt begins, a result is collected or
\* the process ends.
LEMMA WhoCounts ==
  ASSUME TypeOK, [Next]_vars
  PROVE  \/ attemptInRun' = attemptInRun
         \/ ProcessEnds
         \/ \E t \in Tasks : Collect(t) \/ StartAttempt(t)
  <1>1. Main => \/ attemptInRun' = attemptInRun
                \/ ProcessEnds
                \/ \E t \in Tasks : Collect(t)
    BY DEF Main, CancelActive, ResumeWrite, AcquireLease, LeaseRefused, Initialize, Poll,
           MarkTask, EndMark, Submit, EndSubmit, Wait, EndCollect, Finalize,
           WriteFails, ReleaseLease, workerVars
  <1>2. ASSUME NEW t \in Tasks, Worker(t)
        PROVE  attemptInRun' = attemptInRun \/ StartAttempt(t)
    BY <1>2 DEF Worker, BeginTask, PromptFails, CheckCancel, Launch,
       LaunchFails, RunnerRaises, ShimExits, FinishAttempt, VerifyTask,
       BackoffElapses, BackoffCancelled
  <1>3. ResumeLoad \/ CancelProbe \/ Client \/ Interrupt \/ UNCHANGED vars
          => attemptInRun' = attemptInRun
    BY DEF ResumeLoad, CancelProbe, Client, CancelProbeRelease, CancelFlag,
           CancelSignal, Interrupt, vars, workerVars, clientFrame
  <1> QED
    BY <1>1, <1>2, <1>3 DEF Next, Crash

\* Apart from beginning and settling attempts, no step changes the number of
\* attempts on record.
LEMMA LengthsKept ==
  ASSUME TypeOK, Inductive, [Next]_vars, \A t \in Tasks : ~StartAttempt(t)
  PROVE  History' = History
  <1>1. SUFFICES ASSUME NEW t \in Tasks
                 PROVE  Len(disk'.attempts[t]) = Len(disk.attempts[t])
    BY DEF History
  <1>t. /\ DocumentsTyped /\ WorkersTyped /\ GhostsTyped
        /\ mem.attempts \in [Tasks -> Seq(Attempt)]
    BY DEF TypeOK, DocumentsTyped, StateDocument
  <1>a. disk.attempts[t] = mem.attempts[t]
    BY DEF Inductive, Persisted
  <1>2. ResumeWrite \/ Initialize \/ Finalize =>
          disk'.attempts[t] = disk.attempts[t]
    BY <1>t, <1>a, ResumeWriteWrites, InitializeWrites, FinalizeWrites
  <1>3. ASSUME NEW u \in Tasks, Collect(u)
        PROVE  disk'.attempts[t] = disk.attempts[t]
    BY <1>3, <1>t, <1>a, CollectWrites
  <1>4. ASSUME NEW u \in Tasks, FinishAttempt(u)
        PROVE  Len(disk'.attempts[t]) = Len(disk.attempts[t])
    <2>1. /\ disk' = mem'
          /\ mem'.attempts =
               [mem.attempts EXCEPT
                  ![u] = [@ EXCEPT ![Len(@)].status = outcome[u].status]]
      BY <1>4, <1>t, FinishAttemptWrites
    <2>2. outcome[u].status \in DispatchStatus
      BY <1>t DEF WorkersTyped, AttemptOutcome
    <2>3. CASE t = u
      <3> DEFINE h == mem.attempts[t]
      <3>1. disk'.attempts[t] = [h EXCEPT ![Len(h)].status = outcome[u].status]
        BY <2>1, <2>3, <1>t
      <3> QED
        BY <3>1, <2>2, <1>t, <1>a, SetStatus
    <2>4. CASE t # u
      BY <2>1, <2>4, <1>t, <1>a
    <2> QED
      BY <2>3, <2>4
  <1> QED
    BY <1>2, <1>3, <1>4, WhoWrites

\* Only settling a task changes the set of finished tasks.
LEMMA FinishedKept ==
  ASSUME TypeOK, Inductive, [Next]_vars, \A t \in Tasks : ~Collect(t)
  PROVE  Finished' = Finished
  BY SuccessesKept DEF Finished

\* The first and every further attempt of a task is an abstract Attempt.
LEMMA StartIsAttempt ==
  ASSUME TypeOK, Inductive, [Next]_vars, NEW t \in Tasks, StartAttempt(t)
  PROVE  Progress!Attempt(t)
  <1>p. Threads /\ Counters /\ Ordered /\ Numbered
    BY DEF Inductive
  <1>t. /\ DocumentsTyped /\ WorkersTyped
        /\ mem.attempts \in [Tasks -> Seq(Attempt)]
    BY DEF TypeOK, DocumentsTyped, StateDocument
  <1>1. workerPc[t] = "starting" /\ mainPc' = mainPc
    BY DEF StartAttempt, Go, workerFrame
  <1>2. t \in futures /\ Up /\ mainPc # "loaded"
    BY <1>1, <1>p DEF Threads, Up
  <1>3. t \notin Finished
    BY <1>2, <1>p, SuccessesAgree DEF Ordered, Finished
  <1>4. DependsOn[t] \subseteq Finished
    BY <1>1, DependenciesFollow, TasksAssumption
       DEF DependenciesFirst, Live, Finished
  <1>5. Active' = Active \cup {t}
    BY <1>t DEF StartAttempt, Active, WorkersTyped
  <1>6. Cardinality(Active') <= MaxConcurrency
    <2>1. Active' \subseteq futures
      BY <1>2, <1>5, <1>p DEF Active, Threads, Numbered, NumberedAt
    <2>2. IsFiniteSet(futures)
      BY LiveWorkers
    <2>3. /\ Cardinality(Active') <= Cardinality(futures)
          /\ Cardinality(Active') \in Nat /\ Cardinality(futures) \in Nat
      BY <2>1, <2>2, FS_Subset, FS_CardinalityType
    <2> QED
      BY <2>3, <1>p, LimitsAssumption DEF Counters
  <1>7. History' = [History EXCEPT ![t] = @ + 1]
    <2> DEFINE new == [number |-> firstAttempt[t] + attemptInRun[t],
                       status |-> "running"]
    <2>1. /\ disk' = mem'
          /\ mem'.attempts = [mem.attempts EXCEPT ![t] = Append(@, new)]
      BY <1>t, StartAttemptWrites
    <2>2. new \in Attempt
      BY <1>t DEF WorkersTyped, Attempt
    <2> HIDE DEF new
    <2>3. \A u \in Tasks : disk.attempts[u] = mem.attempts[u]
      BY <1>2, SuccessesAgree
    <2>4. Len(disk'.attempts[t]) = Len(disk.attempts[t]) + 1
      BY <2>1, <2>2, <2>3, <1>t, AppendAttempt
    <2>5. \A u \in Tasks \ {t} : disk'.attempts[u] = disk.attempts[u]
      BY <2>1, <2>3, <1>t
    <2> QED
      BY <2>4, <2>5 DEF History
  <1>8. Finished' = Finished
    <2>1. \A u \in Tasks : ~Collect(u)
      BY <1>1, <1>t DEF StartAttempt, Go, Collect, Leave, WorkersTyped, WorkerPc,
         workerFrame, loopVars, mainVars
    <2> QED
      BY <2>1, FinishedKept
  <1>9. Progress!Cardinality(Active') = Cardinality(Active')
    BY DEF Progress!Cardinality, Cardinality
  <1> QED
    BY <1>3, <1>4, <1>5, <1>6, <1>7, <1>8, <1>9 DEF Progress!Attempt

\* Collecting the result of a task that was attempted settles it.
LEMMA CollectIsSettle ==
  ASSUME TypeOK, Inductive, [Next]_vars, NEW t \in Tasks, Collect(t)
  PROVE  Progress!Settle(t) \/ UNCHANGED <<Finished, Active, History>>
  <1>p. Threads /\ Numbered
    BY DEF Inductive
  <1>t. DocumentsTyped /\ WorkersTyped /\ mem.tasks \in [Tasks -> TaskState]
    BY DEF TypeOK, DocumentsTyped, StateDocument
  <1>1. /\ mainPc = "collect" /\ workerPc[t] = "done"
        /\ attemptInRun' = [attemptInRun EXCEPT ![t] = 0]
    BY <1>p DEF Collect, Leave, Threads
  <1>2. History' = History
    <2>1. \A u \in Tasks : ~StartAttempt(u)
      BY <1>1, <1>t DEF StartAttempt, Go, Collect, Leave, WorkersTyped, WorkerPc,
         workerFrame, loopVars, mainVars
    <2> QED
      BY <2>1, LengthsKept
  <1>3. Active' = Active \ {t}
    BY <1>1, <1>t DEF Active, WorkersTyped
  <1>4. disk'.tasks = [mem.tasks EXCEPT ![t] = result[t]]
    BY <1>t, CollectWrites
  <1>5. \A u \in Tasks \ {t} : u \in Finished' <=> u \in Finished
    BY <1>1, <1>4, <1>t, SuccessesAgree DEF Finished
  <1>6. t \notin Finished
    <2>1. t \in futures /\ mem.tasks[t] \notin TerminalSuccess
      BY <1>1, <1>p DEF Threads, Inductive, Ordered, Up
    <2> QED
      BY <1>1, <2>1, SuccessesAgree DEF Finished
  <1>7. Finished \subseteq Tasks /\ Finished' \subseteq Tasks
    BY DEF Finished
  <1>8. CASE attemptInRun[t] > 0
    <2>1. t \in Active
      BY <1>8 DEF Active
    <2>2. Finished' \in {Finished, Finished \cup {t}}
      <3>1. CASE t \in Finished'
        BY <3>1, <1>5, <1>7
      <3>2. CASE t \notin Finished'
        BY <3>2, <1>5, <1>6, <1>7
      <3> QED
        BY <3>1, <3>2
    <2> QED
      BY <2>1, <2>2, <1>2, <1>3 DEF Progress!Settle
  <1>9. CASE ~(attemptInRun[t] > 0)
    <2>1. attemptInRun[t] = 0
      BY <1>9, <1>t DEF WorkersTyped
    <2>2. result[t] \notin TerminalSuccess
      BY <2>1, <1>1, <1>p DEF Numbered, NumberedAt
    <2>3. Finished' = Finished
      BY <2>2, <1>4, <1>5, <1>6, <1>7, <1>t DEF Finished
    <2>4. Active' = Active
      BY <1>3, <1>9 DEF Active
    <2> QED
      BY <2>3, <2>4, <1>2
  <1> QED
    BY <1>8, <1>9

\* Every behaviour of the scheduler is a behaviour of DurableProgress.
THEOREM ProgressImplemented == Spec => ImplementsDurableProgress
  <1>1. Init => Progress!Init
    <2> SUFFICES ASSUME Init PROVE Progress!Init
      OBVIOUS
    <2>1. Finished = {}
      BY DEF Init, InitialState, Finished, TerminalSuccess
    <2>2. Active = {}
      BY DEF Init, Idle, Active
    <2>3. History = [t \in Tasks |-> 0]
      BY EmptySeq DEF Init, InitialState, History
    <2> QED
      BY <2>1, <2>2, <2>3 DEF Progress!Init
  <1>2. ASSUME TypeOK, Inductive, [Next]_vars
        PROVE  Progress!Next \/ UNCHANGED <<Finished, Active, History>>
    <2> USE <1>2
    <2>1. ASSUME NEW t \in Tasks, StartAttempt(t) PROVE Progress!Next
      BY <2>1, StartIsAttempt DEF Progress!Next
    <2>2. ASSUME NEW t \in Tasks, Collect(t)
          PROVE  Progress!Next \/ UNCHANGED <<Finished, Active, History>>
      BY <2>2, CollectIsSettle DEF Progress!Next
    <2>3. CASE \A t \in Tasks : ~Collect(t) /\ ~StartAttempt(t)
      <3>1. Finished' = Finished /\ History' = History
        BY <2>3, FinishedKept, LengthsKept
      <3>2. CASE ProcessEnds
        <4>1. Active' = {}
          BY <3>2 DEF ProcessEnds, Active
        <4> QED
          BY <3>1, <4>1 DEF Progress!Next, Progress!Abandon
      <3>3. CASE attemptInRun' = attemptInRun
        BY <3>1, <3>3 DEF Active
      <3> QED
        BY <2>3, <3>2, <3>3, WhoCounts
    <2> QED
      BY <2>1, <2>2, <2>3
  <1>3. TypeOK /\ Inductive /\ [Next]_vars
          => [Progress!Next]_<<Finished, Active, History>>
    BY <1>2
  <1> QED
    BY <1>1, <1>3, InductiveHolds, PTL DEF Spec, ImplementsDurableProgress,
       Progress!Spec
=============================================================================
