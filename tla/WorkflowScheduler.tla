------------------------- MODULE WorkflowScheduler -------------------------
(***************************************************************************)
(* The foreground scheduler of `workflow run` and `workflow resume`        *)
(* (scheduler.py): one main thread, one worker thread per submitted task,  *)
(* the state document they share in memory and persist, and another        *)
(* process that runs `workflow cancel`.  The scheduler may be killed at    *)
(* any step; what it persisted survives and a resume starts from it.       *)
(*                                                                         *)
(* The controller lock is not a variable: an action of a worker that       *)
(* mutates the state document is atomic, and is disabled while the main    *)
(* thread holds the lock (mainPc = "mark").  The lock of cancel_active is  *)
(* held by the main thread or for the one step of a worker: cancelling     *)
(* says whether it is.                                                     *)
(***************************************************************************)
EXTENDS WorkflowGraph

CONSTANTS
  Outcomes,        \* the attempt outcomes a finished shim process may yield
  MaxCrashes,      \* bound: how often the scheduler is killed
  MaxResumes,      \* bound: how often the workflow is resumed
  MaxCancels,      \* bound: invocations of `workflow cancel`
  MaxInterrupts    \* bound: Ctrl+C pressed at the scheduler's terminal

ASSUME OutcomesAssumption == Outcomes \subseteq ShimOutcome
ASSUME BoundsAssumption ==
  /\ MaxCrashes \in Nat /\ MaxResumes \in Nat
  /\ MaxCancels \in Nat /\ MaxInterrupts \in Nat

VARIABLES
  disk,             \* state.json
  mem,              \* controller.state of the scheduler process
  mainPc,           \* where the main thread is; "down": no process
  runnerLock,       \* runner.lock: "free", "scheduler" or "probe"
  cancelEvent,      \* the threading.Event the workers share
  futures,          \* submitted tasks whose result is not collected yet
  completed,        \* the batch that wait() returned
  providerActive,   \* submitted tasks per provider
  failureTriggered,
  cancelling,       \* cancel_active on the main thread: "no", "holding" its
                    \* lock, or "stuck": waiting for a lock it holds itself
  workerPc,         \* where each task's worker thread is; "idle": none
  firstAttempt,
  attemptInRun,
  outcome,          \* what the runner returned for the current attempt
  result,           \* what the worker returned to the main thread
  interrupted,      \* the task's live shim process got SIGINT
  clientPc,         \* where `workflow cancel` is
  clientActive,     \* what its probe found
  clientTarget,     \* the process it will signal, 0 if none
  launches,         \* history: attempt numbers given to the runner, per task
  asked,            \* history: cancellation requested since this process began
  spent             \* how much of each bound is used

loopVars   == <<futures, completed, providerActive, failureTriggered>>
mainVars   == <<loopVars, cancelling>>
workerVars == <<workerPc, firstAttempt, attemptInRun, outcome, result>>
clientVars == <<clientPc, clientActive, clientTarget>>
ghostVars  == <<launches, asked, spent>>
vars == <<disk, mem, mainPc, runnerLock, cancelEvent, mainVars, workerVars,
          interrupted, clientVars, ghostVars>>

WorkerPc == {"idle", "queued", "starting", "started", "launching", "running",
             "returned", "verifying", "backoff", "done"}

\* The main thread is between the installation of its signal handlers and
\* their removal.
Handling == {"initialize", "poll", "cancel", "mark", "submit", "wait",
             "collect", "finalize"}
MainPc == Handling \cup {"down", "loaded", "acquire", "release", "raised"}

NoOutcome      == [status |-> "failed",    exit |-> 1,   transport |-> FALSE]
NotLaunched    == [status |-> "failed",    exit |-> 127, transport |-> TRUE]
CancelledEarly == [status |-> "cancelled", exit |-> 130, transport |-> FALSE]

Process  == spent.resumes + 1     \* the number of the current process
LockFree == mainPc # "mark"       \* the controller lock is not held by main

\* Variant with a mistake: what is in state.json is not looked at.
PersistWithoutMerge(s) == mem' = s /\ disk' = s

\* Variant with a mistake: the document is not written.
PersistInMemoryOnly(s) == mem' = s /\ UNCHANGED disk

(***************************************************************************)
(* _StateController.write under the state lock: the whole document in      *)
(* memory replaces the persisted one, except that a cancellation recorded  *)
(* there is taken over first.                                              *)
(***************************************************************************)
Persist(s) ==
  LET merged == [s EXCEPT !.cancellationRequested =
                            @ \/ disk.cancellationRequested]
  IN  mem' = merged /\ disk' = merged

(***************************************************************************)
(* request_cancel, as the handler of SIGINT and SIGTERM: it runs on the    *)
(* main thread, between any two of its steps.  cancel_active begins with a *)
(* lock that is not reentrant: a handler that runs while the main thread   *)
(* holds it waits for ever.                                                *)
(***************************************************************************)
RequestCancel ==
  /\ cancelEvent' = TRUE
  /\ cancelling' = IF cancelling = "no" THEN "holding" ELSE "stuck"

\* SIGINT to every shim process.
SignalShims ==
  interrupted' = [t \in Tasks |-> interrupted[t] \/ workerPc[t] = "running"]

\* Nobody holds the lock that guards the registered shim processes.
ShimsFree == cancelling = "no"

\* The worker thread of t is gone, and its local variables with it.
Leave(t) ==
  /\ workerPc' = [workerPc EXCEPT ![t] = "idle"]
  /\ firstAttempt' = [firstAttempt EXCEPT ![t] = 0]
  /\ attemptInRun' = [attemptInRun EXCEPT ![t] = 0]
  /\ outcome' = [outcome EXCEPT ![t] = NoOutcome]
  /\ result' = [result EXCEPT ![t] = "failed"]

ActiveOf(p, set) == {t \in set : Provider[t] = p}

\* A process that has just begun has no worker and remembers nothing.
Idle ==
  /\ cancelEvent = FALSE
  /\ futures = {} /\ completed = {} /\ failureTriggered = FALSE
  /\ cancelling = "no"
  /\ providerActive = [p \in Providers |-> 0]
  /\ workerPc = [t \in Tasks |-> "idle"]
  /\ firstAttempt = [t \in Tasks |-> 0]
  /\ attemptInRun = [t \in Tasks |-> 0]
  /\ outcome = [t \in Tasks |-> NoOutcome]
  /\ result = [t \in Tasks |-> "failed"]
  /\ interrupted = [t \in Tasks |-> FALSE]

(***************************************************************************)
(* run_workflow has written the initial document and is about to take the  *)
(* lease.                                                                  *)
(***************************************************************************)
Init ==
  /\ disk = InitialState /\ mem = InitialState
  /\ mainPc = "acquire" /\ runnerLock = "free"
  /\ Idle
  /\ clientPc = "idle" /\ clientActive = FALSE /\ clientTarget = 0
  /\ launches = [t \in Tasks |-> << >>]
  /\ asked = FALSE
  /\ spent = [crashes |-> 0, resumes |-> 0, cancels |-> 0, interrupts |-> 0]

-----------------------------------------------------------------------------
(* The main thread.                                                        *)

\* The process ends or is killed: its memory and its lock are gone.
ProcessEnds ==
  /\ mainPc' = "down"
  /\ mem' = disk
  /\ cancelEvent' = FALSE
  /\ futures' = {} /\ completed' = {} /\ failureTriggered' = FALSE
  /\ cancelling' = "no"
  /\ providerActive' = [p \in Providers |-> 0]
  /\ workerPc' = [t \in Tasks |-> "idle"]
  /\ firstAttempt' = [t \in Tasks |-> 0]
  /\ attemptInRun' = [t \in Tasks |-> 0]
  /\ outcome' = [t \in Tasks |-> NoOutcome]
  /\ result' = [t \in Tasks |-> "failed"]
  /\ interrupted' = [t \in Tasks |-> FALSE]
  /\ runnerLock' = IF runnerLock = "scheduler" THEN "free" ELSE runnerLock
  /\ asked' = FALSE
  /\ UNCHANGED <<disk, clientVars, launches>>

\* resume_workflow up to its probe: the document is read and normalised, and
\* the resume is refused (no step) while runner.lock is held.
ResumeLoad ==
  /\ mainPc = "down" /\ runnerLock = "free"
  /\ spent.resumes < MaxResumes
  /\ spent' = [spent EXCEPT !.resumes = @ + 1]
  /\ mem' = ResumedState(disk)
  /\ mainPc' = "loaded"
  /\ UNCHANGED <<disk, runnerLock, cancelEvent, mainVars, workerVars,
                 interrupted, clientVars, launches, asked>>

ResumeWrite ==
  /\ mainPc = "loaded"
  /\ Persist(mem)
  /\ mainPc' = "acquire"
  /\ UNCHANGED <<runnerLock, cancelEvent, mainVars, workerVars, interrupted,
                 clientVars, ghostVars>>

AcquireLease ==
  /\ mainPc = "acquire" /\ runnerLock = "free"
  /\ runnerLock' = "scheduler"
  /\ mainPc' = "initialize"
  /\ UNCHANGED <<disk, mem, cancelEvent, mainVars, workerVars, interrupted,
                 clientVars, ghostVars>>

\* "workflow already has an active scheduler": a probe holds the lock.
LeaseRefused ==
  /\ mainPc = "acquire" /\ runnerLock # "free"
  /\ ProcessEnds
  /\ UNCHANGED spent

Initialize ==
  /\ mainPc = "initialize"
  /\ Persist([mem EXCEPT !.status = "running", !.runnerPid = Process,
                         !.cancellationRequested = FALSE])
  /\ mainPc' = "poll"
  /\ UNCHANGED <<runnerLock, cancelEvent, mainVars, workerVars, interrupted,
                 clientVars, ghostVars>>

\* The head of the loop: a cancellation found in the document is carried out.
Poll ==
  /\ mainPc = "poll"
  /\ IF mem.cancellationRequested THEN RequestCancel /\ mainPc' = "cancel"
     ELSE mainPc' = "mark" /\ UNCHANGED <<cancelEvent, cancelling>>
  /\ UNCHANGED <<disk, mem, runnerLock, loopVars, workerVars, interrupted,
                 clientVars, ghostVars>>

\* The rest of cancel_active, whoever called it.
CancelActive ==
  /\ cancelling = "holding"
  /\ SignalShims /\ cancelling' = "no"
  /\ mainPc' = IF mainPc = "cancel" THEN "mark" ELSE mainPc
  /\ UNCHANGED <<disk, mem, runnerLock, cancelEvent, loopVars, workerVars,
                 clientVars, ghostVars>>

(***************************************************************************)
(* _mark_dependency_states, under the controller lock, one visited task    *)
(* per step; it goes on until no visit changes anything.  The order is     *)
(* that of the document, which may be any.                                 *)
(***************************************************************************)
Markable(t) ==
  /\ mem.tasks[t] \in {"pending", "ready"}
  /\ MarkedState(mem.tasks, t, failureTriggered) # mem.tasks[t]

MarkTask(t) ==
  /\ mainPc = "mark"
  /\ Markable(t)
  /\ mem' = [mem EXCEPT !.tasks[t] =
                          MarkedState(mem.tasks, t, failureTriggered)]
  /\ UNCHANGED <<disk, mainPc, runnerLock, cancelEvent, mainVars, workerVars,
                 interrupted, clientVars, ghostVars>>

EndMark ==
  /\ mainPc = "mark"
  /\ \A t \in Tasks : ~Markable(t)
  /\ mainPc' = "submit"
  /\ UNCHANGED <<disk, mem, runnerLock, cancelEvent, mainVars, workerVars,
                 interrupted, clientVars, ghostVars>>

\* Variant with a mistake: the limit per provider is not looked at.
SubmittableToAnyProvider(t) ==
  /\ mem.tasks[t] = "ready" /\ t \notin futures
  /\ ~cancelEvent
  /\ Cardinality(futures) < MaxConcurrency

\* The ready list: only the main thread adds to futures and no worker touches
\* a task outside futures, so reading it again here is reading the list.
Submittable(t) ==
  /\ mem.tasks[t] = "ready" /\ t \notin futures
  /\ ~cancelEvent
  /\ Cardinality(futures) < MaxConcurrency
  /\ providerActive[Provider[t]] < ProviderLimit(Provider[t])

Submit(t) ==
  /\ mainPc = "submit"
  /\ Submittable(t)
  /\ futures' = futures \cup {t}
  /\ providerActive' = [providerActive EXCEPT ![Provider[t]] = @ + 1]
  /\ workerPc' = [workerPc EXCEPT ![t] = "queued"]
  /\ UNCHANGED <<disk, mem, mainPc, runnerLock, cancelEvent, completed,
                 failureTriggered, cancelling, firstAttempt, attemptInRun,
                 outcome, result, interrupted, clientVars, ghostVars>>

Unfinished == {t \in Tasks : mem.tasks[t] \notin TerminalStates}

\* Variant with a mistake: a cancelled run does not wait for its workers.
AfterSubmitLeavingWorkers ==
  IF cancelEvent THEN "finalize" ELSE IF futures # {} THEN "wait"
  ELSE IF Unfinished = {} THEN "finalize" ELSE "raised"

\* Variant with a mistake: a cancelled run goes on until all tasks end.
AfterSubmitForgettingCancel ==
  IF futures # {} THEN "wait" ELSE IF Unfinished = {} THEN "finalize" ELSE "poll"

\* "raised" is the error "workflow scheduler made no progress".
AfterSubmit ==
  IF futures # {} THEN "wait"
  ELSE IF Unfinished = {} \/ cancelEvent THEN "finalize"
  ELSE "raised"

EndSubmit ==
  /\ mainPc = "submit"
  /\ \A t \in Tasks : ~Submittable(t)
  /\ mainPc' = AfterSubmit
  /\ UNCHANGED <<disk, mem, runnerLock, cancelEvent, mainVars, workerVars,
                 interrupted, clientVars, ghostVars>>

\* wait(..., FIRST_COMPLETED) returns every future that is done by then.
Wait ==
  /\ mainPc = "wait"
  /\ \E t \in futures : workerPc[t] = "done"
  /\ completed' = {t \in futures : workerPc[t] = "done"}
  /\ mainPc' = "collect"
  /\ UNCHANGED <<disk, mem, runnerLock, cancelEvent, futures, providerActive,
                 failureTriggered, cancelling, workerVars, interrupted,
                 clientVars, ghostVars>>

\* Variant with a mistake: the failure policy is not looked at.
TriggeredByAnyPolicy(r) == failureTriggered \/ r \in RunFailure

TriggeredBy(r) ==
  IF r \in RunFailure THEN FailurePolicy = "fail-fast" ELSE failureTriggered

Collect(t) ==
  /\ mainPc = "collect" /\ t \in completed
  /\ completed' = completed \ {t}
  /\ futures' = futures \ {t}
  /\ providerActive' = [providerActive EXCEPT ![Provider[t]] = @ - 1]
  /\ Persist([mem EXCEPT !.tasks[t] = result[t]])
  /\ failureTriggered' = TriggeredBy(result[t])
  /\ Leave(t)
  /\ UNCHANGED <<mainPc, runnerLock, cancelEvent, cancelling, interrupted,
                 clientVars, ghostVars>>

EndCollect ==
  /\ mainPc = "collect" /\ completed = {}
  /\ cancelling' = IF cancelEvent THEN "holding" ELSE cancelling
  /\ mainPc' = "poll"
  /\ UNCHANGED <<disk, mem, runnerLock, cancelEvent, loopVars, workerVars,
                 interrupted, clientVars, ghostVars>>

Finalize ==
  /\ mainPc = "finalize"
  /\ LET tasks == [t \in Tasks |->
                     IF cancelEvent /\ mem.tasks[t] \notin TerminalStates
                     THEN "cancelled" ELSE mem.tasks[t]]
         overall == IF cancelEvent THEN "cancelled"
                    ELSE IF \A t \in Tasks : tasks[t] \in TerminalSuccess
                    THEN "succeeded" ELSE "failed"
     IN  Persist([mem EXCEPT !.tasks = tasks, !.status = overall,
                             !.runnerPid = 0])
  /\ mainPc' = "release"
  /\ UNCHANGED <<runnerLock, cancelEvent, mainVars, workerVars, interrupted,
                 clientVars, ghostVars>>

\* The finally block: handlers restored, lease released, process exits.
ReleaseLease ==
  /\ mainPc \in {"release", "raised"}
  /\ ProcessEnds
  /\ UNCHANGED spent

\* A write of the main thread fails while no worker runs: the exception ends
\* the process, and the document stays as it was.
WriteFails ==
  /\ mainPc \in {"loaded", "initialize", "finalize"}
  /\ ProcessEnds
  /\ UNCHANGED spent

Main ==
  \/ CancelActive
  \/ /\ cancelling = "no"
     /\ \/ ResumeWrite \/ AcquireLease \/ LeaseRefused \/ Initialize
        \/ Poll \/ \E t \in Tasks : MarkTask(t)
        \/ EndMark \/ \E t \in Tasks : Submit(t)
        \/ EndSubmit \/ Wait \/ \E t \in Tasks : Collect(t)
        \/ EndCollect \/ Finalize \/ WriteFails \/ ReleaseLease

-----------------------------------------------------------------------------
(* The worker thread of task t, _execute_task.                             *)

workerFrame == <<mainPc, runnerLock, mainVars, clientVars, asked, spent>>

\* The worker goes from one place to another.
Go(t, from, to) == workerPc[t] = from /\ workerPc' = [workerPc EXCEPT ![t] = to]

\* The worker returns r to the main thread; an exception counts as "failed".
Return(t, from, r) == Go(t, from, "done") /\ result' = [result EXCEPT ![t] = r]

\* The prompt is composed, and the numbering of this run's attempts begins.
BeginTask(t) ==
  /\ Go(t, "queued", "starting")
  /\ LockFree
  /\ firstAttempt' = [firstAttempt EXCEPT ![t] = Len(mem.attempts[t]) + 1]
  /\ UNCHANGED <<workerFrame, disk, mem, cancelEvent, attemptInRun, outcome,
                 result, interrupted, launches>>

\* _compose_prompt raises: a snapshot or a dependency's artifact is missing.
PromptFails(t) ==
  /\ Return(t, "queued", "failed")
  /\ UNCHANGED <<workerFrame, disk, mem, cancelEvent, firstAttempt,
                 attemptInRun, outcome, interrupted, launches>>

StartAttempt(t) ==
  /\ Go(t, "starting", "started")
  /\ LockFree
  /\ attemptInRun' = [attemptInRun EXCEPT ![t] = @ + 1]
  /\ Persist([mem EXCEPT
                !.tasks[t] = "running",
                !.attempts[t] =
                   Append(@, [number |-> firstAttempt[t] + attemptInRun[t],
                              status |-> "running"])])
  /\ UNCHANGED <<workerFrame, cancelEvent, firstAttempt, outcome, result,
                 interrupted, launches>>

CheckCancel(t) ==
  /\ IF cancelEvent
     THEN /\ Go(t, "started", "returned")
          /\ outcome' = [outcome EXCEPT ![t] = CancelledEarly]
     ELSE Go(t, "started", "launching") /\ UNCHANGED outcome
  /\ UNCHANGED <<workerFrame, disk, mem, cancelEvent, firstAttempt,
                 attemptInRun, result, interrupted, launches>>

AttemptNumber(t) == firstAttempt[t] + attemptInRun[t] - 1

\* The runner is called: the directory of this attempt is created and filled.
HandOver(t) ==
  launches' = [launches EXCEPT ![t] = Append(@, AttemptNumber(t))]

\* Popen succeeds and the process is registered for cancel_active.
Launch(t) ==
  /\ Go(t, "launching", "running") /\ ShimsFree
  /\ HandOver(t)
  /\ UNCHANGED <<workerFrame, disk, mem, cancelEvent, firstAttempt,
                 attemptInRun, outcome, result, interrupted>>

LaunchFails(t) ==
  /\ Go(t, "launching", "returned")
  /\ HandOver(t)
  /\ outcome' = [outcome EXCEPT ![t] = NotLaunched]
  /\ UNCHANGED <<workerFrame, disk, mem, cancelEvent, firstAttempt,
                 attemptInRun, result, interrupted>>

\* The runner raises, for a provider it has no command for among others: the
\* attempt stays recorded as running.
RunnerRaises(t) ==
  /\ Return(t, "launching", "failed")
  /\ HandOver(t)
  /\ UNCHANGED <<workerFrame, disk, mem, cancelEvent, firstAttempt,
                 attemptInRun, outcome, interrupted>>

\* The shim process ends and is no longer registered.
ShimExits(t) ==
  /\ Go(t, "running", "returned") /\ ShimsFree
  /\ \E o \in Outcomes :
       /\ CancellationExplained(o, interrupted[t])
       /\ outcome' = [outcome EXCEPT ![t] = o]
  /\ interrupted' = [interrupted EXCEPT ![t] = FALSE]
  /\ UNCHANGED <<workerFrame, disk, mem, cancelEvent, firstAttempt,
                 attemptInRun, result, launches>>

FinishAttempt(t) ==
  /\ workerPc[t] = "returned" /\ LockFree
  /\ LET o == outcome[t]
         done == o.status = "succeeded" /\ o.exit = 0
     IN  /\ Persist([mem EXCEPT
                       !.attempts[t][Len(mem.attempts[t])].status = o.status])
         /\ \/ /\ cancelEvent \/ o.status = "cancelled"
               /\ Return(t, "returned", "cancelled")
            \/ /\ ~cancelEvent /\ done
               /\ IF t \in Verify
                  THEN Go(t, "returned", "verifying") /\ UNCHANGED result
                  ELSE Return(t, "returned", "succeeded")
            \/ /\ ~cancelEvent /\ o.status # "cancelled" /\ ~done
               /\ IF ShouldRetry(t, o, attemptInRun[t])
                  THEN Go(t, "returned", "backoff") /\ UNCHANGED result
                  ELSE Return(t, "returned",
                              IF o.status = "timed_out" THEN "timed_out"
                                                        ELSE "failed")
  /\ outcome' = [outcome EXCEPT ![t] = NoOutcome]
  /\ UNCHANGED <<workerFrame, cancelEvent, firstAttempt, attemptInRun,
                 interrupted, launches>>

\* _run_verification, which no cancellation interrupts; it raises when it
\* cannot write its record.
VerifyTask(t) ==
  /\ \E r \in {"verified", "verification_failed", "failed"} :
       Return(t, "verifying", r)
  /\ UNCHANGED <<workerFrame, disk, mem, cancelEvent, firstAttempt,
                 attemptInRun, outcome, interrupted, launches>>

BackoffElapses(t) ==
  /\ ~cancelEvent
  /\ Go(t, "backoff", "starting")
  /\ UNCHANGED <<workerFrame, disk, mem, cancelEvent, firstAttempt,
                 attemptInRun, outcome, result, interrupted, launches>>

BackoffCancelled(t) ==
  /\ cancelEvent
  /\ Return(t, "backoff", "cancelled")
  /\ UNCHANGED <<workerFrame, disk, mem, cancelEvent, firstAttempt,
                 attemptInRun, outcome, interrupted, launches>>

Worker(t) ==
  \/ BeginTask(t) \/ PromptFails(t) \/ StartAttempt(t) \/ CheckCancel(t)
  \/ Launch(t) \/ LaunchFails(t) \/ RunnerRaises(t) \/ ShimExits(t)
  \/ FinishAttempt(t) \/ VerifyTask(t)
  \/ BackoffElapses(t) \/ BackoffCancelled(t)

-----------------------------------------------------------------------------
(* Another process runs cancel_workflow, and the user presses Ctrl+C.      *)

clientFrame == <<mem, mainPc, loopVars, workerVars, launches>>

\* The probe of _runner_active takes the lease when it is free.
CancelProbe ==
  /\ clientPc = "idle" /\ spent.cancels < MaxCancels
  /\ spent' = [spent EXCEPT !.cancels = @ + 1]
  /\ IF runnerLock = "free"
     THEN /\ runnerLock' = "probe" /\ clientPc' = "probing"
          /\ clientActive' = FALSE
     ELSE /\ clientPc' = "probed" /\ clientActive' = TRUE
          /\ UNCHANGED runnerLock
  /\ UNCHANGED <<clientFrame, disk, cancelEvent, cancelling, interrupted,
                 clientTarget, asked>>

CancelProbeRelease ==
  /\ clientPc = "probing"
  /\ runnerLock' = "free"
  /\ clientPc' = "probed"
  /\ UNCHANGED <<clientFrame, disk, cancelEvent, cancelling, interrupted,
                 clientActive, clientTarget, asked, spent>>

\* Under the state lock.  A finished workflow is left alone.
CancelFlag ==
  /\ clientPc = "probed"
  /\ IF disk.status \in TerminalWorkflowStates /\ ~clientActive
     THEN clientPc' = "idle" /\ UNCHANGED <<disk, clientTarget, asked>>
     ELSE /\ disk' = [disk EXCEPT !.cancellationRequested = TRUE]
          /\ clientTarget' = IF clientActive THEN disk.runnerPid ELSE 0
          /\ clientPc' = IF clientTarget' = 0 THEN "idle" ELSE "signalling"
          /\ asked' = (mainPc # "down")
  /\ clientActive' = FALSE
  /\ UNCHANGED <<clientFrame, runnerLock, cancelEvent, cancelling, interrupted,
                 spent>>

\* SIGINT to the recorded process, if it is still there to handle it.
CancelSignal ==
  /\ clientPc = "signalling"
  /\ IF clientTarget = Process /\ mainPc \in Handling
     THEN RequestCancel ELSE UNCHANGED <<cancelEvent, cancelling>>
  /\ clientPc' = "idle" /\ clientTarget' = 0
  /\ UNCHANGED <<clientFrame, disk, runnerLock, interrupted, clientActive,
                 asked, spent>>

Client == CancelProbeRelease \/ CancelFlag \/ CancelSignal

\* Ctrl+C reaches the scheduler and the shim processes in its group.
Interrupt ==
  /\ mainPc \in Handling /\ spent.interrupts < MaxInterrupts
  /\ spent' = [spent EXCEPT !.interrupts = @ + 1]
  /\ RequestCancel /\ SignalShims
  /\ asked' = TRUE
  /\ UNCHANGED <<clientFrame, disk, runnerLock, clientVars>>

Crash ==
  /\ mainPc # "down" /\ spent.crashes < MaxCrashes
  /\ spent' = [spent EXCEPT !.crashes = @ + 1]
  /\ ProcessEnds

-----------------------------------------------------------------------------
Next ==
  \/ Main \/ ResumeLoad
  \/ \E t \in Tasks : Worker(t)
  \/ CancelProbe \/ Client \/ Interrupt \/ Crash

Spec == Init /\ [][Next]_vars

(***************************************************************************)
(* Threads that can take a step eventually do; a shim process ends, since  *)
(* it enforces its own timeout; a client that has begun finishes.  Nobody  *)
(* has to resume, cancel, interrupt or kill.                               *)
(***************************************************************************)
Fairness ==
  /\ WF_vars(Main)
  /\ WF_vars(Client)
  /\ \A t \in Tasks : WF_vars(Worker(t))

FairSpec == Spec /\ Fairness

-----------------------------------------------------------------------------
(* Safety.                                                                 *)

DocumentsTyped == disk \in StateDocument /\ mem \in StateDocument

MainTyped ==
  /\ mainPc \in MainPc /\ runnerLock \in {"free", "scheduler", "probe"}
  /\ cancelEvent \in BOOLEAN /\ failureTriggered \in BOOLEAN
  /\ cancelling \in {"no", "holding", "stuck"}
  /\ futures \subseteq Tasks /\ completed \subseteq Tasks
  /\ providerActive \in [Providers -> Int]

WorkersTyped ==
  /\ workerPc \in [Tasks -> WorkerPc]
  /\ firstAttempt \in [Tasks -> Nat] /\ attemptInRun \in [Tasks -> Nat]
  /\ outcome \in [Tasks -> AttemptOutcome]
  /\ result \in [Tasks -> TerminalSuccess \cup RunFailure]
  /\ interrupted \in [Tasks -> BOOLEAN]

ClientTyped ==
  /\ clientPc \in {"idle", "probing", "probed", "signalling"}
  /\ clientActive \in BOOLEAN /\ clientTarget \in Nat

GhostsTyped ==
  /\ launches \in [Tasks -> Seq(Int)] /\ asked \in BOOLEAN
  /\ spent \in [crashes : Nat, resumes : Nat, cancels : Nat, interrupts : Nat]

\* The variables have their types.
TypeOK ==
  DocumentsTyped /\ MainTyped /\ WorkersTyped /\ ClientTyped /\ GhostsTyped

Live == {t \in Tasks : workerPc[t] \notin {"idle", "done"}}

\* At no time do more tasks execute than maxConcurrency allows, nor more of
\* one provider than its own limit: the counters of the submit loop do not
\* drift from the worker threads they stand for.
CapacityRespected ==
  /\ Cardinality(Live) <= MaxConcurrency
  /\ \A p \in Providers : Cardinality(ActiveOf(p, Live)) <= ProviderLimit(p)

\* A task is executed only while every dependency is on record as succeeded
\* or verified, in whatever order failures, marks, crashes and resumes came.
DependenciesFirst ==
  \A t \in Live : \A d \in DependsOn[t] : disk.tasks[d] \in TerminalSuccess

\* Write-ahead: before a shim process may exist for an attempt, that attempt
\* is persisted as the running one, so that a crash cannot hide it.
WriteAhead ==
  \A t \in Tasks : workerPc[t] \in {"launching", "running"} =>
    LET h == disk.attempts[t]
    IN  /\ disk.tasks[t] = "running"
        /\ h # << >>
        /\ h[Len(h)] = [number |-> AttemptNumber(t), status |-> "running"]

\* No attempt directory is used twice, across retries, crashes and resumes.
AttemptDirectoriesUnique ==
  \A t \in Tasks : \A i, j \in DOMAIN launches[t] :
    i < j => launches[t][i] < launches[t][j]

\* The persisted document lags behind memory only in marks that the next
\* write carries: no start and no result of a task is ever unpersisted.
OnlyMarksUnpersisted ==
  mainPc # "loaded" => \A t \in Tasks :
    /\ disk.attempts[t] = mem.attempts[t]
    /\ disk.tasks[t] # mem.tasks[t] =>
         /\ disk.tasks[t] \in {"pending", "ready"}
         /\ mem.tasks[t] \in {"ready", "blocked", "skipped"}

\* A final status on record is true of the tasks on record, and no worker is
\* left behind it: all tasks are terminal, "succeeded" means all succeeded,
\* "failed" means one did not.
FinalStatusTruthful ==
  disk.status \in TerminalWorkflowStates =>
    /\ \A t \in Tasks : disk.tasks[t] \in TerminalStates
    /\ \A t \in Tasks : workerPc[t] = "idle"
    /\ disk.status = "succeeded" =>
         \A t \in Tasks : disk.tasks[t] \in TerminalSuccess
    /\ disk.status = "failed" =>
         \E t \in Tasks : disk.tasks[t] \in TerminalFailure

\* "workflow scheduler made no progress" is never raised: on an acyclic graph
\* an empty executor means that everything is finished.
ProgressAlwaysMade == mainPc # "raised"

\* With the policy "continue" nothing is skipped, and a finished run blocked
\* exactly the tasks below a failure.
ContinueIsolatesFailures ==
  FailurePolicy = "continue" /\ disk.status \in {"succeeded", "failed"} =>
    \A t \in Tasks :
      /\ disk.tasks[t] # "skipped"
      /\ disk.tasks[t] = "blocked" <=>
           /\ \E d \in DependsOn[t] : disk.tasks[d] \in TerminalFailure
           /\ disk.tasks[t] \notin RunFailure

-----------------------------------------------------------------------------
(* What a step may never do.                                               *)

\* A task on record as succeeded or verified stays so and is never handed to
\* the runner again, by this process or a resumed one.
SuccessIsFinal ==
  [][\A t \in Tasks : disk.tasks[t] \in TerminalSuccess =>
       disk'.tasks[t] = disk.tasks[t] /\ launches'[t] = launches[t]]_vars

\* The attempt history on record only grows; of an earlier attempt only the
\* last may change, and only from "running".
HistoryIntact ==
  [][\A t \in Tasks :
       LET old == disk.attempts[t]
           new == disk'.attempts[t]
       IN  /\ Len(old) <= Len(new)
           /\ \A i \in 1..Len(old) : new[i] # old[i] =>
                /\ i = Len(old) /\ old[i].status = "running"
                /\ new[i].number = old[i].number]_vars

\* The scheduler rewrites the whole document and still never loses a
\* cancellation that another process recorded in it.
CancellationNotLost ==
  [][disk.cancellationRequested => disk'.cancellationRequested]_vars

\* Once a failure was collected under fail-fast, nothing is submitted.
FailFastStopsSubmission == [][failureTriggered => futures' \subseteq futures]_vars

-----------------------------------------------------------------------------
(* What the documentation and the messages say, and the code does not do.  *)

\* docs/workflows.md: "Incomplete tasks receive new attempts."  So a run that
\* nobody asked to cancel leaves no task cancelled.
NothingCancelledUnasked ==
  mainPc = "release" /\ ~asked =>
    \A t \in Tasks : disk.tasks[t] # "cancelled"

-----------------------------------------------------------------------------
(* Liveness, under FairSpec.                                               *)

\* A scheduler process ends: retries, backoffs and cancellation never leave
\* the main thread waiting for a worker that will not report.  Only a signal
\* that arrives while the main thread holds the lock of cancel_active can
\* keep it from ending.
Termination ==
  mainPc # "down" ~> (mainPc = "down" \/ cancelling = "stuck")
=============================================================================
