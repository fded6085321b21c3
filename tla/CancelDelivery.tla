--------------------------- MODULE CancelDelivery ---------------------------
(***************************************************************************)
(* How a cancellation gets to the shim processes: _ProductionRunner, whose *)
(* _lock guards the registered processes, the signal handler of            *)
(* _run_state_machine, which runs on the main thread between any two of    *)
(* its steps, and the worker threads that register and unregister.         *)
(* WorkflowScheduler knows of cancel_active only whether it holds _lock;   *)
(* here it is the three steps it consists of, for each call on the stack,  *)
(* and _lock, which is not reentrant, may be a worker's too.               *)
(*                                                                         *)
(* Left out are retries (another attempt of a task is like another task),  *)
(* dependencies and limits (any task may be submitted), and results.       *)
(***************************************************************************)
EXTENDS Naturals, Sequences, FiniteSets

CONSTANTS
  Tasks,        \* with one worker thread and one shim each
  Clients,      \* processes that run `workflow cancel`
  MaxPresses    \* bound on Ctrl+C at the terminal

ASSUME DeliveryAssumption ==
  Tasks \cap {"free", "main"} = {} /\ MaxPresses \in Nat

VARIABLES
  lock,         \* _lock: "free", "main" or the task of a worker thread
  calls,        \* calls of cancel_active on the stack of the main thread
  mainPc,
  futures,      \* submitted tasks whose result is not collected
  completed,    \* those of them that the last wait returned
  event,        \* cancel_event
  recorded,     \* the cancellation flag in state.json
  requested,    \* the flag in memory
  workerPc,
  shim,         \* the shim process of each task
  registered,   \* _active
  clientPc,
  signals,      \* SIGINT to the main thread so far
  presses

mainVars == <<mainPc, futures, completed>>
flags == <<event, recorded, requested>>
shims == <<shim, registered>>
outside == <<clientPc, signals, presses>>
vars == <<lock, calls, mainVars, flags, workerPc, shims, outside>>

\* A call is about to take _lock, holds it, or sends the signals.
Call == [at : {"enter", "copy", "send"}, targets : SUBSET Tasks]
NewCall == [at |-> "enter", targets |-> {}]

\* The handler is in place.
Handling == {"poll", "submit", "wait", "collect", "finalize"}
WorkerPc == {"idle", "queued", "started", "launching", "launched", "registering",
             "waiting", "returned", "unregistering", "finished", "done"}

Init ==
  /\ lock = "free" /\ calls = << >>
  /\ mainPc = "poll" /\ futures = {} /\ completed = {}
  /\ event = FALSE /\ recorded = FALSE /\ requested = FALSE
  /\ workerPc = [t \in Tasks |-> "idle"]
  /\ shim = [t \in Tasks |-> "none"]
  /\ registered = {}
  /\ clientPc = [c \in Clients |-> "idle"] /\ signals = 0 /\ presses = 0

Running(t) == shim[t] = "running"

-----------------------------------------------------------------------------
(* cancel_active, the last call on the stack.                              *)

Top == calls[Len(calls)]
At(place) == calls # << >> /\ Top.at = place
Becomes(call) == calls' = [calls EXCEPT ![Len(calls)] = call]

EnterLock ==
  /\ At("enter") /\ lock = "free"
  /\ lock' = "main"
  /\ Becomes([Top EXCEPT !.at = "copy"])
  /\ UNCHANGED <<mainVars, flags, workerPc, shims, outside>>

CopyActive ==
  /\ At("copy")
  /\ lock' = "free"
  /\ Becomes([at |-> "send", targets |-> registered])
  /\ UNCHANGED <<mainVars, flags, workerPc, shims, outside>>

\* What the signal does to a shim is the subject of ShimDispatch.
Send(t) ==
  /\ At("send") /\ t \in Top.targets
  /\ Becomes([Top EXCEPT !.targets = @ \ {t}])
  /\ UNCHANGED <<lock, mainVars, flags, workerPc, shims, outside>>

Returns == At("send") /\ Top.targets = {}

Return ==
  /\ Returns
  /\ calls' = SubSeq(calls, 1, Len(calls) - 1)
  /\ UNCHANGED <<lock, mainVars, flags, workerPc, shims, outside>>

CallStep == EnterLock \/ CopyActive \/ Return \/ \E t \in Tasks : Send(t)

-----------------------------------------------------------------------------
(* The loop of the main thread, while no call is on its stack.             *)

InLoop(from, to) == calls = << >> /\ mainPc = from /\ mainPc' = to

\* The head of the loop: a flag found in memory is carried out.
Poll ==
  /\ InLoop("poll", "submit")
  /\ event' = (event \/ requested)
  /\ calls' = IF requested THEN <<NewCall>> ELSE calls
  /\ UNCHANGED <<lock, futures, completed, recorded, requested, workerPc, shims, outside>>

Submit(t) ==
  /\ InLoop("submit", "submit")
  /\ ~event /\ workerPc[t] = "idle"
  /\ futures' = futures \cup {t}
  /\ workerPc' = [workerPc EXCEPT ![t] = "queued"]
  /\ UNCHANGED <<lock, calls, completed, flags, shims, outside>>

\* With nothing submitted the loop is over: all is done, or it is cancelled.
EndSubmit ==
  /\ \/ futures # {} /\ InLoop("submit", "wait")
     \/ /\ futures = {} /\ (event \/ \A t \in Tasks : workerPc[t] # "idle")
        /\ InLoop("submit", "finalize")
  /\ UNCHANGED <<lock, calls, futures, completed, flags, workerPc, shims, outside>>

Wait ==
  /\ InLoop("wait", "collect")
  /\ completed' = {t \in futures : workerPc[t] = "done"} /\ completed' # {}
  /\ UNCHANGED <<lock, calls, futures, flags, workerPc, shims, outside>>

\* A result is written, and a write takes over the flag of state.json.
Collect(t) ==
  /\ InLoop("collect", "collect")
  /\ t \in completed /\ completed' = completed \ {t}
  /\ futures' = futures \ {t}
  /\ requested' = (requested \/ recorded)
  /\ UNCHANGED <<lock, calls, event, recorded, workerPc, shims, outside>>

\* Variant with a mistake: the event is not looked at.
EndCollectCallingAnyway ==
  /\ InLoop("collect", "poll") /\ completed = {}
  /\ calls' = <<NewCall>>
  /\ UNCHANGED <<lock, futures, completed, flags, workerPc, shims, outside>>

EndCollect ==
  /\ InLoop("collect", "poll") /\ completed = {}
  /\ calls' = IF event THEN <<NewCall>> ELSE calls
  /\ UNCHANGED <<lock, futures, completed, flags, workerPc, shims, outside>>

\* The final status is written; handlers and lease are given back.
Finalize ==
  /\ InLoop("finalize", "ended")
  /\ UNCHANGED <<lock, calls, futures, completed, flags, workerPc, shims, outside>>

Main ==
  \/ CallStep \/ Poll \/ EndSubmit \/ Wait \/ EndCollect \/ Finalize
  \/ \E t \in Tasks : Submit(t) \/ Collect(t)

-----------------------------------------------------------------------------
(* A worker thread, from _execute_task through the runner.                 *)

Goes(t, from, to) == workerPc[t] = from /\ workerPc' = [workerPc EXCEPT ![t] = to]

loop == <<calls, mainVars, event, recorded>>

\* The attempt is put on record.
Start(t) ==
  /\ Goes(t, "queued", "started")
  /\ requested' = (requested \/ recorded)
  /\ UNCHANGED <<loop, lock, shims, outside>>

CheckCancel(t) ==
  /\ Goes(t, "started", IF event THEN "finished" ELSE "launching")
  /\ UNCHANGED <<loop, requested, lock, shims, outside>>

\* Popen; nothing is registered if it fails.
Launch(t) ==
  /\ \/ Goes(t, "launching", "launched") /\ shim' = [shim EXCEPT ![t] = "running"]
     \/ Goes(t, "launching", "finished") /\ UNCHANGED shim
  /\ UNCHANGED <<loop, requested, lock, registered, outside>>

LockToRegister(t) ==
  /\ Goes(t, "launched", "registering")
  /\ lock = "free" /\ lock' = t
  /\ UNCHANGED <<loop, requested, shims, outside>>

Register(t) ==
  /\ Goes(t, "registering", "waiting")
  /\ lock' = "free" /\ registered' = registered \cup {t}
  /\ UNCHANGED <<loop, requested, shim, outside>>

\* The shim ends, which process.wait() notices.
ShimExits(t) ==
  /\ Running(t) /\ shim' = [shim EXCEPT ![t] = "ended"]
  /\ UNCHANGED <<loop, requested, lock, workerPc, registered, outside>>

Reap(t) ==
  /\ Goes(t, "waiting", "returned") /\ ~Running(t)
  /\ UNCHANGED <<loop, requested, lock, shims, outside>>

LockToUnregister(t) ==
  /\ Goes(t, "returned", "unregistering")
  /\ lock = "free" /\ lock' = t
  /\ UNCHANGED <<loop, requested, shims, outside>>

\* Variant with a mistake: the lock is kept.
UnregisterKeepingLock(t) ==
  /\ Goes(t, "unregistering", "finished")
  /\ registered' = registered \ {t}
  /\ UNCHANGED <<loop, requested, lock, shim, outside>>

Unregister(t) ==
  /\ Goes(t, "unregistering", "finished")
  /\ lock' = "free" /\ registered' = registered \ {t}
  /\ UNCHANGED <<loop, requested, shim, outside>>

\* The outcome is put on record, and the thread returns.
Finish(t) ==
  /\ Goes(t, "finished", "done")
  /\ requested' = (requested \/ recorded)
  /\ UNCHANGED <<loop, lock, shims, outside>>

Worker(t) ==
  \/ Start(t) \/ CheckCancel(t) \/ Launch(t) \/ LockToRegister(t) \/ Register(t)
  \/ ShimExits(t) \/ Reap(t) \/ LockToUnregister(t) \/ Unregister(t) \/ Finish(t)

-----------------------------------------------------------------------------
(* Signals.                                                                *)

\* request_cancel, on top of whatever the main thread is at.
Handle ==
  /\ mainPc \in Handling
  /\ event' = TRUE
  /\ calls' = Append(calls, NewCall)
  /\ signals' = signals + 1
  /\ UNCHANGED <<lock, mainVars, recorded, requested, workerPc, shims>>

Press ==
  /\ presses < MaxPresses /\ presses' = presses + 1
  /\ Handle
  /\ UNCHANGED clientPc

\* cancel_workflow: the flag, and then the signal to the recorded process.
CancelFlag(c) ==
  /\ clientPc[c] = "idle" /\ clientPc' = [clientPc EXCEPT ![c] = "flagged"]
  /\ mainPc \in Handling /\ recorded' = TRUE
  /\ UNCHANGED <<lock, calls, mainVars, event, requested, workerPc, shims, signals, presses>>

CancelSignal(c) ==
  /\ clientPc[c] = "flagged" /\ clientPc' = [clientPc EXCEPT ![c] = "done"]
  /\ Handle
  /\ UNCHANGED presses

Next ==
  \/ Main \/ \E t \in Tasks : Worker(t)
  \/ Press \/ \E c \in Clients : CancelFlag(c) \/ CancelSignal(c)

Spec == Init /\ [][Next]_vars

\* Threads run and shims end; nobody has to cancel.
FairSpec ==
  /\ Spec /\ WF_vars(Main)
  /\ \A t \in Tasks : WF_vars(Worker(t)) /\ WF_vars(ShimExits(t))

-----------------------------------------------------------------------------
TypeOK ==
  /\ lock \in {"free", "main"} \cup Tasks /\ calls \in Seq(Call)
  /\ mainPc \in Handling \cup {"ended"} /\ futures \subseteq Tasks /\ completed \subseteq futures
  /\ event \in BOOLEAN /\ recorded \in BOOLEAN /\ requested \in BOOLEAN
  /\ workerPc \in [Tasks -> WorkerPc]
  /\ shim \in [Tasks -> {"none", "running", "ended"}]
  /\ registered \subseteq Tasks
  /\ clientPc \in [Clients -> {"idle", "flagged", "done"}]
  /\ signals \in Nat /\ presses \in Nat

\* A call waits for a lock that a call below it on the same stack holds.
Stuck == At("enter") /\ lock = "main"

\* The main thread blocks itself only when a second signal comes, or the
\* signal of a `workflow cancel` whose flag was found before it: one Ctrl+C
\* alone is always carried out.
StuckNeedsTwoRequests == Stuck => signals >= 2 \/ (recorded /\ signals >= 1)

\* A run that is cancelled ends, unless its main thread has blocked itself;
\* nobody else waits for ever.
CancelledRunEnds == event ~> (mainPc = "ended" \/ Stuck)

\* docs/workflows.md: "On Ctrl+C the runner prints and persists the workflow
\* ID and resume command."  A `workflow cancel` alone is to end a run, too.
CancelEndsRun == (signals > 0) ~> (mainPc = "ended")

\* The only shims that a call passes over are those between Popen and their
\* registration.
MissedOnlyBeforeRegistration ==
  [][CopyActive =>
       \A t \in Tasks : Running(t) /\ t \notin Top'.targets =>
         workerPc[t] \in {"launched", "registering"}]_vars
=============================================================================
