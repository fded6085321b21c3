------------------------- MODULE WorkflowInvariant -------------------------
(***************************************************************************)
(* The inductive invariant from which the scheduler's safety properties    *)
(* follow, in named parts.                                                 *)
(***************************************************************************)
EXTENDS WorkflowScheduler

Up == mainPc \notin {"down", "loaded"}   \* mem is the scheduler's own copy
InLoop == {"poll", "cancel", "mark", "submit", "wait", "collect", "finalize",
           "raised"}

\* Places of a worker between recording an attempt and recording its outcome.
Attempting == {"started", "launching", "running", "returned"}

\* Worker threads are exactly the futures, and a batch holds finished ones.
Threads ==
  /\ \A t \in Tasks : workerPc[t] # "idle" <=> t \in futures
  /\ \A t \in completed : workerPc[t] = "done"
  /\ mainPc # "collect" => completed = {}
  /\ mainPc \in {"down", "loaded", "acquire", "initialize", "finalize", "release"}
       => futures = {}

\* The counters of the submit loop count what they say, within the limits.
Counters ==
  /\ Cardinality(futures) <= MaxConcurrency
  /\ \A r \in Providers :
       /\ providerActive[r] = Cardinality(ActiveOf(r, futures))
       /\ providerActive[r] <= ProviderLimit(r)

\* What is persisted lags behind memory in marks only.
Persisted ==
  /\ mainPc # "loaded" => \A t \in Tasks :
       /\ disk.attempts[t] = mem.attempts[t]
       /\ \/ disk.tasks[t] = mem.tasks[t]
          \/ /\ disk.tasks[t] \in {"pending", "ready"}
             /\ mem.tasks[t] \in {"ready", "blocked", "skipped"}
  /\ mainPc = "loaded" =>
       /\ mem.attempts = disk.attempts
       /\ mem.status = "created"
       /\ mem.tasks = [t \in Tasks |-> ResumedTask(disk.tasks[t])]

\* Ready, submitted and running tasks have all their dependencies; submitted
\* ones are not successes, and a running one has its worker.
Ordered == Up =>
  /\ \A t \in Tasks :
       mem.tasks[t] \in {"ready", "running"} \/ t \in futures =>
         \A d \in DependsOn[t] : mem.tasks[d] \in TerminalSuccess
  /\ \A t \in futures : mem.tasks[t] \notin TerminalSuccess
  /\ mainPc # "release" =>
       \A t \in Tasks : mem.tasks[t] = "running" => t \in futures

\* Where a worker stands tells which attempt it is at.
NumberedAt(t) ==
  LET n == Len(mem.attempts[t])
  IN  /\ workerPc[t] \in {"idle", "queued"} => attemptInRun[t] = 0
      /\ workerPc[t] = "starting" => firstAttempt[t] + attemptInRun[t] = n + 1
      /\ workerPc[t] \in Attempting \cup {"verifying", "backoff"} =>
           AttemptNumber(t) = n /\ n > 0 /\ attemptInRun[t] > 0
      /\ workerPc[t] \in Attempting =>
           /\ mem.tasks[t] = "running"
           /\ mem.attempts[t][n].status = "running"
      /\ workerPc[t] = "done" /\ attemptInRun[t] = 0 =>
           result[t] \notin TerminalSuccess
      /\ \A i \in 1..n : mem.attempts[t][i].number = i

Numbered == \A t \in Tasks : NumberedAt(t)

\* Directories handed to the runner are numbered within the history, and the
\* attempt about to be handed over is beyond all of them.
HandedAt(t) ==
  /\ \A i, j \in 1..Len(launches[t]) : i < j => launches[t][i] < launches[t][j]
  /\ \A i \in 1..Len(launches[t]) :
       /\ launches[t][i] <= Len(disk.attempts[t])
       /\ workerPc[t] \in {"started", "launching"} =>
            launches[t][i] < Len(disk.attempts[t])

Handed == \A t \in Tasks : HandedAt(t)

\* The status on record follows the main thread.
Statused ==
  /\ mainPc \notin {"loaded", "down"} => mem.status = disk.status
  /\ mainPc \in {"acquire", "initialize"} => disk.status = "created"
  /\ mainPc \in InLoop => disk.status = "running"
  /\ mainPc = "finalize" => Unfinished = {} \/ cancelEvent
  /\ disk.status \in TerminalWorkflowStates =>
       /\ \A t \in Tasks : disk.tasks[t] \in TerminalStates
       /\ disk.status = "succeeded" =>
            \A t \in Tasks : disk.tasks[t] \in TerminalSuccess
       /\ disk.status = "failed" =>
            \E t \in Tasks : disk.tasks[t] \in TerminalFailure

\* After marking, no pending or ready task is left to be marked.
Marked == mainPc = "submit" => \A t \in Tasks : ~Markable(t)

Inductive ==
  /\ Threads /\ Counters /\ Persisted /\ Ordered /\ Numbered /\ Handed
  /\ Statused /\ Marked /\ ProgressAlwaysMade

\* In a copy of the document, a success has only successes before it.
SuccessesClosed(tasks) ==
  \A t \in Tasks : tasks[t] \in TerminalSuccess =>
    \A d \in DependsOn[t] : tasks[d] \in TerminalSuccess

\* In a copy of the document, nothing is skipped, and a blocked task has a
\* failure before it.
BlockedForCause(tasks) ==
  \A t \in Tasks :
    /\ tasks[t] # "skipped"
    /\ tasks[t] = "blocked" =>
         \E d \in DependsOn[t] : tasks[d] \in TerminalFailure

\* Failures spread downwards, and under "continue" no further: no worker's
\* task is marked under its hands, which fail-fast may do.
Isolated ==
  /\ SuccessesClosed(mem.tasks) /\ SuccessesClosed(disk.tasks)
  /\ FailurePolicy = "continue" =>
       /\ ~failureTriggered
       /\ BlockedForCause(mem.tasks) /\ BlockedForCause(disk.tasks)
       /\ \A t \in futures : mem.tasks[t] \in {"ready", "running"}

\* All that a scheduler, its threads and workflow-state.json keep in step at
\* every step, and that the other results about a workflow rest on.
WorkflowInductive == TypeOK /\ Inductive /\ Isolated
=============================================================================
