-------------------------- MODULE WorkflowClients --------------------------
(***************************************************************************)
(* Several processes over one workflow directory: the one that ran the     *)
(* workflow first, others that resume it and others that cancel it.  Each  *)
(* reads state.json before it asks for runner.lock, and a scheduler goes   *)
(* on from what it read.                                                   *)
(*                                                                         *)
(* Of state.json there is what a resume has to keep: the tasks on record   *)
(* as succeeded or verified and the attempts of each task.  Of a scheduler *)
(* there is what it does to them, which is all that WorkflowScheduler does *)
(* (ImplementsDurableProgress).                                            *)
(***************************************************************************)
EXTENDS Integers, FiniteSets

CONSTANTS
  Tasks, DependsOn,   \* the graph of the workflow
  Limit,              \* maxConcurrency
  Processes,          \* processes that take part, one command each
  Runner,             \* the one that runs the workflow first
  Free,               \* no process
  MaxHistory          \* bound on the attempts on record for a task

ASSUME ClientsAssumption ==
  /\ IsFiniteSet(Tasks) /\ DependsOn \in [Tasks -> SUBSET Tasks]
  /\ Limit \in Nat \ {0} /\ MaxHistory \in Nat
  /\ Runner \in Processes /\ Free \notin Processes

VARIABLES
  disk,       \* state.json
  mem,        \* each process' copy of it
  pc,         \* where each process is
  runnerLock, \* the process that holds runner.lock, or Free
  active,     \* tasks that each process has attempted and not settled
  met,        \* history: schedulers at work since each process read the file
  overtaken   \* history: one wrote an old copy over a newer document

vars == <<disk, mem, pc, runnerLock, active, met, overtaken>>

Document == [finished : SUBSET Tasks, history : [Tasks -> Nat]]
Created == [finished |-> {}, history |-> [t \in Tasks |-> 0]]

\* Between reading state.json and having the lease.
Resuming == {"loaded", "probing", "write", "acquire"}
\* Under the lease, as a scheduler.
Scheduling == {"initialize", "running", "release"}
Pc == {"idle", "asking", "gone"} \cup Resuming \cup Scheduling

\* Schedulers that may still write.
Schedulers == {p \in Processes : pc[p] \in {"initialize", "running"}}

Init ==
  /\ disk = Created
  /\ mem = [p \in Processes |-> Created]
  /\ pc = [p \in Processes |-> IF p = Runner THEN "acquire" ELSE "idle"]
  /\ runnerLock = Free
  /\ active = [p \in Processes |-> {}]
  /\ met = [p \in Processes |-> {}]
  /\ overtaken = FALSE

Goes(p, from, to) == pc[p] = from /\ pc' = [pc EXCEPT ![p] = to]

\* A write of state.json that begins a resume is to say nothing new of the
\* tasks that are finished and of the attempts.
WritesFirst(p) ==
  /\ disk' = mem[p]
  /\ overtaken' = (overtaken \/ mem[p] # disk)

-----------------------------------------------------------------------------
(* resume_workflow, and _run_state_machine up to its loop.                 *)

\* Variant with a mistake: the attempts on record are not carried over.
LoadWithoutHistory(p) ==
  /\ Goes(p, "idle", "loaded")
  /\ mem' = [mem EXCEPT ![p] = [disk EXCEPT !.history = Created.history]]
  /\ met' = [met EXCEPT ![p] = Schedulers]
  /\ UNCHANGED <<disk, runnerLock, active, overtaken>>

\* state.json is read, long before the lease is asked for.
Load(p) ==
  /\ Goes(p, "idle", "loaded")
  /\ mem' = [mem EXCEPT ![p] = disk]
  /\ met' = [met EXCEPT ![p] = Schedulers]
  /\ UNCHANGED <<disk, runnerLock, active, overtaken>>

\* _runner_active: whoever finds runner.lock free holds it for an instant.
Probe(p) ==
  /\ runnerLock = Free /\ runnerLock' = p
  /\ Goes(p, "loaded", "probing")
  /\ UNCHANGED <<disk, mem, active, met, overtaken>>

\* "workflow is still running", "workflow already has an active scheduler".
Refused(p) ==
  /\ runnerLock # Free
  /\ Goes(p, "loaded", "gone") \/ Goes(p, "acquire", "gone")
  /\ UNCHANGED <<disk, mem, runnerLock, active, met, overtaken>>

EndProbe(p) ==
  /\ Goes(p, "probing", "write")
  /\ runnerLock' = Free
  /\ UNCHANGED <<disk, mem, active, met, overtaken>>

\* The document as a resume leaves it: finished tasks and attempts are kept.
ResumeWrite(p) ==
  /\ Goes(p, "write", "acquire")
  /\ WritesFirst(p)
  /\ UNCHANGED <<mem, runnerLock, active, met>>

Meets(p) ==
  met' = [q \in Processes |->
            IF q # p /\ pc[q] \in Resuming THEN met[q] \cup {p} ELSE met[q]]

\* Variant with a mistake: the lease is not asked for.
AcquireAnyway(p) ==
  /\ Goes(p, "acquire", "initialize")
  /\ runnerLock' = p
  /\ Meets(p)
  /\ UNCHANGED <<disk, mem, active, overtaken>>

Acquire(p) ==
  /\ runnerLock = Free /\ runnerLock' = p
  /\ Goes(p, "acquire", "initialize")
  /\ Meets(p)
  /\ UNCHANGED <<disk, mem, active, overtaken>>

Initialize(p) ==
  /\ Goes(p, "initialize", "running")
  /\ WritesFirst(p)
  /\ UNCHANGED <<mem, runnerLock, active, met>>

-----------------------------------------------------------------------------
(* The scheduler under its lease; every write is of the whole document.    *)

Writes(p, document) ==
  mem' = [mem EXCEPT ![p] = document] /\ disk' = document

Attempt(p, t) ==
  /\ pc[p] = "running"
  /\ t \notin mem[p].finished /\ DependsOn[t] \subseteq mem[p].finished
  /\ active' = [active EXCEPT ![p] = @ \cup {t}]
  /\ Cardinality(active'[p]) <= Limit
  /\ mem[p].history[t] < MaxHistory
  /\ Writes(p, [mem[p] EXCEPT !.history[t] = @ + 1])
  /\ UNCHANGED <<pc, runnerLock, met, overtaken>>

Settle(p, t) ==
  /\ pc[p] = "running" /\ t \in active[p]
  /\ active' = [active EXCEPT ![p] = @ \ {t}]
  /\ \E result \in {{}, {t}} :
       Writes(p, [mem[p] EXCEPT !.finished = @ \cup result])
  /\ UNCHANGED <<pc, runnerLock, met, overtaken>>

\* The final status is written; then the lease is given back.
Finalize(p) ==
  /\ active[p] = {} /\ Goes(p, "running", "release")
  /\ Writes(p, mem[p])
  /\ UNCHANGED <<runnerLock, active, met, overtaken>>

Release(p) ==
  /\ Goes(p, "release", "gone")
  /\ runnerLock' = Free
  /\ UNCHANGED <<disk, mem, active, met, overtaken>>

-----------------------------------------------------------------------------
(* cancel_workflow probes runner.lock as well; its flag is the subject of  *)
(* WorkflowScheduler.                                                      *)

CancelProbe(p) ==
  /\ runnerLock = Free /\ runnerLock' = p
  /\ Goes(p, "idle", "asking")
  /\ UNCHANGED <<disk, mem, active, met, overtaken>>

CancelEndProbe(p) ==
  /\ Goes(p, "asking", "gone")
  /\ runnerLock' = Free
  /\ UNCHANGED <<disk, mem, active, met, overtaken>>

\* A process is killed, and its flock falls.
Crash(p) ==
  /\ pc[p] \notin {"idle", "gone"}
  /\ pc' = [pc EXCEPT ![p] = "gone"]
  /\ runnerLock' = IF runnerLock = p THEN Free ELSE runnerLock
  /\ active' = [active EXCEPT ![p] = {}]
  /\ UNCHANGED <<disk, mem, met, overtaken>>

Step(p) ==
  \/ Load(p) \/ Probe(p) \/ Refused(p) \/ EndProbe(p) \/ ResumeWrite(p)
  \/ Acquire(p) \/ Initialize(p)
  \/ \E t \in Tasks : Attempt(p, t) \/ Settle(p, t)
  \/ Finalize(p) \/ Release(p)
  \/ CancelProbe(p) \/ CancelEndProbe(p) \/ Crash(p)

Next == \E p \in Processes : Step(p)

Spec == Init /\ [][Next]_vars

-----------------------------------------------------------------------------
\* Tasks that somebody has in hand.
InHand == UNION {active[p] : p \in Processes}

Progress == INSTANCE DurableProgress
              WITH finished <- disk.finished, history <- disk.history,
                   active <- InHand

\* However many processes resume, cancel and die, state.json keeps the
\* promises of DurableProgress (no finished task is attempted again, no
\* attempt is forgotten, dependencies and the limit hold) until a resume or a
\* scheduler begins by writing an old copy over a newer document.
PromisesKeptUntilOvertaken ==
  Progress!Init /\ [][Progress!Next \/ overtaken']_<<disk, active>>

\* A copy is out of date only because another scheduler was at work after it
\* was read and before the lease was had: probes, refused resumes, crashes and
\* cancellations do no harm.
Stale(p) == pc[p] \in Resuming \cup Scheduling /\ mem[p] # disk

StaleOnlyByScheduler ==
  ~overtaken => \A p \in Processes : Stale(p) => met[p] # {}
=============================================================================
