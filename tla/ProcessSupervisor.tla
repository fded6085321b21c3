------------------------- MODULE ProcessSupervisor -------------------------
(***************************************************************************)
(* run_process of process.py: a shim runs its provider CLI as the leader   *)
(* of a process group of its own, forwards its output through pump         *)
(* threads, enforces the time limit, turns SIGINT into a cancellation and  *)
(* clears the group away.  Time is abstract: a limit that has not been     *)
(* reached may be reached.  The operating system and the provider are the  *)
(* environment; the SIGTERM sent to a group may or may not end anyone in   *)
(* it, SIGKILL ends all of it.                                             *)
(***************************************************************************)
EXTENDS Integers

CONSTANTS
  Shims,       \* shim processes, each supervising one provider
  ChildCodes   \* return codes of a provider: exit codes, -n for signal n

VARIABLES
  step,        \* where run_process is
  leader,      \* the provider: "none", "alive" or "dead"
  code,        \* its return code once dead
  members,     \* others in its process group are alive
  detached,    \* a descendant in a session of its own is alive
  pumping,     \* the pump threads have not seen the end of the pipes
  timedOut, cancelled

groupVars == <<leader, code, members, detached, pumping>>
supervisorVars == <<step, groupVars, timedOut, cancelled>>

(***************************************************************************)
(* "terminating" and "grace" are _terminate_group on behalf of the time    *)
(* limit, inside the try; "cancelling" and "cancelGrace" the same on       *)
(* behalf of SIGINT, inside the except clause.                             *)
(***************************************************************************)
Step == {"idle", "spawned", "polling", "terminating", "grace", "cancelling",
         "cancelGrace", "waiting", "sweeping", "sweepGrace", "draining",
         "done"}

SupervisorInit ==
  /\ step = [s \in Shims |-> "idle"]
  /\ leader = [s \in Shims |-> "none"] /\ code = [s \in Shims |-> 0]
  /\ members = [s \in Shims |-> FALSE] /\ detached = [s \in Shims |-> FALSE]
  /\ pumping = [s \in Shims |-> FALSE]
  /\ timedOut = [s \in Shims |-> FALSE] /\ cancelled = [s \in Shims |-> FALSE]

ToStep(s, from, to) == step[s] = from /\ step' = [step EXCEPT ![s] = to]

\* Popen with start_new_session; which descendants the provider will have is
\* its own choice.
Spawn(s) ==
  /\ ToStep(s, "idle", "spawned")
  /\ leader' = [leader EXCEPT ![s] = "alive"]
  /\ pumping' = [pumping EXCEPT ![s] = TRUE]
  /\ \E m, d \in BOOLEAN :
       /\ members' = [members EXCEPT ![s] = m]
       /\ detached' = [detached EXCEPT ![s] = d]
  /\ UNCHANGED <<code, timedOut, cancelled>>

\* Popen raises OSError; the caller makes it exit status 127.
SpawnFails(s) ==
  /\ ToStep(s, "idle", "done")
  /\ code' = [code EXCEPT ![s] = 127]
  /\ UNCHANGED <<leader, members, detached, pumping, timedOut, cancelled>>

BeginPolling(s) ==
  ToStep(s, "spawned", "polling") /\ UNCHANGED <<groupVars, timedOut, cancelled>>

SeesExit(s) ==
  /\ ToStep(s, "polling", "waiting") /\ leader[s] = "dead"
  /\ UNCHANGED <<groupVars, timedOut, cancelled>>

\* The provider is alive at the poll; it may be dead when it is terminated.
TimesOut(s) ==
  /\ ToStep(s, "polling", "terminating") /\ leader[s] = "alive"
  /\ timedOut' = [timedOut EXCEPT ![s] = TRUE]
  /\ UNCHANGED <<groupVars, cancelled>>

\* _terminate_group up to its SIGTERM.
Terminate(s) ==
  /\ \/ step[s] = "terminating" /\ leader[s] = "alive"
        /\ ToStep(s, "terminating", "grace")
     \/ step[s] = "cancelling" /\ leader[s] = "alive"
        /\ ToStep(s, "cancelling", "cancelGrace")
     \/ leader[s] = "dead" /\ step[s] \in {"terminating", "cancelling"}
        /\ ToStep(s, step[s], "waiting")
  /\ UNCHANGED <<groupVars, timedOut, cancelled>>

\* Variant with a mistake: who ignores SIGTERM is left alone.
GraceOverWithoutKill(s) ==
  /\ step[s] \in {"grace", "cancelGrace"}
  /\ ToStep(s, step[s], "waiting")
  /\ UNCHANGED <<groupVars, timedOut, cancelled>>

\* The rest of it: the leader has ended, or the group is killed.
GraceOver(s) ==
  /\ step[s] \in {"grace", "cancelGrace"}
  /\ ToStep(s, step[s], "waiting")
  /\ IF leader[s] = "dead" THEN UNCHANGED <<leader, code, members>>
     ELSE /\ leader' = [leader EXCEPT ![s] = "dead"]
          /\ code' = [code EXCEPT ![s] = -9]
          /\ members' = [members EXCEPT ![s] = FALSE]
  /\ UNCHANGED <<detached, pumping, timedOut, cancelled>>

\* Variant with a mistake: a leader that exits by itself ends the supervision.
ReapWithoutSweep(s) ==
  /\ ToStep(s, "waiting", "draining") /\ leader[s] = "dead"
  /\ UNCHANGED <<groupVars, timedOut, cancelled>>

\* process.wait() returns.
Reap(s) ==
  /\ ToStep(s, "waiting", "sweeping") /\ leader[s] = "dead"
  /\ UNCHANGED <<groupVars, timedOut, cancelled>>

\* _terminate_remaining_group: SIGTERM to whoever is left, then SIGKILL.
Sweep(s) ==
  /\ ToStep(s, "sweeping", IF members[s] THEN "sweepGrace" ELSE "draining")
  /\ UNCHANGED <<groupVars, timedOut, cancelled>>

SweepOver(s) ==
  /\ ToStep(s, "sweepGrace", "draining")
  /\ members' = [members EXCEPT ![s] = FALSE]
  /\ UNCHANGED <<leader, code, detached, pumping, timedOut, cancelled>>

\* Joining the pump threads takes five seconds at most.  One may outlive it:
\* a detached descendant keeps its pipe open, or its own output blocks.
Drain(s) ==
  /\ ToStep(s, "draining", "done")
  /\ UNCHANGED <<groupVars, timedOut, cancelled>>

Supervise(s) ==
  \/ BeginPolling(s) \/ SeesExit(s) \/ TimesOut(s) \/ Terminate(s)
  \/ GraceOver(s) \/ Reap(s) \/ Sweep(s) \/ SweepOver(s) \/ Drain(s)

\* SIGINT inside the try block of run_process; elsewhere it is not caught.
Caught == {"polling", "terminating", "grace"}

Cancels(s) ==
  /\ step[s] \in Caught
  /\ step' = [step EXCEPT ![s] = "cancelling"]
  /\ cancelled' = [cancelled EXCEPT ![s] = TRUE]
  /\ UNCHANGED <<groupVars, timedOut>>

-----------------------------------------------------------------------------
(* The environment.                                                        *)

LeaderExits(s) ==
  /\ leader[s] = "alive"
  /\ leader' = [leader EXCEPT ![s] = "dead"]
  /\ \E c \in ChildCodes : code' = [code EXCEPT ![s] = c]
  /\ UNCHANGED <<step, members, detached, pumping, timedOut, cancelled>>

OthersExit(s) ==
  /\ \/ members[s] /\ members' = [members EXCEPT ![s] = FALSE]
        /\ UNCHANGED detached
     \/ detached[s] /\ detached' = [detached EXCEPT ![s] = FALSE]
        /\ UNCHANGED members
  /\ UNCHANGED <<step, leader, code, pumping, timedOut, cancelled>>

\* Nobody holds the other end of the pipes any more, and all is forwarded.
PipesClose(s) ==
  /\ pumping[s] /\ leader[s] = "dead" /\ ~members[s] /\ ~detached[s]
  /\ pumping' = [pumping EXCEPT ![s] = FALSE]
  /\ UNCHANGED <<step, leader, code, members, detached, timedOut, cancelled>>

Provider(s) == LeaderExits(s) \/ OthersExit(s) \/ PipesClose(s)

-----------------------------------------------------------------------------
GroupGone(s) == leader[s] # "alive" /\ ~members[s]

Clamp(n) == IF n < 0 THEN 0 ELSE IF n > 255 THEN 255 ELSE n

\* Variant with a mistake: the return code after a signal is only clamped.
ExitCodeOfSignal(s) ==
  Clamp(IF timedOut[s] THEN 124 ELSE IF cancelled[s] THEN 130 ELSE code[s])

\* The exit status that run_process reports.
ExitCode(s) ==
  Clamp(IF timedOut[s] THEN 124
        ELSE IF cancelled[s] THEN 130
        ELSE IF code[s] < 0 THEN 128 - code[s] ELSE code[s])

SupervisorTyped ==
  /\ step \in [Shims -> Step]
  /\ leader \in [Shims -> {"none", "alive", "dead"}]
  /\ code \in [Shims -> Int]
  /\ members \in [Shims -> BOOLEAN] /\ detached \in [Shims -> BOOLEAN]
  /\ pumping \in [Shims -> BOOLEAN]
  /\ timedOut \in [Shims -> BOOLEAN] /\ cancelled \in [Shims -> BOOLEAN]
=============================================================================
