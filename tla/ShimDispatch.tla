---------------------------- MODULE ShimDispatch ----------------------------
(***************************************************************************)
(* dispatch_legacy of dispatch.py: one shim process takes one dispatch     *)
(* from its arguments to the sentinel line "SHIM-DONE exit=<n>".  A step   *)
(* is the code up to and including the next write that outlives the        *)
(* process: a row of the ledger, run.json, result.json, the sentinel.  The *)
(* lifecycle events that follow each write of run.json go with it.         *)
(*                                                                         *)
(* A fault is an OSError out of a write to the run directory; SIGINT       *)
(* arrives from the terminal or from a cancelled workflow; SIGKILL stops   *)
(* the shim and leaves its provider alone.                                 *)
(***************************************************************************)
EXTENDS ProcessSupervisor, AttemptOutcomes, Sequences

CONSTANTS
  Dispatches,     \* dispatch identifiers, naming the run directories
  DispatchOf,     \* [Shims -> Dispatches], SUBAGENT_MODEL_ROUTING_DISPATCH_ID
  Adapters,       \* what a provider adapter decides of the control flow
  MaxFaults, MaxInterrupts, MaxKills   \* bounds on the environment

ASSUME DispatchAssumption ==
  /\ DispatchOf \in [Shims -> Dispatches]
  /\ ChildCodes \subseteq Int
  /\ Adapters \subseteq [preflightBinary : BOOLEAN,
                         missingBinaryLedger : {"none", "finished"},
                         startLedgerBeforePrompt : BOOLEAN]
  /\ MaxFaults \in Nat /\ MaxInterrupts \in Nat /\ MaxKills \in Nat

VARIABLES
  pc,         \* where dispatch_legacy is
  adapter,    \* the adapter of the provider asked for
  life,       \* Lifecycle.state, in memory
  verdict,    \* the state and the exit status the dispatch is to end with
  sentinel,   \* exit status on the sentinel line, once it is printed
  late,       \* provider output was printed after the sentinel
  ledger,     \* the rows this shim appended to observations.jsonl
  directory,  \* run directories that exist
  run,        \* "state" of run.json
  record,     \* result.json
  spent       \* faults, interrupts and kills so far

shimVars == <<pc, life, verdict, sentinel, late, ledger, directory, run, record>>
vars == <<supervisorVars, shimVars, adapter, spent>>

LifeState == {"created", "preflighting", "ready", "workspace_preparing",
              "workspace_ready", "running"} \cup DispatchStatus
TRANSITIONS ==
  [created             |-> {"preflighting"},
   preflighting        |-> {"preflight_failed", "ready", "failed"},
   ready               |-> {"workspace_preparing", "running", "failed"},
   workspace_preparing |-> {"workspace_ready", "failed"},
   workspace_ready     |-> {"running", "failed"},
   running             |-> {"succeeded", "failed", "timed_out", "cancelled"}]

None == -1
Verdict == [status : DispatchStatus \cup {"none"}, exit : 0 .. 255]
Row == [event : {"started"}] \cup [event : {"finished"}, exit : 0 .. 255]
NoRecord == [status |-> "none"]
Record == [status : DispatchStatus, exit : 0 .. 255]

\* How a shim process can end; a Python traceback makes its exit status 1.
Ended == {"returned", "raised", "interrupted", "killed"}

\* Inside the try whose finally clause prints the sentinel.
FinalTry == {"ledger", "settle", "conclude", "publish"}

Pc == {"start", "create", "open", "created", "preflight", "passed",
       "ledgerFirst", "prompt", "ledgerSecond", "prepare", "workspace",
       "prepared", "spawn", "supervise", "announce", "lastWords", "announced",
       "refused", "unread"} \cup FinalTry \cup Ended

\* The run directory and run.json of this shim.
Home(s) == DispatchOf[s]

Init ==
  /\ SupervisorInit
  /\ pc = [s \in Shims |-> "start"]
  /\ adapter \in [Shims -> Adapters]
  /\ life = [s \in Shims |-> "created"]
  /\ verdict = [s \in Shims |-> [status |-> "none", exit |-> 64]]
  /\ sentinel = [s \in Shims |-> None]
  /\ late = [s \in Shims |-> FALSE]
  /\ ledger = [s \in Shims |-> << >>]
  /\ directory = {}
  /\ run = [d \in Dispatches |-> "none"]
  /\ record = [d \in Dispatches |-> NoRecord]
  /\ spent = [faults |-> 0, interrupts |-> 0, kills |-> 0]

-----------------------------------------------------------------------------
Goes(s, from, to) == pc[s] = from /\ pc' = [pc EXCEPT ![s] = to]

Append1(s, row) == ledger' = [ledger EXCEPT ![s] = Append(@, row)]
Finished(exit) == [event |-> "finished", exit |-> exit]

\* An early end through _finish_early, or the usual one.
Ends(s, status, exit) ==
  verdict' = [verdict EXCEPT ![s] = [status |-> status, exit |-> exit]]

\* Lifecycle.transition and the event that follows it.
Transition(s, from, state, to) ==
  /\ Goes(s, from, to)
  /\ life' = [life EXCEPT ![s] = state]
  /\ run' = [run EXCEPT ![Home(s)] = state]
  /\ UNCHANGED <<supervisorVars, verdict, sentinel, late, ledger, directory,
                 record, adapter, spent>>

unrecorded == <<supervisorVars, life, sentinel, late, directory, run, record,
                adapter>>

\* The arguments are refused, or an earlier dispatch has the identifier.
Start(s) ==
  /\ \/ Goes(s, "start", "announce")
     \/ Home(s) \notin directory /\ Goes(s, "start", "create")
  /\ UNCHANGED <<unrecorded, verdict, ledger, spent>>

\* RunStore.create, which does not mind a directory that exists.
Create(s) ==
  /\ Goes(s, "create", "open")
  /\ directory' = directory \cup {Home(s)}
  /\ UNCHANGED <<supervisorVars, life, verdict, sentinel, late, ledger, run,
                 record, adapter, spent>>

\* Lifecycle.__init__.
Open(s) == Transition(s, "open", "created", "created")

BeginPreflight(s) == Transition(s, "created", "preflighting", "preflight")

\* The provider's binary is missing, which only some adapters put in the
\* ledger, or there is no GNU timeout, which goes in nobody's.
PreflightFails(s) ==
  /\ Goes(s, "preflight", "refused")
  /\ Ends(s, "preflight_failed", 127)
  /\ \/ UNCHANGED ledger
     \/ /\ adapter[s].preflightBinary
        /\ adapter[s].missingBinaryLedger = "finished"
        /\ Append1(s, Finished(127))
  /\ UNCHANGED <<unrecorded, spent>>

\* record_request, which failed preflights come to behind the ledger.
RecordRequest(s) ==
  Goes(s, "refused", "settle") /\ UNCHANGED <<unrecorded, verdict, ledger, spent>>

PreflightSucceeds(s) ==
  Goes(s, "preflight", "passed") /\ UNCHANGED <<unrecorded, verdict, ledger, spent>>

BecomeReady(s) ==
  Transition(s, "passed", "ready",
    IF adapter[s].startLedgerBeforePrompt THEN "ledgerFirst" ELSE "prompt")

LedgerStarted(s) ==
  /\ \/ Goes(s, "ledgerFirst", "prompt") \/ Goes(s, "ledgerSecond", "prepare")
  /\ Append1(s, [event |-> "started"])
  /\ UNCHANGED <<unrecorded, verdict, spent>>

\* record_request comes before the ledger here.
PromptUnreadable(s) ==
  /\ Goes(s, "prompt", "unread")
  /\ Ends(s, "failed", 66)
  /\ UNCHANGED <<unrecorded, ledger, spent>>

\* With record_request.
PromptRead(s) ==
  /\ Goes(s, "prompt", IF adapter[s].startLedgerBeforePrompt THEN "prepare"
                                                       ELSE "ledgerSecond")
  /\ UNCHANGED <<unrecorded, verdict, ledger, spent>>

PrepareWorkspace(s) == Transition(s, "prepare", "workspace_preparing", "workspace")

\* Variant with a mistake: the ledger is not told.
WorkspaceFailsUnledgered(s) ==
  /\ Goes(s, "workspace", "settle")
  /\ Ends(s, "failed", 1)
  /\ UNCHANGED <<unrecorded, ledger, spent>>

\* Variant with a mistake: the failure is put down to the preflight.
WorkspaceFailsPreflight(s) ==
  /\ Goes(s, "workspace", "settle")
  /\ Append1(s, Finished(1)) /\ Ends(s, "preflight_failed", 1)
  /\ UNCHANGED <<unrecorded, spent>>

\* A shared workspace is always ready; an isolated one may not be to be had.
WorkspaceFails(s) ==
  /\ Goes(s, "workspace", "settle")
  /\ Append1(s, Finished(1)) /\ Ends(s, "failed", 1)
  /\ UNCHANGED <<unrecorded, spent>>

WorkspaceReady(s) == Transition(s, "workspace", "workspace_ready", "prepared")

StartRunning(s) == Transition(s, "prepared", "running", "spawn")

Launch(s) ==
  /\ Goes(s, "spawn", "supervise")
  /\ Spawn(s) \/ SpawnFails(s)
  /\ UNCHANGED <<life, verdict, sentinel, late, ledger, directory, run, record,
                 adapter, spent>>

Supervising(s) ==
  /\ pc[s] = "supervise" /\ Supervise(s)
  /\ UNCHANGED <<shimVars, adapter, spent>>

\* Variant with a mistake: the exit status alone decides.
FinalStatusFromExit(s) ==
  IF ExitCode(s) = 124 THEN "timed_out"
  ELSE IF ExitCode(s) = 130 THEN "cancelled"
  ELSE IF ExitCode(s) = 0 THEN "succeeded" ELSE "failed"

FinalStatus(s) ==
  IF timedOut[s] THEN "timed_out"
  ELSE IF cancelled[s] THEN "cancelled"
  ELSE IF ExitCode(s) = 0 THEN "succeeded" ELSE "failed"

\* run_process has returned; the events about the output are emitted.
Return(s) ==
  /\ Goes(s, "supervise", "ledger") /\ step[s] = "done"
  /\ Ends(s, FinalStatus(s), ExitCode(s))
  /\ UNCHANGED <<unrecorded, ledger, spent>>

LedgerFinished(s) ==
  /\ Goes(s, "ledger", "settle") \/ Goes(s, "unread", "settle")
  /\ Append1(s, Finished(verdict[s].exit))
  /\ UNCHANGED <<unrecorded, verdict, spent>>

Settle(s) == Transition(s, "settle", verdict[s].status, "conclude")

\* Variant with a mistake: the record is written before the state is settled.
ConcludeEarly(s) ==
  /\ \/ Goes(s, "settle", "publish") \/ Goes(s, "conclude", "publish")
  /\ record' = [record EXCEPT ![Home(s)] = verdict[s]]
  /\ UNCHANGED <<supervisorVars, life, verdict, sentinel, late, ledger,
                 directory, run, adapter, spent>>

\* Changes are captured, the record is built, validated and written.
Conclude(s) ==
  /\ Goes(s, "conclude", "publish")
  /\ record' = [record EXCEPT ![Home(s)] = verdict[s]]
  /\ UNCHANGED <<supervisorVars, life, verdict, sentinel, late, ledger,
                 directory, run, adapter, spent>>

\* The terminal event and its hooks.
Publish(s) ==
  Goes(s, "publish", "announce") /\ UNCHANGED <<unrecorded, verdict, ledger, spent>>

Announce(s) ==
  /\ Goes(s, "announce", "announced") \/ Goes(s, "lastWords", "interrupted")
  /\ sentinel' = [sentinel EXCEPT ![s] = verdict[s].exit]
  /\ UNCHANGED <<supervisorVars, life, verdict, late, ledger, directory, run,
                 record, adapter, spent>>

Exit(s) ==
  Goes(s, "announced", "returned") /\ UNCHANGED <<unrecorded, verdict, ledger, spent>>

Shim(s) ==
  \/ Start(s) \/ Create(s) \/ Open(s) \/ BeginPreflight(s) \/ PreflightFails(s)
  \/ RecordRequest(s) \/ PreflightSucceeds(s) \/ BecomeReady(s) \/ LedgerStarted(s)
  \/ PromptUnreadable(s) \/ PromptRead(s) \/ PrepareWorkspace(s)
  \/ WorkspaceFails(s) \/ WorkspaceReady(s) \/ StartRunning(s) \/ Launch(s)
  \/ Supervising(s) \/ Return(s) \/ LedgerFinished(s) \/ Settle(s)
  \/ Conclude(s) \/ Publish(s) \/ Announce(s) \/ Exit(s)

-----------------------------------------------------------------------------
(* What happens to a shim.                                                 *)

unharmed == <<life, verdict, late, ledger, directory, run, record, sentinel,
              adapter>>

\* A write fails.  That of a ledger row is passed over; any other ends the
\* shim, or inside the last try brings it to the sentinel.
Fault(s) ==
  /\ spent.faults < MaxFaults /\ spent' = [spent EXCEPT !.faults = @ + 1]
  /\ \/ Goes(s, "ledgerFirst", "prompt") \/ Goes(s, "ledgerSecond", "prepare")
     \/ Goes(s, "ledger", "settle") \/ Goes(s, "unread", "settle")
     \/ \E at \in FinalTry \ {"ledger"} : Goes(s, at, "announce")
     \/ /\ pc[s] \notin {"start", "unread", "spawn", "lastWords", "announced"}
                        \cup FinalTry \cup Ended
        /\ pc[s] = "supervise" => step[s] = "done"
        /\ Goes(s, pc[s], "raised")
  /\ UNCHANGED <<supervisorVars, unharmed>>

Interrupt(s) ==
  /\ spent.interrupts < MaxInterrupts
  /\ spent' = [spent EXCEPT !.interrupts = @ + 1]
  /\ \/ pc[s] = "supervise" /\ Cancels(s) /\ UNCHANGED pc
     \/ /\ \E at \in FinalTry : Goes(s, at, "lastWords")
        /\ UNCHANGED supervisorVars
     \/ /\ pc[s] \notin FinalTry \cup Ended
        /\ pc[s] = "supervise" => step[s] \notin Caught
        /\ Goes(s, pc[s], "interrupted")
        /\ UNCHANGED supervisorVars
  /\ UNCHANGED unharmed

Kill(s) ==
  /\ spent.kills < MaxKills /\ spent' = [spent EXCEPT !.kills = @ + 1]
  /\ pc[s] \notin Ended /\ Goes(s, pc[s], "killed")
  /\ UNCHANGED <<supervisorVars, unharmed>>

\* A pump thread that outlived its join forwards what the provider, or a
\* detached descendant of it, printed.
LateOutput(s) ==
  /\ pc[s] = "announced" /\ pumping[s]
  /\ late' = [late EXCEPT ![s] = TRUE]
  /\ UNCHANGED <<supervisorVars, pc, life, verdict, sentinel, ledger, directory,
                 run, record, adapter, spent>>

Environment(s) ==
  \/ Fault(s) \/ Interrupt(s) \/ Kill(s) \/ LateOutput(s)
  \/ Provider(s) /\ UNCHANGED <<shimVars, adapter, spent>>

Next == \E s \in Shims : Shim(s) \/ Environment(s)

Spec == Init /\ [][Next]_vars

\* A shim keeps running.  Nothing is asked of its provider.
Fairness == \A s \in Shims : WF_vars(Shim(s))

FairSpec == Spec /\ Fairness

-----------------------------------------------------------------------------
(* What the scheduler makes of a shim that has ended.                      *)

Seen(exit) == IF exit \in {0, 64, 66, 127, 130} THEN exit ELSE 1

ShimExit(s) ==
  CASE pc[s] = "returned" -> verdict[s].exit
    [] pc[s] = "raised"   -> 1
    [] OTHER              -> 0   \* -2 and -9, clamped

RunnerOutcome(s) ==
  LET exit == ShimExit(s)
      r == record[Home(s)]
  IN  [status |-> IF r # NoRecord THEN r.status
                  ELSE IF exit = 124 THEN "timed_out"
                  ELSE IF exit = 130 THEN "cancelled" ELSE "failed",
       exit |-> Seen(exit),
       transport |-> r = NoRecord \/ r.status = "preflight_failed" \/ exit = 127]

-----------------------------------------------------------------------------
(* Properties.                                                             *)

TypeOK ==
  /\ SupervisorTyped
  /\ pc \in [Shims -> Pc]
  /\ adapter \in [Shims -> Adapters]
  /\ life \in [Shims -> LifeState]
  /\ verdict \in [Shims -> Verdict]
  /\ sentinel \in [Shims -> 0 .. 255 \cup {None}]
  /\ late \in [Shims -> BOOLEAN]
  /\ ledger \in [Shims -> Seq(Row)]
  /\ directory \subseteq Dispatches
  /\ run \in [Dispatches -> LifeState \cup {"none"}]
  /\ record \in [Dispatches -> Record \cup {NoRecord}]
  /\ spent \in [faults : Nat, interrupts : Nat, kills : Nat]

\* When the sentinel is on the screen, nothing of the provider's process
\* group is left, however the run ended: by itself, by the time limit or by
\* an interrupt, with descendants that outlive the provider or without.
ProviderGoneBeforeSentinel ==
  \A s \in Shims : sentinel[s] # None => GroupGone(s)

\* No dispatch that is on record as succeeded had a provider that failed, ran
\* into the time limit or was interrupted, and none is on record as cancelled
\* or timed out that was not.
RecordTruthful ==
  \A s \in Shims :
    LET r == record[Home(s)]
    IN  /\ r.status = "succeeded" =>
             code[s] = 0 /\ r.exit = 0 /\ ~timedOut[s] /\ ~cancelled[s]
        /\ r.status = "cancelled" => cancelled[s]
        /\ r.status = "timed_out" <=> r # NoRecord /\ timedOut[s]

\* The ledger never disagrees with the sentinel, has at most one row of each
\* event in order, and has both when the shim returned and no write failed: a
\* started row is an orphan only if the shim was cut short.
LedgerTruthful ==
  \A s \in Shims :
    /\ \A i \in DOMAIN ledger[s] :
         ledger[s][i].event = "finished" =>
           /\ i = Len(ledger[s])
           /\ sentinel[s] \in {None, ledger[s][i].exit}
    /\ Len(ledger[s]) <= 2
    /\ \A i \in DOMAIN ledger[s] :
         /\ ledger[s][i].event = "started"
         /\ pc[s] = "returned" /\ spent.faults = 0
         => i = 1 /\ Len(ledger[s]) = 2

\* Every outcome the scheduler can read off an ended shim is one of those the
\* scheduler is checked against, and a recorded cancellation was an interrupt.
OutcomesCovered ==
  \A s \in Shims :
    pc[s] \in Ended =>
      /\ RunnerOutcome(s) \in ShimOutcome
      /\ CancellationExplained(RunnerOutcome(s), cancelled[s])

\* Lifecycle.transition never raises its RuntimeError: whichever early or
\* late end a dispatch takes is one its table allows.
TransitionsNeverRefused ==
  [][\A s \in Shims :
       life'[s] # life[s] =>
         life[s] \in DOMAIN TRANSITIONS /\ life'[s] \in TRANSITIONS[life[s]]]_vars

\* A shim always ends, whatever its provider does.
EveryShimEnds == \A s \in Shims : <>(pc[s] \in Ended)
=============================================================================
