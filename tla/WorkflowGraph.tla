--------------------------- MODULE WorkflowGraph ---------------------------
(***************************************************************************)
(* A validated workflow document, as the scheduler receives it from        *)
(* workflow.py, and the vocabulary of the persisted state document         *)
(* state.json.  Prompts, models, artifacts and time stamps carry no        *)
(* control and are left out; an attempt keeps the number that names its    *)
(* directory and its status.                                               *)
(***************************************************************************)
EXTENDS AttemptOutcomes, Sequences, FiniteSets

CONSTANTS
  Tasks,                \* task identifiers of the document
  Providers,            \* transport providers its routes name
  DependsOn,            \* [Tasks -> SUBSET Tasks]
  Provider,             \* [Tasks -> Providers]
  MaxConcurrency,       \* defaults.maxConcurrency
  ProviderConcurrency,  \* defaults.providerConcurrency, a partial function
  FailurePolicy,        \* defaults.failurePolicy
  MaxAttempts,          \* [Tasks -> 1, 2, ...], retry.maxAttempts
  RetryOn,              \* [Tasks -> SUBSET RetryReason], retry.on
  Verify                \* the tasks with verification commands

RetryReason == {"timeout", "transport-error"}

(***************************************************************************)
(* What validate_workflow guarantees.  Acyclicity is stated in the form    *)
(* that is used: every non-empty set of tasks has one that depends on none *)
(* of the others.                                                          *)
(***************************************************************************)
ASSUME TasksAssumption ==
  /\ IsFiniteSet(Tasks)
  /\ DependsOn \in [Tasks -> SUBSET Tasks]
  /\ Provider \in [Tasks -> Providers]
  /\ Verify \subseteq Tasks

ASSUME LimitsAssumption ==
  /\ MaxConcurrency \in Nat \ {0}
  /\ \A p \in DOMAIN ProviderConcurrency : ProviderConcurrency[p] \in Nat \ {0}
  /\ FailurePolicy \in {"fail-fast", "continue"}
  /\ MaxAttempts \in [Tasks -> Nat \ {0}]
  /\ RetryOn \in [Tasks -> SUBSET RetryReason]

ASSUME AcyclicAssumption ==
  \A S \in SUBSET Tasks : S # {} => \E t \in S : DependsOn[t] \cap S = {}

ProviderLimit(p) ==
  IF p \in DOMAIN ProviderConcurrency THEN ProviderConcurrency[p]
                                      ELSE MaxConcurrency

-----------------------------------------------------------------------------
TerminalSuccess == {"succeeded", "verified"}
RunFailure      == {"failed", "timed_out", "cancelled", "verification_failed"}
TerminalFailure == RunFailure \cup {"blocked", "skipped"}
TerminalStates  == TerminalSuccess \cup TerminalFailure
TaskState       == {"pending", "ready", "running"} \cup TerminalStates

TerminalWorkflowStates == {"succeeded", "failed", "cancelled"}
WorkflowStatus         == {"created", "running"} \cup TerminalWorkflowStates

Attempt == [number : Nat, status : DispatchStatus \cup {"running"}]

StateDocument ==
  [status                : WorkflowStatus,
   tasks                 : [Tasks -> TaskState],
   attempts              : [Tasks -> Seq(Attempt)],
   cancellationRequested : BOOLEAN,
   runnerPid             : Nat]   \* 0: None; else the process, by number

InitialState ==
  [status                |-> "created",
   tasks                 |-> [t \in Tasks |-> "pending"],
   attempts              |-> [t \in Tasks |-> << >>],
   cancellationRequested |-> FALSE,
   runnerPid             |-> 0]

(***************************************************************************)
(* resume_workflow keeps the successes, gives every failed or unstarted    *)
(* task another chance, and turns a task that was recorded as running when *)
(* the previous scheduler died into a cancelled one.                       *)
(***************************************************************************)
ResumedTask(s) ==
  IF s \in TerminalSuccess THEN s
  ELSE IF s = "running" THEN "cancelled"
  ELSE "pending"

\* Variant with a mistake: the attempts on record are not carried over.
ResumedStateWithoutHistory(d) ==
  [InitialState EXCEPT !.tasks = [t \in Tasks |-> ResumedTask(d.tasks[t])]]

ResumedState(d) ==
  [d EXCEPT !.status = "created", !.runnerPid = 0,
            !.cancellationRequested = FALSE,
            !.tasks = [t \in Tasks |-> ResumedTask(d.tasks[t])]]

\* Variant with a mistake: a task is ready as soon as no dependency failed.
MarkedReadyUnlessFailed(tasks, t, failFast) ==
  IF \E d \in DependsOn[t] : tasks[d] \in TerminalFailure THEN "blocked"
  ELSE IF failFast THEN "skipped" ELSE "ready"

\* Variant with a mistake: fail-fast does not skip what has not started.
MarkedNeverSkipped(tasks, t, failFast) ==
  IF \E d \in DependsOn[t] : tasks[d] \in TerminalFailure THEN "blocked"
  ELSE IF \A d \in DependsOn[t] : tasks[d] \in TerminalSuccess THEN "ready"
  ELSE tasks[t]

\* Variant with a mistake: verified dependencies do not make a task ready.
MarkedForgettingVerified(tasks, t, failFast) ==
  IF \E d \in DependsOn[t] : tasks[d] \in TerminalFailure THEN "blocked"
  ELSE IF failFast THEN "skipped"
  ELSE IF \A d \in DependsOn[t] : tasks[d] = "succeeded" THEN "ready"
  ELSE tasks[t]

(***************************************************************************)
(* One visit of _mark_dependency_states to a task, which its caller has    *)
(* checked to be pending or ready: the state the visit leaves it in.       *)
(***************************************************************************)
MarkedState(tasks, t, failFast) ==
  IF \E d \in DependsOn[t] : tasks[d] \in TerminalFailure THEN "blocked"
  ELSE IF failFast THEN "skipped"
  ELSE IF \A d \in DependsOn[t] : tasks[d] \in TerminalSuccess THEN "ready"
  ELSE tasks[t]

ShouldRetry(t, outcome, attemptInRun) ==
  /\ attemptInRun < MaxAttempts[t]
  /\ outcome.exit \notin {64, 66}
  /\ \/ outcome.status = "timed_out" /\ "timeout" \in RetryOn[t]
     \/ outcome.transport /\ "transport-error" \in RetryOn[t]
=============================================================================
