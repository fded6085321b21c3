# Verification of subagent-model-routing

This directory holds TLA+ models of the runtime in `src/runtime/model_routing`,
TLC configurations that check them on small instances, and TLAPS proofs that
hold for every instance. It covers the parts that carry the program's own
control:

- the **workflow scheduler**, which runs a graph of tasks with threads, locks,
  cancellation and crash recovery, alone and beside other processes that resume or
  cancel the same workflow;
- the **shim**, the process that takes one dispatch from its arguments to the
  `SHIM-DONE exit=<n>` line, with the supervision of its provider;
- **isolated worktrees**, which several processes prepare, apply, discard and clean
  up in one repository;
- the **provider setup**, a dialogue on the terminal that runs installers and can be
  interrupted at any point;
- **workflow validation**, whose rules and cycle search the scheduler relies on;
- the **tripwires**, two hooks that judge an assistant's turn from its transcript.

1. [The system](#the-system)
2. [The modules](#the-modules)
3. [Plan](#plan)
4. [What the runs check](#what-the-runs-check)
5. [Disagreements found](#disagreements-found)
6. [Fairness](#fairness)
7. [Proofs](#proofs)
8. [What is abstracted and what is left out](#what-is-abstracted-and-what-is-left-out)

## The system

| Component | State it keeps | Operations | Hard behaviour |
| --- | --- | --- | --- |
| Workflow scheduler (`scheduler.py`) | `state.json`, its copy in memory, `runner.lock` (lease), `.state.lock`, futures, counters, the cancel event, registered shim processes | `run_workflow`, `resume_workflow`, `cancel_workflow`, `_execute_task` | worker threads, other processes that cancel or resume, a signal handler that takes a lock of the thread it interrupts, crash and resume at any step, retries |
| Runner interface (`scheduler.py` 205-330, `dispatch.py`) | none | turns an exit status and a `result.json` into an `AttemptOutcome` | the two may disagree or the record may be missing |
| Shim, or dispatch lifecycle (`dispatch.py`, `events.py`, `result.py`) | `run.json`, `events.jsonl`, `result.json`, rows of `observations.jsonl`, the sentinel | `dispatch_legacy`, `Lifecycle.transition` | early ends from four states, writes that fail, SIGINT or SIGKILL between two writes |
| Process supervision (`process.py`) | the provider's process group, pump threads, `timed_out`, `cancelled` | `run_process`, `_terminate_group`, `_terminate_remaining_group` | the provider's end, the time limit and SIGINT race; descendants; pipes |
| Lifecycle hooks (`hooks.py`) | none | `HookRunner.run` | fail open |
| Run store (`run_store.py`) | run directories | `create`, atomic writes, `append_ledger`, `cleanup_runs` | exist-then-create, cleanup of a run in use |
| Isolated worktrees (`workspace.py`, `run_store.cleanup_runs`) | branches and worktrees, the target checkout, `workspace.json`, `changes.patch`, `changeset.json`, `integration` in `result.json`, the repository lock | prepare, capture, apply by patch or by commits, discard, cleanup | processes that wait for one lock and read records before they have it; a fault between Git and the record |
| Provider setup (`provider_setup.py`) | the terminal's mode and signal handlers, the installer script, the process groups of an installer and of a version command | choose, confirm, download, run, verify, summarise | a signal between any two steps; one installer of several failing; a cursor that goes round |
| Workflow validation (`workflow.py`) | none that outlives a call; the stacks and colours of the cycle search while it runs | `validate_workflow`, `_find_cycle` | optional parts that may be missing or null; several searches sharing colours |
| Tripwires (`plugins/.../hooks`) | none; they read a transcript others append to | `dag-tripwire.py`, `ledger-tripwire.py` | which entries are of this turn; a walk over a shell command; a hook that blocks twice |
| Command line, registry, discovery, doctor, adapters, shell entry points, installers, repository tools | none that outlives a call | parse, check, print, copy | none of interest |

How they interact:

- `model-routing workflow run` calls `run_workflow`, which writes `state.json`,
  takes the lease and starts one worker thread per submitted task. A worker
  starts a shim process per attempt and registers it, so that `cancel_active` can
  send it SIGINT. All threads change one document in memory under the controller
  lock and persist it as a whole, merging the cancellation flag that another
  process may have set in the file.
- `workflow cancel` is another process: it probes the lease, sets the flag in
  `state.json` and signals the recorded process. The handler of that signal runs on
  the scheduler's main thread, between any two of its steps, and takes the runner's
  lock, which main thread and workers take as well.
- `workflow resume` may be started while a scheduler is at work: it reads
  `state.json`, then probes the lease, writes what it made of the file and only then
  asks for the lease.
- The shim starts the provider CLI in a process group of its own, writes the
  ledger and the run directory, and ends with the sentinel and an exit status.
  The scheduler reads the exit status and `result.json`, never the output.
- An isolated dispatch gets a git worktree from `workspace.py`; its changes are
  captured before the result is written and applied or discarded later by hand,
  by commands that may run at the same time as others over the same repository.
- `validate_workflow` runs before the scheduler and its normal form is stored; what
  it lets through is what `WorkflowGraph` assumes. A resume does not validate the
  stored document again: it loads it and compares its digest with the one in
  `state.json` (`scheduler.py` 748-761).
- `setup providers` shares with the runtime only the way it runs version commands
  (`run_bounded_capture`). The tripwires run in the assistant's session and see a
  shim only as words of a shell command.

What makes each part correct:

- *Scheduler.* Dependencies first; limits respected; one failure has exactly the
  consequences its policy names; an attempt is on record before it runs and its
  directory is never reused; successes never run again after a crash; a final
  status is true; a cancellation is not lost; the process ends, but for a handler
  that waits for its own thread.
- *Shim.* The provider is gone before the sentinel claims an end; record, ledger,
  sentinel and exit status tell one story, the true one; a final state is final;
  every failure takes a transition the table allows; the shim ends.
- *Between them.* Every outcome the shim can bring about is one the scheduler
  has been checked against.
- *Worktrees.* Branch, worktree and ownership record come and go as one thing; a
  worktree is taken away by nobody but a discard that verified it; a fault leaves
  one of two named states and no others; every command ends.
- *Setup.* Whatever a signal interrupts, the terminal, the script and the installer
  are given back, but for the instants named and for what the system refuses; the
  exit status speaks of every selected provider.
- *Validation.* What is accepted is acyclic, meets the published schema, is not
  changed by a second validation and has what the scheduler takes for granted.
- *Tripwires.* They block for what happened in this turn and for nothing else, let
  nothing through but what they could not read, and never keep a turn from ending.

`PROJECT.json` lists every component and, under `hazards`, each place of the code
where one of these could go wrong and a test would hardly show it, with the
properties that cover it.

## The modules

| Module | Models |
| --- | --- |
| `AttemptOutcomes` | the words shim and scheduler share: final states of a dispatch, the `AttemptOutcome` record, and `ShimOutcome`, the outcomes a shim can bring about |
| `WorkflowGraph` | a validated document as CONSTANTS with assumptions; `state.json`; what a resume makes of it; marks and retries as operators |
| `WorkflowScheduler` | main thread, worker threads, production runner, lease, cancelling client, Ctrl+C, crash, resume |
| `DurableProgress` | what the persisted workflow promises, in three variables |
| `WorkflowRefinement` | the refinement mapping from the scheduler to it |
| `WorkflowInvariant` | the inductive invariant, in named parts |
| `WorkflowProof` | proofs about the scheduler |
| `WorkflowClients` | several processes that run, resume and cancel one workflow: the lease, and the copies of `state.json` they go on from |
| `ClientsProof` | its inductive invariant and proofs |
| `CancelDelivery` | `_ProductionRunner` with its lock and registered processes, the signal handler on the stack of the main thread, worker threads |
| `DeliveryProof` | its inductive invariant and proofs |
| `ProcessSupervisor` | `run_process` with the provider and the operating system as environment; actions only, its steps are taken by `ShimDispatch` |
| `ShimDispatch` | `dispatch_legacy`, composed with `ProcessSupervisor`; failing writes, SIGINT, SIGKILL |
| `DispatchRecord` | what a dispatch promises whoever reads its directory and last line |
| `ShimRefinement` | the refinement mapping from the shim to it |
| `ShimProof` | proofs about the shim |
| `IsolatedWorktrees` | `workspace.py` and `cleanup_runs`: processes, the repository, run directories, the lock, faults and kills |
| `WorktreeLifecycle` | what isolated dispatch promises of one branch and worktree, as a life with four states |
| `WorktreeSafety` | the properties, the inductive invariant, the refinement mapping |
| `WorktreeProof` | proofs about the worktrees |
| `ProviderSetup` | one run of `setup providers`, with its properties and inductive invariant |
| `SetupProof` | proofs about it |
| `DocumentRules` | the rules of `workflow.py` and the normal form, as operators |
| `WorkflowSchema` | `schemas/workflow.schema.json`, stated on its own |
| `CycleSearch` | `_find_cycle`, step by step, with its properties and inductive invariant |
| `WorkflowValidation` | `validate_workflow`: head, tasks, cycle search; its inductive invariant |
| `ValidationProof` | proofs about the cycle search, the validation and the rules |
| `CommandWalk` | how the tripwires walk a shell command, and the grammar it is compared with |
| `Tripwires` | both hooks, composed with a session; their inductive invariant |
| `TripwireProof` | proofs about them |
| `MCWorkflow`, `MCClients`, `MCDelivery`, `MCShim`, `MCWorktree`, `MCSetup`, `MCValidation`, `MCTripwires` | small instances for TLC |

Abstract specifications sit on top, detailed ones below, and two contracts join
the latter: a vocabulary that scheduler and shim share, and the assumptions of
`WorkflowGraph`, which validation has to establish:

    DurableProgress <-- until overtaken -- WorkflowClients   CancelDelivery
          ^ implements
          |                          DispatchRecord          WorktreeLifecycle
          |                                ^ implements              ^ implements
    WorkflowScheduler -- ShimOutcome -- ShimDispatch         IsolatedWorktrees
          | extends                        | extends
    WorkflowGraph                    ProcessSupervisor       ProviderSetup
          ^ AcyclicAssumption
    WorkflowValidation --> CycleSearch, DocumentRules        Tripwires -- InvokesShim, RunsForeign -- CommandWalk

The scheduler does not contain the shim: it takes any outcome out of a constant
set `Outcomes`, assumed to lie within `ShimOutcome`, and assumes with
`CancellationExplained` that a recorded cancellation was an interrupt. The shim's
invariant `OutcomesCovered` shows both of what the scheduler reads off an ended
shim. The contract is much smaller than the product of the two state spaces, and
each side is checked and proved on its own.

Two modules look closer at what `WorkflowScheduler` takes as one step or one
process, and leave out what they do not need. A scheduler of `WorkflowClients` does
to `state.json` what `DurableProgress` allows, which is what `WorkflowScheduler` is
proved to do; what is added is that there are several processes, each with a copy
of the file. `CancelDelivery` takes `cancel_active` apart: `WorkflowScheduler` knows
only that it holds a lock from its beginning to its end, during which a handler that
is entered waits for ever, and `CancelDelivery` has each of its steps, of any number
of calls on the stack, and the shims it passes over.

In the same way `Tripwires` does not contain the walk over a command line. What the
walk finds in a command is two constants, `InvokesShim` and `RunsForeign`;
`MCTripwires` gives them the operators of `CommandWalk`, so that a run checks both
together, and the proofs hold whatever the walk finds.

### The scheduler

| TLA+ | code (`scheduler.py`) |
| --- | --- |
| `disk`, `mem` | `state.json`; `controller.state` of the process |
| `Persist` | `_StateController.write`: the whole document, the cancellation flag merged from the file |
| `mainPc` and `Poll` ... `EndCollect` | the loop of `_execute_scheduler`, one value per point where a thread switch matters |
| `MarkTask`, `EndMark` | one visit of `_mark_dependency_states`; the loop ends when nothing changes |
| `futures`, `completed`, `providerActive` | the variables of that name |
| `workerPc`, `BeginTask` ... `BackoffCancelled` | `_execute_task` and `ProductionTaskRunner.__call__` |
| `interrupted` | `send_signal(SIGINT)` reached the registered process |
| `cancelling`, `RequestCancel`, `CancelActive` | a call of `cancel_active`, from the loop or from the handler: it holds the runner's lock ("holding") until its signals are sent; a handler entered meanwhile waits for its own thread ("stuck") |
| `ShimsFree` | a worker that registers its shim, or takes it off, waits for the same lock |
| `WriteFails` | an `OSError` out of a write of the main thread while no worker runs |
| `runnerLock`, `AcquireLease`, `LeaseRefused` | the flock on `runner.lock` |
| `CancelProbe` ... `CancelSignal` | `cancel_workflow` in another process |
| `ResumeLoad`, `ResumeWrite` | `resume_workflow` before it takes the lease |
| `Crash`, `ProcessEnds` | the process is killed: memory, threads and flock are gone, `state.json` stays |
| `launches`, `asked`, `spent` | history for the properties and the bounds; no action reads the first two |

A step of a worker that changes the document is atomic because the code holds the
controller lock around it; while the main thread marks it holds that lock for
several steps, so those steps of workers wait (`LockFree`). The write itself is
an atomic rename and cannot be torn. The main thread reads task states for
`ready` and `unfinished` outside the lock; `Submittable` and `AfterSubmit` read
them at the step that uses them, and the comment there says why that is the same.

### Several processes over one workflow

| TLA+ | code (`scheduler.py`) |
| --- | --- |
| `disk`, `mem` | `state.json` and each process' copy, down to the finished tasks and the number of attempts of each |
| `Load` | `resume_workflow` reads `state.json` (749) |
| `Probe`, `Refused`, `EndProbe` | `_runner_active`: the probe takes `runner.lock` for an instant, and may make another process fail to get it |
| `ResumeWrite` | the rebuilt document is written (816-817), before the lease |
| `Acquire`, `Initialize`, `Release` | the lease and the first write of `_run_state_machine` |
| `Attempt`, `Settle`, `Finalize` | the writes of a scheduler, each of its whole document |
| `CancelProbe`, `CancelEndProbe` | the probe of `cancel_workflow`; what its flag does is in `WorkflowScheduler` |
| `Crash` | a process is killed and its flock falls |
| `met`, `overtaken` | history: schedulers that were at work since a process read the file; an old copy was written over a newer document. No action reads them |

### The delivery of a cancellation

| TLA+ | code (`scheduler.py`) |
| --- | --- |
| `lock` | `_ProductionRunner._lock`, a `threading.Lock` |
| `calls` | the calls of `cancel_active` on the main thread's stack; only the last one moves (`EnterLock`, `CopyActive`, `Send`, `Return`), and the loop not before all have returned |
| `Poll`, `EndCollect` | the two places of the loop that call it (601, 643) |
| `Handle` | `request_cancel` as signal handler, which Python enters on the main thread between any two steps |
| `event`, `recorded`, `requested` | `cancel_event`, `cancellationRequested` in the file and in memory; a write carries the second over to the third |
| `futures`, `completed` | the variables of that name: submitted and not collected; returned by the last `wait` |
| `CheckCancel` ... `Unregister` | a worker from its look at the event to the end of the `finally` clause around `process.wait()` |
| `CancelFlag`, `CancelSignal`, `Press` | the two steps of `cancel_workflow`; Ctrl+C |

### The shim

| TLA+ | code (`dispatch.py`, `process.py`) |
| --- | --- |
| `pc`, one action each | `dispatch_legacy` cut at every write that outlives the process |
| `Transition`, `TRANSITIONS` | `Lifecycle.transition` and its table; the run.json write and the event are one step |
| `verdict` | `final_status` and `exit_code`, or those of `_finish_early` |
| `FinalTry` | the two try blocks whose finally clause prints the sentinel |
| `Fault` | an `OSError` out of a write; a ledger row's is passed over |
| `adapter` | three flags of `ProviderAdapter` that change the control flow |
| `step`, `Supervise` | `run_process`; "terminating"/"grace" inside its try, "cancelling"/"cancelGrace" inside its except clause |
| `Cancels`, `Caught` | the `except KeyboardInterrupt` of `run_process` and the places it covers |
| `members`, `detached` | others in the provider's group; a descendant in a session of its own |
| `pumping`, `late` | pump threads not yet joined; output after the sentinel |
| `ExitCode`, `Clamp` | the exit status, with return codes of killed children negative |

### Isolated worktrees

| TLA+ | code (`workspace.py`, `run_store.py`) |
| --- | --- |
| `pc`, one action each | the code between two effects another process can see: a Git command, a file of the run directory, the lock |
| `lock`, `Acquire`, `Leave` | `RepositoryLock`: a blocking flock, released by the end of the `with`, whichever way |
| `branches`, `trees`, `dirty`, `landed` | the repository, as the commands see it; `landed` are the pieces of a dispatch (its commits, then the working patch) that reached the target |
| `files`, `integration` | the artifacts of a run directory; `result.json`'s `integration.status` |
| `PrepareAgain` ... `Rollback` | `prepare_isolated_worktree`; the retry, the refusal, the creation, its undoing |
| `CapturePatch`, `CaptureChangeset` | `capture_changes`: its files, in the order they are written |
| `CaptureFails` | one of its Git commands fails, which all come before the first file: the dispatch goes on to its result without a changeset |
| `StartApply`, `FindPatch`, `ReadManifest` | `apply_run` before it asks for the lock: the ownership record, the patch, the manifest, each read for itself while others may remove them |
| `TargetDirty` ... `RecordApply` | `apply_run` by patch and with `--commits`, and `_record_integration` |
| `StartDiscard` ... `RecordDiscard` | `discard_run`, its verification first |
| `StartCleanup` ... `CleanupDone` | `cleanup_runs`, directory by directory: the test of `Retained` and the removal are two steps, under no lock |
| `UserEdits` | the user changes the target checkout |
| `Fault`, `Crash` | a Git command or a write fails; a process is killed and its flock falls |

`Commits` is the number of commits a provider left, `Request` what each dispatch
asked for; a dispatch that resolves to the shared checkout is in the model too,
because cleanup looks at its directory.

### Provider setup

| TLA+ | code (`provider_setup.py`) |
| --- | --- |
| `pc`, one action each | the code between two points at which a signal makes a difference |
| `terminal`, `handled` | what `TtySession` set: the mode and the three handlers; "lost" is a terminal whose mode could not be set back (`tcsetattr` raised) |
| `Press`, `Moved` | `choose_providers` and `move_selection`, keys of the user; rows in the order of the registry |
| `queue`, `Current`, `Consider` | the loop of `install_selected` |
| `named`, `scripts` | `temporary_path`; script files on disk. `mkstemp` and the assignment are two steps (`MakeScript`, `NameScript`) |
| `installer`, `Terminate`, `Kill` | `run_installer` and `_terminate_installer` |
| `probe`, `VerifyWait`, `VerifySweep` | `run_bounded_capture` of the version command and its sweep, after which the output is judged |
| `Signal`, `raised`, `Unwind`, `Unlink` | the handler raises; the stack unwinds through the handlers and finally clauses in order; without the handler the process dies. A removal that fails is passed over |
| `Error`, `ExitStatus` | an exception that nobody catches: a traceback and status 1 |
| `struck`, `kept` | history: where signals arrived, and the scripts the system would not remove; for the properties only |

### Workflow validation

A document is a record whose parts may be `Absent`, `Null`, of another type
(`Wrong`), a number, one that is not finite (`NaN`, `Infinity`) or something equal to
one (`LikeOne`: `true`, `1.0`), and a path is one of the cases `_validate_prompt` tells
apart. What the code answers with a `TypeError` instead of its own error (a list or
an object looked up in a set of words) is not accepted either. The forms of `DocumentRules` (`RouteForm` to `DocumentForm`) say this for each
part: they are what `json.loads` can return, of any length and with any texts, as
far as the rules look. `DocumentRules` has one `...Accepted` and one `Normal...`
operator per `_normalize_*` function. `CycleSearch` keeps the
variables of `_find_cycle`: `color`, `path`, and `stack`, whose frames are a task
and the position of its iterator; one action per branch of the loop.
`WorkflowSchema` was written from the JSON schema alone.

### Tripwires

`DagBlocks` and `LedgerBlocks` are the two `main` functions, on a transcript whose
entries are what the hooks make of a line (`Seen`). Each reads the file for itself,
and one that cannot (`Unreadable`: no path, no file, or any line of the file that is
not JSON) lets the assistant stop. `torn` is a line that was cut short and stays so,
`unread` remembers which hooks have failed to read in this turn. The scan back to the last genuine
prompt is `Turn`, the positions from it on. A skill that a subagent names counts
for the turn, as in the code, its tools do not. `CommandWalk` follows
`_segment_invokes_shim` and `workflow_runner_calls` over sequences of tokens; a
segment is what `_command_segments` cut out, and a quoted command line is a token
whose contents `Script` gives. The session around them is external: prompts,
subagents, tool results, skills, tools.

## Plan

Done, in this order: the scheduler, because everything else is started by it and
its bugs cost the most; its abstract specification and refinement; its inductive
invariant and proofs; the shim with its supervision; the contract between the two;
the shim's first proofs; the worktrees, their life as an abstract specification and
its proof; the validation, so that the scheduler's assumptions have a source, and
the proof of the cycle search; the provider setup and its proofs; the tripwires; the
proofs of the shim's record, its contract and its refinement; the isolation of
failures; the setup's result; the whole of the validation; the tripwires' answers;
several processes over one workflow (`WorkflowClients`) and the delivery of a
cancellation (`CancelDelivery`), each with its inductive invariant proved; what an
apply leaves in the checkout.

Nothing of the plan is left. What a next step could add is a clock for the limits
that are NaN or Infinity, failing writes while workers run, and a product of
`WorkflowScheduler` with `WorkflowClients` that keeps the states of tasks besides what
a resume has to keep.

## What the runs check

Bounds are constants: `MaxCrashes`, `MaxResumes`, `MaxCancels`, `MaxInterrupts` of the
scheduler, `MaxFaults`, `MaxInterrupts`, `MaxKills` of the shim, `MaxCommands`,
`MaxFaults` of the worktrees, `MaxPresses` of the delivery, `MaxSignals` of the setup,
`MaxEntries` of a transcript. They bound the environment only; the program has no
counter of its own that grows without one (attempts are bounded by `MaxAttempts` per
process, and in `WorkflowClients`, which has no policy of retries, by `MaxHistory` per
task). Deadlock is not checked, because a finished scheduler, an ended shim, a
finished command, setup or validation rightly stop; that they do not stop earlier is
what `Termination`, `EveryShimEnds`, `CommandsEnd`, `CancelledRunEnds` and
`EveryTurnEnds` check.

| Run | Question | Instance |
| --- | --- | --- |
| `continue` | Do limits hold, does a failure block exactly what depends on it, and does the scheduler always have something to do? | five tasks: three roots, a dependent and a join two levels down; two workers, one slot for the provider of two roots, policy continue, verification, Ctrl+C; 169 171 states |
| `cancel` | What holds when a cancellation from another process and Ctrl+C arrive at any moment, with fail-fast, retries and every way a shim can end? | a fork of three tasks, two providers, 11 outcomes; 1 899 604 states |
| `resume` | What survives two crashes and two resumes at any steps, with a cancelling client, and does every process end that does not wait for itself? | a chain of two, the first retried, policy continue; weak fairness; 574 811 states |
| `shim` | Do record, ledger, sentinel, exit status and provider agree, and does the shim end? | one shim, three kinds of adapter, six return codes, one failing write, two interrupts, one kill; weak fairness; 44 880 states |
| `worktree` | Do prepare, apply, discard and cleanup by two processes keep branch, worktree and record together, and does each end? | an isolated and a shared dispatch, one commit and a working patch, four commands, one failing command or write, or one kill; weak fairness; 257 238 states |
| `setup` | What is left of the terminal, the script and the processes after signals, and is every selection dealt with? | three providers, any installed before, any keys, failures (of the terminal and of a removal too) and two signals (SIGINT, SIGTERM) anywhere; 448 618 states |
| `validation` | Is what is accepted acyclic, normal, within the schema and schedulable? | every legal graph of four tasks, any two dependencies in any order for two or three tasks, documents of two tasks with parts replaced by all values the rules tell apart; 62 278 states |
| `tripwires` | Does a hook block exactly for cause, does a turn end, and does the walk agree with the grammar? | transcripts of up to four entries, any line cut short, any read failing, about 300 command lines of up to four tokens or from a list; weak fairness; 243 410 states |
| `clients` | Is a copy that a resume goes on from ever out of date without another scheduler, and what is kept until it is written? | two tasks, the second after the first; the process that runs them and two that resume or cancel, all alike but the first; two attempts per task; 159 253 states |
| `delivery` | Can the main thread wait for a lock of its own, and does a cancelled run end? | two workers, Ctrl+C twice, one cancelling client; weak fairness; 172 931 states |
| `resume_after_cancel`, `cancel_deadlock` | one disagreement each, see below | the smallest instance that shows it |

Why these bounds are enough. A task's worker reads only its own state, the cancel
event and its dependencies, and the main thread treats tasks alike: two independent
roots exercise every interleaving of two workers, a dependent of one root every order
of a mark and a result, and a third root with two workers a task that has to wait for
a slot. A join two levels below a root makes blocking pass through a task that never
ran. A second crash is needed to interrupt a resume, a third adds nothing a second
does not leave on disk. A cancellation and a Ctrl+C cover a cancel event that is
already set. For the shim, two interrupts are the least that can cut the handling of
one short, and a failing write together with an interrupt and a kill covers every
pair. Two processes are the least of which one waits for the lock or reads before it
has it, and four commands take one dispatch through prepare, apply and discard with a
cleanup in between; a second dispatch shares lock and repository with the first. Of
several processes, one scheduler has to be at work while a resume holds a copy and
another has to overtake it or to be overtaken: three processes allow any two of them
to meet under the eyes of a third, and two attempts of a task make one that is
forgotten differ from none. For the delivery, two workers are the least of which one
registers while the other is passed over, and two Ctrl+C beside a client give the
stack three calls. For the setup, two signals are the least of which one interrupts
the handling of another, and three providers leave a row between the ends for the
cursor to pass and a selection after a failure. Four tasks allow a cycle entered from
outside and a task reached by two paths. Four tokens hold a wrapper with an option in
front of another and a command. The safety results that matter most are proved for all
sizes anyway.

What each property says is in the comment above it in its module. In short:

- `CapacityRespected`: the counters of the submit loop do not drift from the
  workers they stand for.
- `WriteAhead`: an attempt is on record before its process may exist, so no later
  process takes its number.
- `FinalStatusTruthful`: a final status agrees with every task, and no worker is
  left.
- `ProgressAlwaysMade`: the error "workflow scheduler made no progress" is not
  reachable.
- `ContinueIsolatesFailures`, `FailFastStopsSubmission`: the two policies.
- `CancellationNotLost`: a cancellation from another process survives every write.
- `ImplementsDurableProgress`: all of it as one abstract behaviour; `SuccessIsFinal`
  and `HistoryIntact`, what no step may take back, follow from it and are proved
  besides.
- `WorkflowInductive`: what all of these rest on, see [Proofs](#proofs). From it come,
  by proof, `DependenciesFirst` (a live worker's dependencies are successes *on disk*),
  `AttemptDirectoriesUnique` (no two attempts share a number) and
  `OnlyMarksUnpersisted` (memory is ahead of the file by nothing that happened).
- `StaleOnlyByScheduler`: probes, refused resumes, crashes and cancellations make no
  copy out of date; only another scheduler at work between read and lease does.
- `PromisesKeptUntilOvertaken`: the steps of all processes together are those of
  `DurableProgress`, until a process begins by writing an old copy over a newer
  document.
- `Termination`: a process that is not killed ends, unless a handler was entered while
  its thread was in `cancel_active`. How that comes about is the subject of
  `StuckNeedsTwoRequests`; that it is for ever, of the theorem `MainThreadStaysStuck`.
- `StuckNeedsTwoRequests`: one Ctrl+C alone never makes the main thread wait for its
  own lock. It takes a second signal, or a `workflow cancel` whose flag is found
  before its signal comes.
- `CancelledRunEnds`: and unless that happens, a cancelled run ends: no worker keeps
  the lock, and a shim that was passed over is waited for.
- `ProviderGoneBeforeSentinel`: no sentinel over a living process group.
- `RecordTruthful`, `LedgerTruthful`: what is on record happened; the row, the
  sentinel and the record agree; a row is an orphan only if the shim was cut short.
- `TransitionsNeverRefused`: the `RuntimeError` of `Lifecycle.transition` is dead
  code.
- `ImplementsDispatchRecord`: final state, then result, then sentinel, in
  agreement, whatever cuts the shim short.
- `EveryShimEnds`: whatever its provider does, ignores or leaves behind, and whether
  or not a pipe is ever closed, since no join of a pump waits for ever.
- `OutcomesCovered`: the shim's side of the contract.
- `WorktreeInductive`: the lock excludes, and nobody disturbs what its holder rests
  on between two of its steps, in spite of records read before the lock was taken.
- `OrphanedOnlyByCleanup`: without a fault a worktree loses its record to nothing but
  a cleanup that looked before the record was there. `NothingStrandedWithoutFault`,
  part of `WorktreeInductive`: no branch loses its worktree.
- `AppliedLandsUncommitted`: what is recorded as applied has its uncommitted changes
  in the checkout, whatever became of its commits, and though the user, other
  commands and faults come in between.
- `ImplementsWorktreeLifecycle`: `none`, `owned`, `orphan`, `stuck`, and no way out of
  the last two.
- `TerminalRestored`, `ScriptsAccountedFor`, `InstallerStopped`: what a run that is over
  has given back. Each names the places where a signal may still prevent it, and no
  others, and what the system may refuse: to set the mode of a terminal that is gone,
  or to remove a script. A script that is left is either such a one (`kept`) or the
  last provider's, so signals leave one at most.
- `OnlyMissingSelectable`: the cursor passes over installed rows in both directions
  and down and up lead back.
- `EverySelectionDealtWith`: a failure stops no other installer and is in the exit
  status.
- `AcceptedIsAcyclic`: `AcyclicAssumption` of the scheduler, from a search that
  shares colours between roots.
- `NormalisedMeetsSchema`, `NormalisedIsFixpoint`, `AcceptedIsSchedulable`: what the
  stored document is good for.
- `BlocksForCause`, `NothingSlipsThrough`: a hook's answer against what really
  happened in the turn. A turn that had cause to be stopped ends without a checkpoint
  only if the hook for that very cause could not read the transcript in this turn.
  `EveryTurnEnds`: `stop_hook_active` is looked at.
- `WalkExact`: a greedy walk that never goes back finds what a grammar with open
  boundaries allows, two cases of words of the shell apart. It is about the walk
  for shims; what the walk for runner calls (`ForeignRun`) finds is only composed.

## Disagreements found

Two runs end with a counterexample, each to one sentence of the documentation.
`PROJECT.json` quotes the sentence and the lines under `findings`.

| Run | What the code does |
| --- | --- |
| `resume_after_cancel` | `resume_workflow` clears the cancellation flag in memory, and the next write takes it over again from the file: a cancelled workflow that is resumed cancels itself. |
| `cancel_deadlock` | `cancel_active` takes a lock that is not reentrant, and the handler of SIGINT calls it on the thread that may be in it already. One `workflow cancel` is enough: it sets the flag, a worker's write takes it over, the main loop finds it and is in `cancel_active` when the signal of the same command arrives. The main thread then waits for itself, no shim is interrupted any more and the run never ends. |

The models show, or one step of the code does, the following as well; no run is
spent on them.

- *Overtaken resume.* A resume that reads `state.json` while a scheduler is at work
  goes on if that scheduler ends, or is killed, before the probe: it writes its old
  copy over what the scheduler recorded since, so that a finished task may be
  attempted again and a directory of an attempt be used again (`scheduler.py` 749,
  766, 817; `docs/workflows.md` 100). `StaleOnlyByScheduler` and
  `PromisesKeptUntilOvertaken` say that this takes such a meeting and nothing less.
- *Lost interrupt.* A cancellation between a worker's check of the event and the
  registration of its process interrupts nobody (`scheduler.py` 254;
  `docs/workflows.md`: "interrupts every active shim supervisor").
  `MissedOnlyBeforeRegistration` proves that the shims passed over are these and no
  others, `CancelledRunEnds` that the run ends all the same.
- *Fail-fast and a task that has not begun.* A submitted task whose worker has not
  yet recorded that it runs is marked as skipped and its dependents as blocked; it
  then runs, may succeed, and they stay blocked (`scheduler.py` 551;
  `docs/workflows.md` 66).
- *Two interrupts of a shim.* A second SIGINT while the first one terminates the
  provider ends the shim without a sentinel and leaves the provider running
  (`process.py` 268; `docs/architecture.md` 71). The scheduler sends one in every
  round.
- *Applied without commits.* A cherry-pick that fails without an unmerged path leaves
  an empty list of conflicts; the working patch is applied and the integration
  recorded as applied although the commit never landed (`workspace.py` 894;
  `docs/worktree-dispatch.md` 51). `AppliedLandsUncommitted` is what holds.
- *Running at a crash.* A task on record as running becomes cancelled at the first
  resume, not attempted again (`scheduler.py` 810).
- *One identifier twice.* Two shims with one dispatch identifier pass the check that
  its directory does not exist; the slower one sets a finished run back
  (`dispatch.py` 391, 395; `docs/architecture.md` 61). The refinement to
  `DispatchRecord` is therefore stated for distinct identifiers.
- *Sentinel not last.* A pump that has not ended after five seconds is left behind:
  a descendant of the provider outside its group keeps the pipe open, or the pump
  itself is blocked on the terminal. What it still has is forwarded after the sentinel
  (`process.py` 272).
- *Memory before disk.* `mutate` changes the document in memory and then writes it
  (`scheduler.py` 189-192). A worker's write that fails counts as a failure of its
  task, and memory stays ahead of the file until the next write that succeeds. A
  failing write of the main thread while workers run leaves the loop, and the executor
  waits for them on the way out. The scheduler's runs have a failing write only where
  no worker runs (`WriteFails`).
- *Cleanup and a worktree.* `cleanup_runs` tests for a retained worktree and removes
  the directory later, without the repository lock; a worktree prepared in between
  loses its record (`run_store.py` 163-176; `docs/worktree-dispatch.md` 55).
  `OrphanedOnlyByCleanup` says that nothing else does this.
- *Signals in the setup.* A signal in `TtySession.close` leaves the terminal changed,
  one between `mkstemp` and the assignment, or in the removal itself, leaves the script,
  one just after `Popen` leaves the installer (`provider_setup.py` 506-520, 835, 897,
  720; `docs/provider-cli-setup.md` promises to restore the terminal and to stop).
- *A script that stays.* A removal that fails is passed over without a word, and the
  script stays though the run reports success (`provider_setup.py` 897-902;
  `docs/provider-cli-setup.md` 111: "removes the temporary script after success,
  failure, timeout, or interruption"). `ScriptsAccountedFor` says that the scripts
  left are these and one more at most.
- *A provider without arguments.* `qwen` passes validation, but `_provider_args`
  raises for it (`scheduler.py` 287-312; `docs/workflows.md` 3, 50).
- *Numbers that are none.* JSON read by Python has NaN and Infinity (and makes one of
  `1e999`), and neither is below a limit: a `timeoutSeconds` of either is accepted and
  never expires (`workflow.py` 372), as is `SHIM_TIMEOUT_SECS=nan` (`dispatch.py` 593),
  while a `backoffSeconds` of Infinity makes the wait before a retry raise, so that the
  task fails instead (`scheduler.py` 534). `NormalisedMeetsSchema` excepts both.
- *Numbers that are like others.* A `schemaVersion` of `true` or `1.0` is equal to 1 and
  accepted (`workflow.py` 482), against the schema; the normal form has 1.
- *TypeError.* A list or an object where one of a few words is asked for (`mode`,
  `workspace`, an artifact, `failurePolicy` and the like) cannot be looked up in a set,
  and the document is answered with a traceback instead of the error that names the
  place (`workflow.py` 289, 331, 377, 442, 446).
- *Null.* An explicit `null` is accepted where the schema has no null; the normal form
  has none.
- *Words the tripwires do not know.* `timeout -s KILL 10 shim` and `env -u X shim`
  take an option's argument for the command; `VAR=x model-routing workflow run
  --host codex` is not seen as a runner call, and no runner call is judged without
  the marker of a workflow (`docs/workflows.md` 60). Nor are options of `exec`,
  `command` and `time` passed over. `WalkExact` is about the words both sides know.
- *Words of the shell.* Assignments are passed over before `then`, `do`, `!` and their
  like and not behind them: `then A=1 shim` is missed. Where such a word is an argument
  it is passed over too: in `nohup then shim` no shim is run and one is found
  (`dag-tripwire.py` 64-73). `WalkExact` names both.
- *Any word with a c.* Behind `bash` the walk for runner calls takes the token after
  the first one that has a `c` in it for a command line, were it the name of a script:
  `bash script.sh 'model-routing workflow run ...'` runs none and may be blocked
  (`dag-tripwire.py` 210).
- *Transcripts that cannot be read.* By design a hook that meets a parse problem returns
  0. It parses the whole file, so one line that was cut short lets not only its turn
  but all later ones end unjudged (`dag-tripwire.py` 257-268 and
  `ledger-tripwire.py` 195-207). `NothingSlipsThrough` excepts a hook that could not
  read, and no other.
- *hooks.json.* `HookRunner._load` lets a `UnicodeDecodeError` out, which ends the
  shim although `docs/lifecycle-hooks.md` calls hooks fail-open.

## Fairness

Only what the code and the operating system see to is fair.

- `WF(Main)`, `WF(Worker(t))`: a thread that can take a step takes it. The
  controller lock is held for finitely many steps and so never starves anyone, and so
  is the runner's lock, unless a handler waits for it on the thread that holds it:
  then no step of that thread can be taken, and fairness asks for none.
  `Worker(t)` includes the end of the shim process, which is justified by
  `EveryShimEnds` of `ShimDispatch`.
- `WF(Main)`, `WF(Worker(t))`, `WF(ShimExits(t))` of `CancelDelivery`: the same of its
  threads and shims. A thread that waits for the lock is not fair by that; it gets it
  because whoever holds it lets it go and takes it a bounded number of times.
- `WF(Client)`: a `workflow cancel` that holds the lease as a probe lets it go.
- `WF(Shim(s))`: the shim runs. Its waits are bounded: polling by the time limit,
  the two grace periods, five seconds for each pump thread. The time limit is the
  fair action `TimesOut`, so a provider that never ends is covered. Nothing is asked
  of the provider, of its descendants or of the pipes they hold.
- `WF(Step(p))` of the worktrees: a process that is not waiting for the lock goes on,
  and one that waits is granted it again and again. `flock` is not fair, but
  commands are bounded, so that the lock is free for good for the last who waits;
  with endless commands a process could starve, in the model as in the code.
- `WF(Stop({}))`, `WF(Result)` of the tripwires: a running command returns, and the
  assistant tries to stop in the end. `Stop({})` is a stop at which both hooks can read
  the file if it is whole; a stop at which one cannot may happen instead, and makes
  the end of the turn no less likely.
- The runs `continue`, `cancel`, `clients`, `setup` and `validation` check safety only and state
  no fairness.
- Nothing else is fair: nobody has to resume, cancel or interrupt; no write has to
  fail; no provider has to end, or to honour SIGTERM.

## Proofs

The theorems hold for any finite set of tasks, any acyclic dependencies, any limits
and policies, any number of crashes, resumes, cancellations and interrupts, by any
number of processes; for any number of shims, adapters, return codes and faults; for
any number of processes, dispatches, commits, commands and kills over a repository;
for any registry of providers, rows already installed and signals; for any document
and any catalogue of providers and models; for any transcript and any command lines.

The assumptions, all evaluated by TLC on the instances:

- `TasksAssumption`, `LimitsAssumption`: what `validate_workflow` lets through.
- `AcyclicAssumption`: every set of tasks has one that depends on none of the
  others. Used in one place, `EndSubmitProgresses`: among the unfinished tasks one has
  only finished dependencies, so the marks have made it ready or ended it.
- `OutcomesAssumption`: the scheduler meets outcomes of `ShimOutcome`.
- `ClientsAssumption`, `DeliveryAssumption`: the graph is finite and one process is the
  first; "free" and "main" are no tasks. Neither needs the graph to be acyclic.
- `BoundsAssumption`, `DispatchAssumption`, `WorktreeAssumption`, `SetupAssumption`:
  types of the remaining constants; `Free` is no process, the registry is not empty.
- `MarkersAssumption`: what stands for a missing key, for null, for a value of
  another type, for NaN, for Infinity and for what is equal to 1 is nothing else
  besides. It is about the encoding and not about the code.
- `CatalogAssumption`: names and efforts of the registry are texts, which
  `load_registry` checks.
- `DocumentsAssumption`: a document is one that `json.loads` can return. A document
  that breaks any rule is among them.
- `CommandsAssumption`: the walk over a command answers yes or no.
- `CycleSearch` needs none: that a search starts from a graph is part of
  `SearchInit`.

One hypothesis is not an assumption of a module. `RecordIsTruthful`,
`EveryOutcomeCovered` and `RecordImplemented` are stated for `DistinctDispatches`,
shims with distinct identifiers, since two shims that share a directory overwrite each
other's record: see *One identifier twice* above. An identifier is a fresh UUID unless
the environment gives one.

**The scheduler.** None of its safety properties is inductive, because each
speaks of the document on disk and the actions work on the one in memory, on
futures and on places of threads. `WorkflowInvariant` joins them:

| Part | Says | Needed for |
| --- | --- | --- |
| `Threads` | worker threads are exactly the futures; a batch holds finished ones | everything: a crash and a collect are then the same for all parts |
| `Counters` | `providerActive` counts futures, within the limits | `CapacityRespected` |
| `Persisted` | memory differs from disk by marks only, and how a resumed document does | carries every fact about memory over to disk |
| `Ordered` | ready, submitted and running tasks have successful dependencies; futures are no successes | `DependenciesFirst`, `SuccessIsFinal` |
| `Numbered` | a worker's place gives the number of its attempt | `WriteAhead`, `HistoryIntact` |
| `Handed` | numbers given to the runner rise and lie within the history | `AttemptDirectoriesUnique` |
| `Statused` | the status on disk follows the main thread | `FinalStatusTruthful` |
| `Marked` | after the marks nothing is left to mark | `ProgressAlwaysMade` |
| `Isolated` | the dependencies of a success are successes; under "continue" nothing is skipped, what is blocked has a failed dependency, and no task is marked under its worker's hands | `ContinueIsolatesFailures` |

`WorkflowProof` first proves `TypeCorrect` and `InductiveHolds`, all parts but
the last, one lemma per action or group of actions that leave the same variables
alone. Then it adds `Isolated` and proves the whole as
`WorkflowInductiveHolds`, the form TLC checks. Under "continue" a task ends as
blocked only because of one it depends on, so no history of the marks is needed: the
cause of a mark is still there when the scheduler is done, because nothing but a
resume takes a failure back, and a resume takes every mark back with it. The module
derives the state properties from the invariant, proves the action properties step
by step and shows that every step of the scheduler is a step of `DurableProgress` or
leaves its three variables alone: recording an attempt is `Attempt`, collecting a
result is `Settle`, the end of the process is `Abandon`.

**Several processes.** `StaleOnlyByScheduler` is part of its own inductive invariant,
`ClientsInductive`, with what it needs: `LeaseExcludes` (whoever is where the lease
is needed holds it, and nobody else), `SchedulerInStep` (a scheduler in its loop has
the file in mind, until an old copy is written) and `MeetsSchedulers` (a resume under
way has met every scheduler that may still write). The last is the heart of it: only
schedulers change the tasks and attempts on record to anything new, so a copy that
is still the file can only go out of date by one that `met` has. `PromisesKept` then
takes the steps one by one. The same module shows that the first old copy is written
by a process that has met a scheduler since it read (`OvertakingNeedsMeeting`).

**The delivery.** `DeliveryInductive` joins `LockExcludes` (of all calls on the stack
at most one is in its critical section, and the lock says whether one is),
`CallsHaveCause` (there are no more calls on the stack than signals came, and one for
the flag) and `RegisteredWhileItRuns`. When the last call waits for a lock that its
own thread holds there are two calls, so two causes: `StuckNeedsTwoRequests`.
`StuckForGood` shows that nothing ever gets the main thread out, a further signal
included, whose call waits on top of the others. The stack is a sequence that is
changed at its end only; `Replaced`, `Pushed` and `Popped` say what that leaves alone.

**The shim.** `ShimProof` proves `ShimTypeCorrect`, together with `Decided` (whoever
is on the way out knows how the dispatch ended; without it a record could lack its
status, and the types are not inductive), and `ProviderGone`. For the latter,
`Supervised` ties the state of the provider's group to where the supervision is,
and `Placed` ties that to where the shim is: an interrupt may leave the
supervision anywhere, but then no sentinel follows, because the try that prints it
begins only after `run_process` has returned.

What is on record follows from four invariants, each for one shim and by its place:

| Part | Says | Gives |
| --- | --- | --- |
| `LifeInv` | the state in memory when a transition is about to be taken | `TableNeverRefuses` |
| `VerdictInv` | how the verdict goes with the state, the supervision's flags and the return code | the other three rest on it |
| `LedgerInv` | the rows are none, a start, an end, or both in this order, and the end agrees with the verdict | `LedgerIsTruthful` |
| `RecordInv` | what `run.json` and `result.json` of the shim's own directory hold | `RecordIsTruthful`, `EveryOutcomeCovered`, `RecordImplemented` |

The table of transitions is never refused because every early end leaves from a
state that has "failed" or "preflight_failed" next to it. The first three invariants
hold for any identifiers, because they speak of what one shim alone writes.
`RecordInv` is about a directory and needs `DistinctDispatches`. The refinement maps
a written `run.json` to the state, a written `result.json` to the result and the
printed line to the sentinel.

**The worktrees.** `WorktreeInductive` joins the types, `Exclusive`, `HolderUndisturbed`
and `NothingStrandedWithoutFault`: that nothing is stranded rests on what the holder
of the lock may still take for granted, and that on the lock. Of the thirty-odd
actions most are *quiet*: they leave branches, trees and ownership records alone and
keep the holder where its place means nothing (`StepIsQuiet`, `QuietKeepsInductive`,
`QuietKeepsLife`). The nine that are not are the ones that map to a step of
`WorktreeLifecycle`, one lemma `...Turns` each. `ImplementsLifecycle`,
`RecordsAreLostToCleanup` and `WorktreesAreTakenByDiscard` come from the same two
halves. `AppliesLandUncommitted` needs one thing more, `AppliedIsLanded`: a process
that is about to record an apply has landed the working patch of its dispatch. Nothing
takes a piece out of the checkout, and a patch is written by a capture alone, which
holds the lock as the apply does: `Exclusive`.

**The setup.** `SetupInductive` says place by place what is held: `Handled`
(handlers are in place wherever a signal would leave something), `TerminalTracked`,
`ScriptTracked` (but for those that could not be removed, the one script on disk is the
current provider's and has its name), `InstallerTracked`, `ProbeSwept`. A signal may
come at any place, so the parts except the places that the guarantees except; that a
signal leaves one script at most is so because no provider is dealt with after it.
`Unjudged` says that no version command is judged before it has been swept. The current provider is the least row
of the queue: `FirstIsIn` gets a least element of a set of numbers from the
well-founded order on them, without induction. For `EverySelectionDealtWith` come
`ResultsTrue` (a provider with the result "installed" is installed), `Dealt` (inside
the loop a selected provider has a result or is still queued, and the current one
has a result at every place from which the loop goes on) and `Summed` (the exit
status is that of the results from the summary on). The device of the least row also
proves `DownAndUp`: the next missing row is the first hit going round, and going
back from there the row left behind is the first hit again (`ForthAndBack`,
`MovedIsFirstHit`).

**The cycle search.** `SearchInductive`, proved in `ValidationProof`, joins
`GrayIsPath` (the two stacks and the gray tasks are one thing), `PathIsChain` (each
task of the path has the next for its current child; what its iterator has passed is
black), `BlackIsSettled` (black tasks depend on black tasks and not in a circle) and
`NothingPassedIsWhite`. When the last search ends everything is black, and
`BlackIsSettled` is then the assumption of the scheduler. A set of tasks closes no
circle when a task is settled because its dependencies were settled before it.

**The validation.** `ValidationInductive` says what has been accepted and normalised
so far, that the search runs over the dependencies of the normal form, and contains
`SearchInductive`; so `AcceptedIsAcyclic` is proved twice, for a search over any graph
and for the searches validation starts. The rest is about the rules. For each part
of a document one lemma (`NormalRoutes`, `NormalRetries`, `NormalVerifies`,
`NormalContexts`, `NormalDeps`, `Prompts`, `NormalDefaultsHold`) takes any part of its
form that is accepted and shows four things of its normal form: it has the form, it
is accepted, normalising it changes nothing, and it meets the schema. `NormalTasks`
joins them and adds what the scheduler needs (`Runnable`). Two facts hide under
these: an alias resolves to a model that no alias leads away from (`CanonicalModels`),
and sorting a list without duplicates keeps its members and is the identity on a
sorted one (`Members`, `Ordering`, `Sorted`), both without induction, from the
number of smaller members of each. The schema was written from
`workflow.schema.json` and not from the code, so that `StoredDocumentsMeetSchema`
compares two texts; its exception for `NaN` and `Infinity` is the one found above.

**The tripwires.** `TurnIsKnown` says that what the hooks read off the transcript is
what happened since the last genuine prompt. It is kept because entries are only
appended: a prompt starts a turn with nothing in it, and any other entry adds to the
turn what it adds to the history, and to nothing else (a tool result, a subagent's
tools). `NothingSlipsThrough` needs in addition that a hook which does not look
(`stop_hook_active`) follows a hook that has blocked in this turn, and that a hook which
could not read is remembered until the next prompt; it is part of
`TripwireInductive` and proved with it. `BlocksForCause` then follows step by step.

**Model-checked only.** `Termination`, `EveryShimEnds`, `CommandsEnd`,
`CancelledRunEnds` and `EveryTurnEnds`, since liveness under fairness is beyond the
prover. `WalkExact`: `CommandWalk` declares RECURSIVE operators, what a recursive
definition computes for every input is induction over data, and both are beyond it;
the grammar it is compared with knows the words of the instance and no others. Every
other property of a passing run is a theorem.

**Proved and not run.** Of the scheduler `TypeOK`, `DependenciesFirst`,
`AttemptDirectoriesUnique`, `OnlyMarksUnpersisted`, `SuccessIsFinal`, `HistoryIntact`;
of several processes `ClientsInductive`, `OvertakenByMeeting`; of the delivery
`DeliveryInductive`, `StuckForGood`, `MissedOnlyBeforeRegistration`; of shim and
worktrees `TypeOK`, `Exclusive`, `HolderUndisturbed`, `NothingStrandedWithoutFault`,
`TakenOnlyByDiscard`; `ValidationInductive`, `ReportedCycleIsReal`, `GrayIsPath`,
`SearchInductive`, `TripwireInductive`. They are parts or consequences of an invariant
or a refinement that a run checks, or what such a property rests on.

## What is abstracted and what is left out

- Prompts, context files, artifacts, models, time stamps, identifiers and the
  contents of events and records carry no control. A provider's output is
  present only in whether it comes before or after the sentinel.
- Time. A limit that has not been reached may be reached. That a limit is a number
  at all is assumed; `SHIM_TIMEOUT_SECS=nan` is listed as a hazard.
- Return codes: six that the code tells apart in TLC, all integers in the proofs.
  Exit statuses that the scheduler does not tell apart are one (`Seen`).
- Atomic renames and `flock` are taken to work as documented by the system. A crash
  is that of a process, not of the machine.
- `WorkflowScheduler` has `cancel_active` in two steps, the taking of its lock and
  everything else, and a worker's registration of its shim as one. `CancelDelivery`
  takes them apart and leaves out retries, dependencies, limits and results: any task
  may be submitted, and another attempt is like another task. The lock inside
  `cancel_event`, which is not the program's, is taken to be atomic.
- A failing write of `state.json` while workers run, see *Memory before disk*.
- A hook of the assistant is assumed to find all entries of the turn in the file when it
  runs, but for a line that was cut short.
- A run of a hook cannot change the course of a dispatch and is part of the step
  that emits its event.
- `run_bounded_capture`, the simpler variant of `run_process`, is modelled where the
  setup verifies a version. Discovery, doctor and hooks call it and keep no state
  around it.
- Git: a command that changes the repository is atomic and may be refused. The
  contents of a patch are a set of pieces. A failing write in a capture ends the
  dispatch without a result, as a kill there does, and is `Crash`.
- Drawing, the manifest's shape checks and the download itself: the setup sees
  their outcomes.
- Texts, paths and aliases of a document are members of small sets; error messages
  and the digest are left out. Quoting and separators of a shell line are
  abstracted to segments of tokens.
- `WorkflowClients` keeps of `state.json` the finished tasks and the attempts, which
  is what a resume has to keep. Status and flag are the subject of
  `WorkflowScheduler`, where one process at a time runs, resumes and cancels.
- The command line, the registry, discovery, doctor, shell entry points, the
  installers and repository tools: they parse, check, print or copy, keep no state
  between calls and have no order of steps to get wrong.
