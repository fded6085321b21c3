------------------------- MODULE IsolatedWorktrees -------------------------
(***************************************************************************)
(* workspace.py and the retention of run_store.py: processes that dispatch *)
(* into an isolated Git worktree, apply what was captured, discard the     *)
(* worktree and clean up run directories, over one repository with one     *)
(* checkout, which is both the source and the target.                      *)
(*                                                                         *)
(* A step is the code between two effects another process can see: a Git   *)
(* command that changes the repository, a file of the run directory, or    *)
(* taking the repository lock.  Git is external: a command that changes    *)
(* the repository is atomic, and may be refused.  A fault is a command or  *)
(* a write that fails, or a process that is killed.                        *)
(***************************************************************************)
EXTENDS Naturals, FiniteSets

CONSTANTS
  Dispatches,   \* dispatch identifiers
  Processes,    \* each runs one command at a time
  Free,         \* nobody holds the repository lock
  Request,      \* --routing-workspace and --routing-task-mode of a dispatch
  Rebased,      \* dispatches with --routing-base
  Commits,      \* commits a provider leaves in its worktree
  MaxCommands, MaxFaults   \* bounds on the environment

ASSUME WorktreeAssumption ==
  /\ Free \notin Processes
  /\ Request \in [Dispatches -> [mode : {"shared", "isolated", "auto"},
                                 task : {"read", "write", "unset"}]]
  /\ Rebased \subseteq Dispatches
  /\ Commits \in Nat /\ MaxCommands \in Nat /\ MaxFaults \in Nat

VARIABLES
  branches,     \* dispatches whose branch exists
  trees,        \* dispatches whose worktree is registered on its branch
  dirty,        \* the checkout has uncommitted changes
  landed,       \* what of a dispatch's changes reached the checkout
  files,        \* the run directory of a dispatch, and what is in it
  integration,  \* integration.status of result.json, "none" without one
  lock,         \* the process that holds the repository lock
  pc,           \* where each process is
  job,          \* the dispatch its command is about
  picked,       \* commits its apply has cherry-picked
  todo,         \* run directories its cleanup has yet to look at
  commands, faults   \* commands started and faults so far

repoVars == <<branches, trees, dirty, landed>>
runVars == <<files, integration>>
procVars == <<pc, job, picked, todo>>
vars == <<repoVars, runVars, lock, procVars, commands, faults>>

\* The last piece is working.patch, the changes not committed.
Piece == 1 .. Commits + 1
Artifact == {"directory", "workspace.json", "changes.patch", "changeset.json"}
Integration == {"none", "not_applied", "applied", "conflicted", "discarded"}

\* Blocked in RepositoryLock.acquire, and where that leads.
Critical ==
  [prepareWait |-> "prepare", captureWait |-> "capture",
   patchWait |-> "patch", pickWait |-> "pick", discardWait |-> "discard"]
Waiting == DOMAIN Critical

\* apply_run has read the record: it is to find the patch, then the manifest.
Reading ==
  [patchFind |-> "patchRead", pickFind |-> "pickRead",
   patchRead |-> "patchWait", pickRead |-> "pickWait"]
Holding == {"prepare", "record", "rollback", "capture", "changeset", "patch",
            "pick", "picking", "working", "applied", "conflicted", "discard",
            "remove", "deleteBranch", "recordDiscard"}
Pc == Waiting \cup DOMAIN Reading \cup Holding \cup
      {"idle", "running", "shared", "result", "cleanup", "rmtree"}

ResolveWorkspace(request) ==
  IF request.mode # "auto" THEN request.mode
  ELSE CASE request.task = "read"  -> "shared"
         [] request.task = "write" -> "isolated"
         [] OTHER                  -> "refused"

Init ==
  /\ branches = {} /\ trees = {} /\ dirty = FALSE
  /\ landed = [d \in Dispatches |-> {}]
  /\ files = [d \in Dispatches |-> {}]
  /\ integration = [d \in Dispatches |-> "none"]
  /\ lock = Free
  /\ pc = [p \in Processes |-> "idle"]
  /\ \E d \in Dispatches : job = [p \in Processes |-> d]
  /\ picked = [p \in Processes |-> 0]
  /\ todo = [p \in Processes |-> {}]
  /\ commands = 0 /\ faults = 0

-----------------------------------------------------------------------------
Has(d, artifact) == artifact \in files[d]

\* Every write below the run directory, and RunStore.create, makes it.
Put(d, artifacts) ==
  files' = [files EXCEPT ![d] = @ \cup {"directory"} \cup artifacts]

Goto(p, place) == pc' = [pc EXCEPT ![p] = place]

\* The with statement ends, whichever way.
Leave(p, place) == Goto(p, place) /\ lock' = Free

Fault == faults < MaxFaults /\ faults' = faults + 1

Start(p) ==
  /\ pc[p] = "idle"
  /\ commands < MaxCommands
  /\ commands' = commands + 1

About(p, d) == job' = [job EXCEPT ![p] = d]

\* Variant with a mistake: the lock is not waited for.
AcquireAnyway(p) ==
  /\ pc[p] \in Waiting
  /\ lock' = p
  /\ Goto(p, Critical[pc[p]])
  /\ UNCHANGED <<repoVars, runVars, job, picked, todo, commands, faults>>

\* flock(LOCK_EX): the kernel grants it to one of those that wait.
Acquire(p) ==
  /\ pc[p] \in Waiting
  /\ lock = Free
  /\ lock' = p
  /\ Goto(p, Critical[pc[p]])
  /\ UNCHANGED <<repoVars, runVars, job, picked, todo, commands, faults>>

\* load_worktree_metadata finds the record of the dispatch.
Recorded(d) == Has(d, "workspace.json")

-----------------------------------------------------------------------------
(* A dispatch: prepare_isolated_worktree, the provider, capture_changes.   *)

StartDispatch(p, d) ==
  LET mode == ResolveWorkspace(Request[d]) IN
  /\ mode # "refused"
  /\ Start(p) /\ About(p, d)
  /\ Put(d, {})
  /\ Goto(p, IF mode = "isolated" THEN "prepareWait" ELSE "shared")
  /\ UNCHANGED <<repoVars, integration, lock, picked, todo, faults>>

\* The branch exists: an idempotent retry of the same dispatch.
PrepareAgain(p) ==
  LET d == job[p] IN
  /\ pc[p] = "prepare"
  /\ d \in branches \cap trees /\ Recorded(d)
  /\ Leave(p, "running")
  /\ UNCHANGED <<repoVars, runVars, job, picked, todo, commands, faults>>

\* BranchCollisionError, DirtySourceError, or git worktree add refuses.
PrepareRefused(p) ==
  LET d == job[p] IN
  /\ pc[p] = "prepare"
  /\ \/ d \in branches /\ ~(d \in trees /\ Recorded(d)) /\ UNCHANGED faults
     \/ d \notin branches /\ dirty /\ d \notin Rebased /\ UNCHANGED faults
     \/ d \notin branches /\ Fault
  /\ Leave(p, "result")
  /\ UNCHANGED <<repoVars, runVars, job, picked, todo, commands>>

AddWorktree(p) ==
  LET d == job[p] IN
  /\ pc[p] = "prepare"
  /\ d \notin branches \cup trees
  /\ dirty => d \in Rebased
  /\ branches' = branches \cup {d}
  /\ trees' = trees \cup {d}
  /\ Goto(p, "record")
  /\ UNCHANGED <<dirty, landed, runVars, lock, job, picked, todo, commands, faults>>

\* Variant with a mistake: the lock is given up before the record is written.
WriteRecordLater(p) ==
  /\ pc[p] = "record"
  /\ Leave(p, "running")
  /\ UNCHANGED <<repoVars, runVars, job, picked, todo, commands, faults>>

WriteRecord(p) ==
  /\ pc[p] = "record"
  /\ Put(job[p], {"workspace.json"})
  /\ Leave(p, "running")
  /\ UNCHANGED <<repoVars, integration, job, picked, todo, commands, faults>>

RecordFails(p) ==
  /\ pc[p] = "record"
  /\ Fault
  /\ Goto(p, "rollback")
  /\ UNCHANGED <<repoVars, runVars, lock, job, picked, todo, commands>>

\* _safe_remove_worktree: the directory goes, the branch if Git lets it.
\* The OSError is none of the exceptions dispatch.py expects here.
Rollback(p) ==
  /\ pc[p] = "rollback"
  /\ \E kept \in SUBSET {job[p]} : branches' = branches \ ({job[p]} \ kept)
  /\ trees' = trees \ {job[p]}
  /\ Leave(p, "idle")
  /\ UNCHANGED <<dirty, landed, runVars, job, picked, todo, commands, faults>>

\* wt_path.exists() is asked before the lock is taken.
ProviderExits(p) ==
  /\ \/ pc[p] = "running" /\ Goto(p, IF job[p] \in trees THEN "captureWait" ELSE "result")
     \/ pc[p] = "shared" /\ Goto(p, "result")
  /\ UNCHANGED <<repoVars, runVars, lock, job, picked, todo, commands, faults>>

\* Every Git command of the capture comes before the first file it writes.  A
\* file that cannot be written ends the dispatch without a result, like a kill.
CaptureFails(p) ==
  /\ pc[p] = "capture"
  /\ Fault
  /\ Leave(p, "result")
  /\ UNCHANGED <<repoVars, runVars, job, picked, todo, commands>>

CapturePatch(p) ==
  /\ pc[p] = "capture"
  /\ IF job[p] \in trees
     THEN Put(job[p], {"changes.patch"}) /\ Goto(p, "changeset") /\ UNCHANGED lock
     ELSE Leave(p, "result") /\ UNCHANGED files
  /\ UNCHANGED <<repoVars, integration, job, picked, todo, commands, faults>>

\* Ends with _ensure_integration_status(store, "not_applied").
CaptureChangeset(p) ==
  LET d == job[p] IN
  /\ pc[p] = "changeset"
  /\ Put(d, {"changeset.json"})
  /\ integration' = [integration EXCEPT ![d] = IF @ = "none" THEN @ ELSE "not_applied"]
  /\ Leave(p, "result")
  /\ UNCHANGED <<repoVars, job, picked, todo, commands, faults>>

\* dispatch.py writes result.json without the repository lock.
WriteResult(p) ==
  /\ pc[p] = "result"
  /\ Put(job[p], {})
  /\ integration' = [integration EXCEPT ![job[p]] = "not_applied"]
  /\ Goto(p, "idle")
  /\ UNCHANGED <<repoVars, lock, job, picked, todo, commands, faults>>

-----------------------------------------------------------------------------
(* apply_run: the record, the patch and the manifest are read one after    *)
(* the other, without the lock; what is missing, or does not go together   *)
(* any more, is refused.                                                   *)

StartApply(p, d, find) ==
  /\ Start(p) /\ About(p, d)
  /\ Put(d, {})
  /\ \/ Goto(p, "idle")
     \/ Recorded(d) /\ Goto(p, find)
  /\ picked' = [picked EXCEPT ![p] = 0]
  /\ UNCHANGED <<repoVars, integration, lock, todo, faults>>

FindPatch(p) ==
  LET d == job[p] IN
  /\ pc[p] \in {"patchFind", "pickFind"}
  /\ Put(d, {})
  /\ Goto(p, IF Has(d, "changes.patch") THEN Reading[pc[p]] ELSE "idle")
  /\ UNCHANGED <<repoVars, integration, lock, job, picked, todo, commands, faults>>

\* The manifest against the patches; one of them that is gone is not compared.
ReadManifest(p) ==
  /\ pc[p] \in {"patchRead", "pickRead"}
  /\ \/ Goto(p, "idle")
     \/ Has(job[p], "changeset.json") /\ Goto(p, Reading[pc[p]])
  /\ UNCHANGED <<repoVars, runVars, lock, job, picked, todo, commands, faults>>

\* Variant with a mistake: the early return keeps the lock.
TargetDirtyKeepsLock(p) ==
  /\ pc[p] \in {"patch", "pick"} /\ dirty
  /\ Goto(p, "idle")
  /\ UNCHANGED <<repoVars, runVars, lock, job, picked, todo, commands, faults>>

TargetDirty(p) ==
  /\ pc[p] \in {"patch", "pick"} /\ dirty
  /\ Leave(p, "idle")
  /\ UNCHANGED <<repoVars, runVars, job, picked, todo, commands, faults>>

Land(d, pieces) == landed' = [landed EXCEPT ![d] = @ \cup pieces]

\* changes.patch is applied, or leaves a conflict for the user, or is gone.
ApplyPatch(p) ==
  LET d == job[p] IN
  /\ pc[p] = "patch" /\ ~dirty
  /\ \/ /\ Has(d, "changes.patch")
        /\ Land(d, Piece) /\ dirty' = TRUE
        /\ Goto(p, "applied") /\ UNCHANGED lock
     \/ /\ Has(d, "changes.patch")
        /\ dirty' \in BOOLEAN
        /\ Goto(p, "conflicted") /\ UNCHANGED <<lock, landed>>
     \/ /\ ~Has(d, "changes.patch")
        /\ Leave(p, "idle") /\ UNCHANGED <<dirty, landed>>
  /\ UNCHANGED <<branches, trees, runVars, job, picked, todo, commands, faults>>

BeginPicks(p) ==
  /\ pc[p] = "pick" /\ ~dirty
  /\ Goto(p, "picking")
  /\ UNCHANGED <<repoVars, runVars, lock, job, picked, todo, commands, faults>>

\* One git cherry-pick.  It may fail and leave no unmerged path: nothing to
\* commit, or a merge; the list of conflicted files stays empty.
PickCommit(p) ==
  /\ pc[p] = "picking"
  /\ \/ /\ picked[p] = Commits
        /\ Goto(p, "working") /\ UNCHANGED <<landed, dirty, picked>>
     \/ /\ picked[p] < Commits
        /\ picked' = [picked EXCEPT ![p] = @ + 1]
        /\ Land(job[p], {picked[p] + 1})
        /\ UNCHANGED <<pc, dirty>>
     \/ /\ picked[p] < Commits
        /\ \/ Goto(p, "conflicted") /\ dirty' = TRUE
           \/ Goto(p, "working") /\ UNCHANGED dirty
        /\ UNCHANGED <<landed, picked>>
  /\ UNCHANGED <<branches, trees, runVars, lock, job, todo, commands, faults>>

\* Variant with a mistake: the outcome of git apply is not looked at.
ApplyWorkingUnchecked(p) ==
  LET d == job[p] IN
  /\ pc[p] = "working"
  /\ \/ Has(d, "changes.patch") /\ Land(d, {Commits + 1}) /\ dirty' = TRUE
     \/ dirty' \in {dirty, TRUE} /\ UNCHANGED landed
  /\ Goto(p, "applied")
  /\ UNCHANGED <<branches, trees, runVars, lock, job, picked, todo, commands, faults>>

\* if not conflicted: what the provider left uncommitted.
ApplyWorking(p) ==
  LET d == job[p] IN
  /\ pc[p] = "working"
  /\ \/ Has(d, "changes.patch") /\ Land(d, {Commits + 1}) /\ dirty' = TRUE /\ Goto(p, "applied")
     \/ Has(d, "changes.patch") /\ dirty' \in {dirty, TRUE} /\ UNCHANGED landed /\ Goto(p, "conflicted")
     \/ ~Has(d, "changes.patch") /\ UNCHANGED <<landed, dirty>> /\ Goto(p, "applied")
  /\ UNCHANGED <<branches, trees, runVars, lock, job, picked, todo, commands, faults>>

\* _record_integration raises without a terminal result.json.
RecordApply(p) ==
  /\ pc[p] \in {"applied", "conflicted"}
  /\ integration' = [integration EXCEPT ![job[p]] = IF @ = "none" THEN @ ELSE pc[p]]
  /\ Leave(p, "idle")
  /\ UNCHANGED <<repoVars, files, job, picked, todo, commands, faults>>

-----------------------------------------------------------------------------
(* discard_run.                                                            *)

StartDiscard(p, d) ==
  /\ Start(p) /\ About(p, d)
  /\ Put(d, {})
  /\ Goto(p, IF Recorded(d) THEN "discardWait" ELSE "idle")
  /\ UNCHANGED <<repoVars, integration, lock, picked, todo, faults>>

\* Variant with a mistake: it is not asked whether the worktree is there.
VerifyNothing(p) ==
  /\ pc[p] = "discard"
  /\ Goto(p, "remove")
  /\ UNCHANGED <<repoVars, runVars, lock, job, picked, todo, commands, faults>>

\* The branch is attached to its own worktree and the record still owns it.
Verify(p) ==
  LET d == job[p] IN
  /\ pc[p] = "discard"
  /\ IF d \in trees /\ Recorded(d) THEN Goto(p, "remove") /\ UNCHANGED lock
                                   ELSE Leave(p, "idle")
  /\ UNCHANGED <<repoVars, runVars, job, picked, todo, commands, faults>>

RemoveTree(p) ==
  /\ pc[p] = "remove"
  /\ \/ trees' = trees \ {job[p]} /\ Goto(p, "deleteBranch") /\ UNCHANGED <<lock, faults>>
     \/ Fault /\ Leave(p, "idle") /\ UNCHANGED trees
  /\ UNCHANGED <<branches, dirty, landed, runVars, job, picked, todo, commands>>

DeleteBranch(p) ==
  /\ pc[p] = "deleteBranch"
  /\ \/ branches' = branches \ {job[p]} /\ Goto(p, "recordDiscard") /\ UNCHANGED <<lock, faults>>
     \/ Fault /\ Leave(p, "idle") /\ UNCHANGED branches
  /\ UNCHANGED <<trees, dirty, landed, runVars, job, picked, todo, commands>>

RecordDiscard(p) ==
  /\ pc[p] = "recordDiscard"
  /\ integration' = [integration EXCEPT ![job[p]] = IF @ = "none" THEN @ ELSE "discarded"]
  /\ Leave(p, "idle")
  /\ UNCHANGED <<repoVars, files, job, picked, todo, commands, faults>>

-----------------------------------------------------------------------------
(* cleanup_runs, which never takes the repository lock.                    *)

Retained(d) == Recorded(d) /\ d \in trees

StartCleanup(p) ==
  /\ Start(p)
  /\ todo' = [todo EXCEPT ![p] = {d \in Dispatches : Has(d, "directory")}]
  /\ Goto(p, "cleanup")
  /\ UNCHANGED <<repoVars, runVars, lock, job, picked, faults>>

\* Too young without --all, or its worktree is retained.
CleanupSkip(p, d) ==
  /\ pc[p] = "cleanup" /\ d \in todo[p]
  /\ todo' = [todo EXCEPT ![p] = @ \ {d}]
  /\ UNCHANGED <<repoVars, runVars, lock, pc, job, picked, commands, faults>>

CleanupChoose(p, d) ==
  /\ pc[p] = "cleanup" /\ d \in todo[p] /\ ~Retained(d)
  /\ todo' = [todo EXCEPT ![p] = @ \ {d}]
  /\ About(p, d)
  /\ Goto(p, "rmtree")
  /\ UNCHANGED <<repoVars, runVars, lock, picked, commands, faults>>

\* shutil.rmtree raises when the directory is no longer there.
CleanupRemove(p) ==
  LET d == job[p] IN
  /\ pc[p] = "rmtree"
  /\ files' = [files EXCEPT ![d] = {}]
  /\ integration' = [integration EXCEPT ![d] = "none"]
  /\ Goto(p, IF Has(d, "directory") THEN "cleanup" ELSE "idle")
  /\ UNCHANGED <<repoVars, lock, job, picked, todo, commands, faults>>

CleanupDone(p) ==
  /\ pc[p] = "cleanup" /\ todo[p] = {}
  /\ Goto(p, "idle")
  /\ UNCHANGED <<repoVars, runVars, lock, job, picked, todo, commands, faults>>

-----------------------------------------------------------------------------
\* The user edits the checkout, or commits or restores it.
UserEdits ==
  /\ dirty' = ~dirty
  /\ UNCHANGED <<branches, trees, landed, runVars, lock, procVars, commands, faults>>

\* Killed: the kernel closes the lock file.
Crash(p) ==
  /\ pc[p] # "idle"
  /\ Fault
  /\ Goto(p, "idle")
  /\ lock' = IF lock = p THEN Free ELSE lock
  /\ UNCHANGED <<repoVars, runVars, job, picked, todo, commands>>

Command(p) ==
  \/ \E d \in Dispatches :
       \/ StartDispatch(p, d) \/ StartDiscard(p, d)
       \/ \E find \in {"patchFind", "pickFind"} : StartApply(p, d, find)
  \/ StartCleanup(p)

Step(p) ==
  \/ Acquire(p)
  \/ PrepareAgain(p) \/ PrepareRefused(p) \/ AddWorktree(p)
  \/ WriteRecord(p) \/ RecordFails(p) \/ Rollback(p)
  \/ ProviderExits(p) \/ WriteResult(p)
  \/ CaptureFails(p) \/ CapturePatch(p) \/ CaptureChangeset(p)
  \/ FindPatch(p) \/ ReadManifest(p)
  \/ TargetDirty(p) \/ ApplyPatch(p)
  \/ BeginPicks(p) \/ PickCommit(p) \/ ApplyWorking(p) \/ RecordApply(p)
  \/ Verify(p) \/ RemoveTree(p) \/ DeleteBranch(p) \/ RecordDiscard(p)
  \/ CleanupRemove(p) \/ CleanupDone(p)
  \/ \E d \in Dispatches : CleanupSkip(p, d) \/ CleanupChoose(p, d)

Next == UserEdits \/ \E p \in Processes : Command(p) \/ Step(p) \/ Crash(p)

Spec == Init /\ [][Next]_vars

\* A command that can go on does; a provider exits, if only at its timeout.
FairSpec == Spec /\ \A p \in Processes : WF_vars(Step(p))

-----------------------------------------------------------------------------
TypeOK ==
  /\ branches \subseteq Dispatches /\ trees \subseteq Dispatches
  /\ dirty \in BOOLEAN
  /\ landed \in [Dispatches -> SUBSET Piece]
  /\ files \in [Dispatches -> SUBSET Artifact]
  /\ integration \in [Dispatches -> Integration]
  /\ lock \in Processes \cup {Free}
  /\ pc \in [Processes -> Pc]
  /\ job \in [Processes -> Dispatches]
  /\ picked \in [Processes -> 0 .. Commits]
  /\ todo \in [Processes -> SUBSET Dispatches]
  /\ commands \in 0 .. MaxCommands /\ faults \in 0 .. MaxFaults
=============================================================================
