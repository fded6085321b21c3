--------------------------- MODULE WorktreeSafety ---------------------------
(***************************************************************************)
(* What IsolatedWorktrees guarantees, and that it implements               *)
(* WorktreeLifecycle.                                                      *)
(***************************************************************************)
EXTENDS IsolatedWorktrees

\* The process that holds the lock is at one of these places, about d.
Inside(d, places) == \E p \in Processes : lock = p /\ job[p] = d /\ pc[p] \in places

\* A worktree being made, undone or removed is not yet, or no longer, owned.
LifeOf(d) ==
  IF d \in trees
  THEN IF Inside(d, {"record", "rollback"}) THEN "none"
       ELSE IF Recorded(d) \/ Inside(d, {"remove"}) THEN "owned" ELSE "orphan"
  ELSE IF d \in branches /\ ~Inside(d, {"deleteBranch"}) THEN "stuck" ELSE "none"

Promise == INSTANCE WorktreeLifecycle WITH
  life <- [d \in Dispatches |-> LifeOf(d)]

\* A branch and a worktree come to be owned, and cease to be, as one thing,
\* whatever the commands that work on them at the same time; one that no
\* record owns, or a branch without a worktree, stays as it is.
ImplementsWorktreeLifecycle == Promise!Spec

\* Without a fault, no interleaving of prepare, apply, discard and cleanup
\* leaves a branch that no discard can remove for want of its worktree.
NothingStrandedWithoutFault ==
  faults = 0 => \A d \in Dispatches : LifeOf(d) # "stuck"

\* Without a fault, a worktree loses its record only to a cleanup that looked
\* at the run directory before the record was written.
OrphanedOnlyByCleanup ==
  [][\A d \in Dispatches :
       faults' = 0 /\ LifeOf(d) # "orphan" /\ LifeOf(d)' = "orphan" =>
         \E p \in Processes : pc[p] = "rmtree" /\ job[p] = d]_vars

\* A worktree is taken away by a discard that verified it, or undone by the
\* prepare that made it when its record could not be written.
TakenOnlyByDiscard ==
  [][\A d \in trees \ trees' :
       Inside(d, {"remove"}) \/ (Inside(d, {"rollback"}) /\ faults > 0)]_vars

\* At most one process is past the acquisition of the repository lock, and
\* the lock is its own.
Exclusive ==
  \A p \in Processes : pc[p] \in Holding <=> lock = p

\* What a holder of the lock rests on between two of its steps: the worktree it
\* made or is about to remove is still there, with its branch, and a branch it
\* is about to delete has no worktree any more.
HolderUndisturbed ==
  /\ trees \subseteq branches
  /\ \A p \in Processes :
       /\ pc[p] \in {"record", "rollback", "remove"} => job[p] \in trees
       /\ pc[p] = "deleteBranch" => job[p] \in branches \ trees
       /\ pc[p] = "rollback" => faults > 0

\* Every command ends: those that wait for the lock are not left waiting.
CommandsEnd == \A p \in Processes : pc[p] # "idle" ~> pc[p] = "idle"

\* The strengthening of the invariants above that every step preserves.
WorktreeInductive ==
  TypeOK /\ Exclusive /\ HolderUndisturbed /\ NothingStrandedWithoutFault

\* Whenever a dispatch is recorded as applied while its patch is there, its
\* uncommitted changes are in the checkout, whichever way it was applied: a
\* cherry-pick that fails may leave commits out, but not what comes after them.
AppliedLandsUncommitted ==
  [][\A d \in Dispatches :
       integration[d] # "applied" /\ integration'[d] = "applied" /\ Has(d, "changes.patch")
         => Commits + 1 \in landed[d]]_vars
=============================================================================
