--------------------------- MODULE WorktreeProof ---------------------------
(***************************************************************************)
(* For any number of processes and dispatches, commands and faults: the    *)
(* repository lock excludes, what a holder rests on is not disturbed, and  *)
(* branch and worktree come and go as WorktreeLifecycle promises.          *)
(***************************************************************************)
EXTENDS WorktreeSafety, TLAPS

\* The places, by name.
LEMMA Places ==
  /\ Waiting = {"prepareWait", "captureWait", "patchWait", "pickWait", "discardWait"}
  /\ \A w \in Waiting : Critical[w] \in {"prepare", "capture", "patch", "pick", "discard"}
  /\ DOMAIN Reading = {"patchFind", "pickFind", "patchRead", "pickRead"}
  /\ \A f \in DOMAIN Reading : Reading[f] \in {"patchRead", "pickRead", "patchWait", "pickWait"}
  /\ Pc = {"prepareWait", "captureWait", "patchWait", "pickWait", "discardWait",
           "patchFind", "pickFind", "patchRead", "pickRead",
           "prepare", "record", "rollback", "capture", "changeset", "patch",
           "pick", "picking", "working", "applied", "conflicted", "discard",
           "remove", "deleteBranch", "recordDiscard",
           "idle", "running", "shared", "result", "cleanup", "rmtree"}
<1>1. Waiting = {"prepareWait", "captureWait", "patchWait", "pickWait", "discardWait"}
  BY DEF Waiting, Critical
<1>2. \A w \in Waiting : Critical[w] \in {"prepare", "capture", "patch", "pick", "discard"}
  BY <1>1 DEF Critical
<1>3. /\ DOMAIN Reading = {"patchFind", "pickFind", "patchRead", "pickRead"}
      /\ \A f \in DOMAIN Reading : Reading[f] \in {"patchRead", "pickRead", "patchWait", "pickWait"}
  BY DEF Reading
<1> QED
  BY <1>1, <1>2, <1>3 DEF Pc, Holding

\* A new run of the runtime finds no lock taken and nothing half done.
LEMMA InitInductive == Init => WorktreeInductive
<1> SUFFICES ASSUME Init PROVE WorktreeInductive
    OBVIOUS
<1>1. TypeOK
  <2>1. /\ landed \in [Dispatches -> SUBSET Piece] /\ files \in [Dispatches -> SUBSET Artifact]
        /\ integration \in [Dispatches -> Integration] /\ todo \in [Processes -> SUBSET Dispatches]
    BY DEF Init, Integration
  <2>2. pc \in [Processes -> Pc] /\ job \in [Processes -> Dispatches]
    BY Places DEF Init
  <2>3. /\ picked \in [Processes -> 0 .. Commits]
        /\ commands \in 0 .. MaxCommands /\ faults \in 0 .. MaxFaults
    BY WorktreeAssumption DEF Init
  <2> QED
    BY <2>1, <2>2, <2>3 DEF Init, TypeOK
<1>2. Exclusive
  BY WorktreeAssumption DEF Init, Exclusive, Holding
<1>3. HolderUndisturbed /\ NothingStrandedWithoutFault
  BY DEF Init, HolderUndisturbed, NothingStrandedWithoutFault, LifeOf
<1> QED
  BY <1>1, <1>2, <1>3 DEF WorktreeInductive

\* Going to a place moves one process.
LEMMA GotoMoves ==
  ASSUME TypeOK, NEW p \in Processes, NEW place \in Pc, Goto(p, place)
  PROVE  /\ pc' \in [Processes -> Pc] /\ pc'[p] = place
         /\ \A r \in Processes \ {p} : pc'[r] = pc[r]
BY DEF TypeOK, Goto

\* A run directory only ever holds the files it is made of.
LEMMA PutTyped ==
  ASSUME TypeOK, NEW d \in Dispatches, NEW artifacts \in SUBSET Artifact, Put(d, artifacts)
  PROVE  files' \in [Dispatches -> SUBSET Artifact]
BY DEF TypeOK, Put, Artifact

\* A fault is counted.
LEMMA FaultCounted ==
  ASSUME TypeOK, Fault
  PROVE  faults' \in 0 .. MaxFaults /\ faults' > 0 /\ faults' >= faults
BY WorktreeAssumption DEF TypeOK, Fault

\* A command is counted, and is about a dispatch.
LEMMA StartTyped ==
  ASSUME TypeOK, NEW p \in Processes, NEW d \in Dispatches, Start(p)
  PROVE  commands' \in 0 .. MaxCommands /\ (About(p, d) => job' \in [Processes -> Dispatches])
BY WorktreeAssumption DEF TypeOK, Start, About

\* What a step does to the lock: nothing, take a free one, or give up its own.
LockMove(p) ==
  /\ \A r \in Processes \ {p} : pc'[r] = pc[r]
  /\ \/ lock' = lock /\ (pc'[p] \in Holding <=> pc[p] \in Holding)
     \/ lock = Free /\ lock' = p /\ pc'[p] \in Holding
     \/ lock' = Free /\ lock \in {p, Free} /\ pc'[p] \notin Holding

\* A step that moves the lock like this keeps it exclusive.
LEMMA LockMoveKeepsExclusive ==
  ASSUME TypeOK, Exclusive, NEW p \in Processes, LockMove(p)
  PROVE  Exclusive'
BY WorktreeAssumption DEF TypeOK, Exclusive, LockMove

\* The commands keep the types, and start without the lock.
LEMMA CommandMoves ==
  ASSUME TypeOK, Exclusive, NEW p \in Processes, Command(p)
  PROVE  TypeOK' /\ LockMove(p)
<1>1. ASSUME NEW d \in Dispatches, StartDispatch(p, d)
      PROVE  TypeOK' /\ LockMove(p)
  <2>1. PICK place \in {"prepareWait", "shared"} : Goto(p, place)
    BY <1>1 DEF StartDispatch
  <2>2. pc' \in [Processes -> Pc] /\ pc'[p] = place /\ \A r \in Processes \ {p} : pc'[r] = pc[r]
    BY <2>1, GotoMoves, Places
  <2>3. files' \in [Dispatches -> SUBSET Artifact]
    BY <1>1, PutTyped DEF StartDispatch
  <2> QED
    BY <1>1, <2>2, <2>3, StartTyped DEF StartDispatch, TypeOK, LockMove, Start,
       Holding, repoVars
<1>2. ASSUME NEW d \in Dispatches, StartDiscard(p, d)
      PROVE  TypeOK' /\ LockMove(p)
  <2>1. PICK place \in {"discardWait", "idle"} : Goto(p, place)
    BY <1>2 DEF StartDiscard
  <2>2. pc' \in [Processes -> Pc] /\ pc'[p] = place /\ \A r \in Processes \ {p} : pc'[r] = pc[r]
    BY <2>1, GotoMoves, Places
  <2>3. files' \in [Dispatches -> SUBSET Artifact]
    BY <1>2, PutTyped DEF StartDiscard
  <2> QED
    BY <1>2, <2>2, <2>3, StartTyped DEF StartDiscard, TypeOK, LockMove, Start,
       Holding, repoVars
<1>3. ASSUME NEW d \in Dispatches, NEW find \in {"patchFind", "pickFind"}, StartApply(p, d, find)
      PROVE  TypeOK' /\ LockMove(p)
  <2>1. PICK place \in {"patchFind", "pickFind", "idle"} : Goto(p, place)
    BY <1>3 DEF StartApply
  <2>2. pc' \in [Processes -> Pc] /\ pc'[p] = place /\ \A r \in Processes \ {p} : pc'[r] = pc[r]
    BY <2>1, GotoMoves, Places
  <2>3. files' \in [Dispatches -> SUBSET Artifact]
    BY <1>3, PutTyped DEF StartApply
  <2>4. picked' \in [Processes -> 0 .. Commits]
    BY <1>3, WorktreeAssumption DEF StartApply, TypeOK
  <2> QED
    BY <1>3, <2>2, <2>3, <2>4, StartTyped DEF StartApply, TypeOK, LockMove, Start,
       Holding, repoVars
<1>4. CASE StartCleanup(p)
  <2>1. pc' \in [Processes -> Pc] /\ pc'[p] = "cleanup" /\ \A r \in Processes \ {p} : pc'[r] = pc[r]
    BY <1>4, GotoMoves, Places DEF StartCleanup
  <2>2. todo' \in [Processes -> SUBSET Dispatches] /\ commands' \in 0 .. MaxCommands
    BY <1>4, WorktreeAssumption DEF StartCleanup, TypeOK, Start
  <2> QED
    BY <1>4, <2>1, <2>2 DEF StartCleanup, TypeOK, LockMove, Start, Holding, repoVars,
       runVars
<1> QED
  BY <1>1, <1>2, <1>3, <1>4 DEF Command

\* What a dispatch does, step by step.
LEMMA DispatchMoves ==
  ASSUME TypeOK, Exclusive, NEW p \in Processes,
         \/ Acquire(p) \/ PrepareAgain(p) \/ PrepareRefused(p) \/ AddWorktree(p)
         \/ WriteRecord(p) \/ RecordFails(p) \/ Rollback(p)
         \/ ProviderExits(p) \/ CaptureFails(p) \/ CapturePatch(p) \/ CaptureChangeset(p)
         \/ WriteResult(p)
  PROVE  TypeOK' /\ LockMove(p)
<1> USE DEF LockMove, Holding, repoVars, runVars, Leave
<1>1. CASE Acquire(p)
  <2>1. PICK place \in {"prepare", "capture", "patch", "pick", "discard"} : Goto(p, place)
    BY <1>1, Places DEF Acquire
  <2>2. pc' \in [Processes -> Pc] /\ pc'[p] = place /\ \A r \in Processes \ {p} : pc'[r] = pc[r]
    BY <2>1, GotoMoves, Places
  <2> QED
    BY <1>1, <2>2 DEF Acquire, TypeOK
<1>2. CASE PrepareAgain(p)
  <2>1. pc' \in [Processes -> Pc] /\ pc'[p] = "running" /\ \A r \in Processes \ {p} : pc'[r] = pc[r]
    BY <1>2, GotoMoves, Places DEF PrepareAgain
  <2> QED
    BY <1>2, <2>1 DEF PrepareAgain, TypeOK, Exclusive
<1>3. CASE PrepareRefused(p)
  <2>1. pc' \in [Processes -> Pc] /\ pc'[p] = "result" /\ \A r \in Processes \ {p} : pc'[r] = pc[r]
    BY <1>3, GotoMoves, Places DEF PrepareRefused
  <2>2. faults' \in 0 .. MaxFaults
    BY <1>3, FaultCounted DEF PrepareRefused, TypeOK
  <2> QED
    BY <1>3, <2>1, <2>2 DEF PrepareRefused, TypeOK, Exclusive
<1>4. CASE AddWorktree(p)
  <2>1. pc' \in [Processes -> Pc] /\ pc'[p] = "record" /\ \A r \in Processes \ {p} : pc'[r] = pc[r]
    BY <1>4, GotoMoves, Places DEF AddWorktree
  <2> QED
    BY <1>4, <2>1 DEF AddWorktree, TypeOK
<1>5. CASE WriteRecord(p)
  <2>1. pc' \in [Processes -> Pc] /\ pc'[p] = "running" /\ \A r \in Processes \ {p} : pc'[r] = pc[r]
    BY <1>5, GotoMoves, Places DEF WriteRecord
  <2>2. files' \in [Dispatches -> SUBSET Artifact]
    <3>1. job[p] \in Dispatches /\ {"workspace.json"} \in SUBSET Artifact
      BY DEF TypeOK, Artifact
    <3> QED
      BY <1>5, <3>1, PutTyped DEF WriteRecord
  <2> QED
    BY <1>5, <2>1, <2>2 DEF WriteRecord, TypeOK, Exclusive
<1>6. CASE RecordFails(p)
  <2>1. pc' \in [Processes -> Pc] /\ pc'[p] = "rollback" /\ \A r \in Processes \ {p} : pc'[r] = pc[r]
    BY <1>6, GotoMoves, Places DEF RecordFails
  <2> QED
    BY <1>6, <2>1, FaultCounted DEF RecordFails, TypeOK
<1>7. CASE Rollback(p)
  <2>1. pc' \in [Processes -> Pc] /\ pc'[p] = "idle" /\ \A r \in Processes \ {p} : pc'[r] = pc[r]
    BY <1>7, GotoMoves, Places DEF Rollback
  <2>2. branches' \subseteq Dispatches /\ trees' \subseteq Dispatches
    BY <1>7 DEF Rollback, TypeOK
  <2> QED
    BY <1>7, <2>1, <2>2 DEF Rollback, TypeOK, Exclusive
<1>8. CASE ProviderExits(p)
  <2>1. PICK place \in {"captureWait", "result"} : Goto(p, place)
    BY <1>8 DEF ProviderExits
  <2>2. pc' \in [Processes -> Pc] /\ pc'[p] = place /\ \A r \in Processes \ {p} : pc'[r] = pc[r]
    BY <2>1, GotoMoves, Places
  <2> QED
    BY <1>8, <2>2 DEF ProviderExits, TypeOK
<1>9. CASE CapturePatch(p)
  <2>1. job[p] \in Dispatches /\ {"changes.patch"} \in SUBSET Artifact
    BY DEF TypeOK, Artifact
  <2>2. CASE job[p] \in trees
    <3>1. pc' \in [Processes -> Pc] /\ pc'[p] = "changeset" /\ \A r \in Processes \ {p} : pc'[r] = pc[r]
      BY <1>9, <2>2, GotoMoves, Places DEF CapturePatch
    <3>2. files' \in [Dispatches -> SUBSET Artifact]
      BY <1>9, <2>1, <2>2, PutTyped DEF CapturePatch
    <3> QED
      BY <1>9, <2>2, <3>1, <3>2 DEF CapturePatch, TypeOK
  <2>3. CASE job[p] \notin trees
    <3>1. pc' \in [Processes -> Pc] /\ pc'[p] = "result" /\ \A r \in Processes \ {p} : pc'[r] = pc[r]
      BY <1>9, <2>3, GotoMoves, Places DEF CapturePatch
    <3> QED
      BY <1>9, <2>3, <3>1 DEF CapturePatch, TypeOK, Exclusive
  <2> QED
    BY <2>2, <2>3
<1>10. CASE CaptureChangeset(p)
  <2>1. pc' \in [Processes -> Pc] /\ pc'[p] = "result" /\ \A r \in Processes \ {p} : pc'[r] = pc[r]
    BY <1>10, GotoMoves, Places DEF CaptureChangeset
  <2>2. files' \in [Dispatches -> SUBSET Artifact]
    <3>1. job[p] \in Dispatches /\ {"changeset.json"} \in SUBSET Artifact
      BY DEF TypeOK, Artifact
    <3> QED
      BY <1>10, <3>1, PutTyped DEF CaptureChangeset
  <2>3. integration' \in [Dispatches -> Integration]
    BY <1>10 DEF CaptureChangeset, TypeOK, Integration
  <2> QED
    BY <1>10, <2>1, <2>2, <2>3 DEF CaptureChangeset, TypeOK, Exclusive
<1>11. CASE WriteResult(p)
  <2>1. pc' \in [Processes -> Pc] /\ pc'[p] = "idle" /\ \A r \in Processes \ {p} : pc'[r] = pc[r]
    BY <1>11, GotoMoves, Places DEF WriteResult
  <2>2. files' \in [Dispatches -> SUBSET Artifact]
    <3>1. job[p] \in Dispatches /\ {} \in SUBSET Artifact
      BY DEF TypeOK
    <3> QED
      BY <1>11, <3>1, PutTyped DEF WriteResult
  <2>3. integration' \in [Dispatches -> Integration]
    BY <1>11 DEF WriteResult, TypeOK, Integration
  <2> QED
    BY <1>11, <2>1, <2>2, <2>3 DEF WriteResult, TypeOK
<1>12. CASE CaptureFails(p)
  <2>1. pc' \in [Processes -> Pc] /\ pc'[p] = "result" /\ \A r \in Processes \ {p} : pc'[r] = pc[r]
    BY <1>12, GotoMoves, Places DEF CaptureFails
  <2> QED
    BY <1>12, <2>1, FaultCounted DEF CaptureFails, TypeOK, Exclusive
<1> QED
  BY <1>1, <1>2, <1>3, <1>4, <1>5, <1>6, <1>7, <1>8, <1>9, <1>10, <1>11, <1>12

\* What an apply does, step by step.
LEMMA ApplyMoves ==
  ASSUME TypeOK, Exclusive, NEW p \in Processes,
         \/ FindPatch(p) \/ ReadManifest(p) \/ TargetDirty(p) \/ ApplyPatch(p)
         \/ BeginPicks(p) \/ PickCommit(p) \/ ApplyWorking(p) \/ RecordApply(p)
  PROVE  TypeOK' /\ LockMove(p)
<1> USE DEF LockMove, Holding, repoVars, runVars, Leave
<1>1. ASSUME NEW pieces \in SUBSET Piece, Land(job[p], pieces)
      PROVE  landed' \in [Dispatches -> SUBSET Piece]
  BY <1>1 DEF Land, TypeOK
<1>2. 1 .. Commits + 1 = Piece /\ Commits \in Nat /\ picked[p] \in 0 .. Commits
  BY WorktreeAssumption DEF Piece, TypeOK
<1>3. CASE TargetDirty(p)
  <2>1. pc' \in [Processes -> Pc] /\ pc'[p] = "idle" /\ \A r \in Processes \ {p} : pc'[r] = pc[r]
    BY <1>3, GotoMoves, Places DEF TargetDirty
  <2> QED
    BY <1>3, <2>1 DEF TargetDirty, TypeOK, Exclusive
<1>4. CASE ApplyPatch(p)
  <2>1. PICK place \in {"applied", "conflicted", "idle"} :
          Goto(p, place) /\ lock' = (IF place = "idle" THEN Free ELSE lock)
    BY <1>4 DEF ApplyPatch
  <2>2. pc' \in [Processes -> Pc] /\ pc'[p] = place /\ \A r \in Processes \ {p} : pc'[r] = pc[r]
    BY <2>1, GotoMoves, Places
  <2>3. landed' \in [Dispatches -> SUBSET Piece] /\ dirty' \in BOOLEAN
    BY <1>1, <1>4 DEF ApplyPatch, TypeOK
  <2> QED
    BY <1>4, <2>1, <2>2, <2>3 DEF ApplyPatch, TypeOK, Exclusive
<1>5. CASE BeginPicks(p)
  <2>1. pc' \in [Processes -> Pc] /\ pc'[p] = "picking" /\ \A r \in Processes \ {p} : pc'[r] = pc[r]
    BY <1>5, GotoMoves, Places DEF BeginPicks
  <2> QED
    BY <1>5, <2>1 DEF BeginPicks, TypeOK
<1>6. CASE PickCommit(p)
  <2>1. pc' \in [Processes -> Pc] /\ pc'[p] \in Holding /\ \A r \in Processes \ {p} : pc'[r] = pc[r]
    <3>1. CASE UNCHANGED pc
      BY <1>6, <3>1 DEF PickCommit, TypeOK
    <3>2. CASE Goto(p, "working") \/ Goto(p, "conflicted")
      BY <3>2, GotoMoves, Places
    <3> QED
      BY <1>6, <3>1, <3>2 DEF PickCommit
  <2>2. picked' \in [Processes -> 0 .. Commits] /\ landed' \in [Dispatches -> SUBSET Piece] /\ dirty' \in BOOLEAN
    <3>1. CASE UNCHANGED <<picked, landed>>
      BY <1>6, <3>1 DEF PickCommit, TypeOK
    <3>2. CASE /\ picked[p] < Commits /\ picked' = [picked EXCEPT ![p] = @ + 1]
               /\ Land(job[p], {picked[p] + 1}) /\ dirty' = dirty
      <4>1. {picked[p] + 1} \in SUBSET Piece /\ picked[p] + 1 \in 0 .. Commits
        BY <1>2, <3>2
      <4>2. landed' \in [Dispatches -> SUBSET Piece]
        BY <1>1, <3>2, <4>1
      <4> QED
        BY <3>2, <4>1, <4>2 DEF TypeOK
    <3> QED
      BY <1>6, <3>1, <3>2 DEF PickCommit
  <2> QED
    BY <1>6, <2>1, <2>2 DEF PickCommit, TypeOK
<1>7. CASE ApplyWorking(p)
  <2>1. PICK place \in {"applied", "conflicted"} : Goto(p, place)
    BY <1>7 DEF ApplyWorking
  <2>2. pc' \in [Processes -> Pc] /\ pc'[p] = place /\ \A r \in Processes \ {p} : pc'[r] = pc[r]
    BY <2>1, GotoMoves, Places
  <2>3. {Commits + 1} \in SUBSET Piece
    BY <1>2
  <2>4. landed' \in [Dispatches -> SUBSET Piece] /\ dirty' \in BOOLEAN
    BY <1>1, <1>7, <2>3 DEF ApplyWorking, TypeOK
  <2> QED
    BY <1>7, <2>2, <2>4 DEF ApplyWorking, TypeOK
<1>8. CASE RecordApply(p)
  <2>1. pc' \in [Processes -> Pc] /\ pc'[p] = "idle" /\ \A r \in Processes \ {p} : pc'[r] = pc[r]
    BY <1>8, GotoMoves, Places DEF RecordApply
  <2>2. integration' \in [Dispatches -> Integration]
    BY <1>8 DEF RecordApply, TypeOK, Integration
  <2> QED
    BY <1>8, <2>1, <2>2 DEF RecordApply, TypeOK, Exclusive
<1>9. CASE FindPatch(p) \/ ReadManifest(p)
  <2>1. PICK place \in {"patchRead", "pickRead", "patchWait", "pickWait", "idle"} : Goto(p, place)
    BY <1>9, Places DEF FindPatch, ReadManifest
  <2>2. pc' \in [Processes -> Pc] /\ pc'[p] = place /\ \A r \in Processes \ {p} : pc'[r] = pc[r]
    BY <2>1, GotoMoves, Places
  <2>3. files' \in [Dispatches -> SUBSET Artifact]
    <3>1. job[p] \in Dispatches /\ {} \in SUBSET Artifact
      BY DEF TypeOK
    <3>2. CASE FindPatch(p)
      BY <3>1, <3>2, PutTyped DEF FindPatch
    <3>3. CASE ReadManifest(p)
      BY <3>3 DEF ReadManifest, TypeOK
    <3> QED
      BY <1>9, <3>2, <3>3
  <2>4. /\ pc[p] \notin Holding
        /\ UNCHANGED <<repoVars, integration, lock, job, picked, todo, commands, faults>>
    BY <1>9 DEF FindPatch, ReadManifest
  <2> QED
    BY <2>2, <2>3, <2>4 DEF TypeOK
<1> QED
  BY <1>3, <1>4, <1>5, <1>6, <1>7, <1>8, <1>9

\* What a discard and a cleanup do, step by step, and a process that is killed.
LEMMA RemovalMoves ==
  ASSUME TypeOK, Exclusive, NEW p \in Processes,
         \/ Verify(p) \/ RemoveTree(p) \/ DeleteBranch(p) \/ RecordDiscard(p)
         \/ CleanupRemove(p) \/ CleanupDone(p)
         \/ \E d \in Dispatches : CleanupSkip(p, d) \/ CleanupChoose(p, d)
         \/ Crash(p)
  PROVE  TypeOK' /\ LockMove(p)
<1> USE DEF LockMove, Holding, repoVars, runVars, Leave
<1>1. CASE Verify(p)
  <2>1. PICK place \in {"remove", "idle"} :
          Goto(p, place) /\ lock' = (IF place = "idle" THEN Free ELSE lock)
    BY <1>1 DEF Verify
  <2>2. pc' \in [Processes -> Pc] /\ pc'[p] = place /\ \A r \in Processes \ {p} : pc'[r] = pc[r]
    BY <2>1, GotoMoves, Places
  <2> QED
    BY <1>1, <2>1, <2>2 DEF Verify, TypeOK, Exclusive
<1>2. CASE RemoveTree(p)
  <2>1. PICK place \in {"deleteBranch", "idle"} :
          Goto(p, place) /\ lock' = (IF place = "idle" THEN Free ELSE lock)
    BY <1>2 DEF RemoveTree
  <2>2. pc' \in [Processes -> Pc] /\ pc'[p] = place /\ \A r \in Processes \ {p} : pc'[r] = pc[r]
    BY <2>1, GotoMoves, Places
  <2>3. trees' \subseteq Dispatches /\ faults' \in 0 .. MaxFaults
    BY <1>2, FaultCounted DEF RemoveTree, TypeOK
  <2> QED
    BY <1>2, <2>1, <2>2, <2>3 DEF RemoveTree, TypeOK, Exclusive
<1>3. CASE DeleteBranch(p)
  <2>1. PICK place \in {"recordDiscard", "idle"} :
          Goto(p, place) /\ lock' = (IF place = "idle" THEN Free ELSE lock)
    BY <1>3 DEF DeleteBranch
  <2>2. pc' \in [Processes -> Pc] /\ pc'[p] = place /\ \A r \in Processes \ {p} : pc'[r] = pc[r]
    BY <2>1, GotoMoves, Places
  <2>3. branches' \subseteq Dispatches /\ faults' \in 0 .. MaxFaults
    BY <1>3, FaultCounted DEF DeleteBranch, TypeOK
  <2> QED
    BY <1>3, <2>1, <2>2, <2>3 DEF DeleteBranch, TypeOK, Exclusive
<1>4. CASE RecordDiscard(p)
  <2>1. pc' \in [Processes -> Pc] /\ pc'[p] = "idle" /\ \A r \in Processes \ {p} : pc'[r] = pc[r]
    BY <1>4, GotoMoves, Places DEF RecordDiscard
  <2>2. integration' \in [Dispatches -> Integration]
    BY <1>4 DEF RecordDiscard, TypeOK, Integration
  <2> QED
    BY <1>4, <2>1, <2>2 DEF RecordDiscard, TypeOK, Exclusive
<1>5. CASE CleanupRemove(p)
  <2>1. PICK place \in {"cleanup", "idle"} : Goto(p, place)
    BY <1>5 DEF CleanupRemove
  <2>2. pc' \in [Processes -> Pc] /\ pc'[p] = place /\ \A r \in Processes \ {p} : pc'[r] = pc[r]
    BY <2>1, GotoMoves, Places
  <2>3. files' \in [Dispatches -> SUBSET Artifact] /\ integration' \in [Dispatches -> Integration]
    BY <1>5 DEF CleanupRemove, TypeOK, Integration
  <2> QED
    BY <1>5, <2>2, <2>3 DEF CleanupRemove, TypeOK
<1>6. CASE CleanupDone(p)
  <2>1. pc' \in [Processes -> Pc] /\ pc'[p] = "idle" /\ \A r \in Processes \ {p} : pc'[r] = pc[r]
    BY <1>6, GotoMoves, Places DEF CleanupDone
  <2> QED
    BY <1>6, <2>1 DEF CleanupDone, TypeOK
<1>7. ASSUME NEW d \in Dispatches, CleanupSkip(p, d)
      PROVE  TypeOK' /\ LockMove(p)
  <2>1. todo' \in [Processes -> SUBSET Dispatches]
    BY <1>7 DEF CleanupSkip, TypeOK
  <2> QED
    BY <1>7, <2>1 DEF CleanupSkip, TypeOK
<1>8. ASSUME NEW d \in Dispatches, CleanupChoose(p, d)
      PROVE  TypeOK' /\ LockMove(p)
  <2>1. pc' \in [Processes -> Pc] /\ pc'[p] = "rmtree" /\ \A r \in Processes \ {p} : pc'[r] = pc[r]
    BY <1>8, GotoMoves, Places DEF CleanupChoose
  <2>2. todo' \in [Processes -> SUBSET Dispatches] /\ job' \in [Processes -> Dispatches]
    BY <1>8 DEF CleanupChoose, TypeOK, About
  <2> QED
    BY <1>8, <2>1, <2>2 DEF CleanupChoose, TypeOK
<1>9. CASE Crash(p)
  <2>1. pc' \in [Processes -> Pc] /\ pc'[p] = "idle" /\ \A r \in Processes \ {p} : pc'[r] = pc[r]
    BY <1>9, GotoMoves, Places DEF Crash
  <2> QED
    BY <1>9, <2>1, FaultCounted DEF Crash, TypeOK, Exclusive
<1> QED
  BY <1>1, <1>2, <1>3, <1>4, <1>5, <1>6, <1>7, <1>8, <1>9

\* Every step keeps the types and the lock exclusive.
LEMMA StepMoves ==
  ASSUME TypeOK, Exclusive, [Next]_vars
  PROVE  TypeOK' /\ Exclusive'
<1>1. CASE UserEdits
  BY <1>1 DEF UserEdits, TypeOK, Exclusive, runVars, procVars
<1>2. ASSUME NEW p \in Processes, Command(p)
      PROVE  TypeOK' /\ Exclusive'
  BY <1>2, CommandMoves, LockMoveKeepsExclusive
<1>3. ASSUME NEW p \in Processes, Step(p)
      PROVE  TypeOK' /\ Exclusive'
  BY <1>3, DispatchMoves, ApplyMoves, RemovalMoves, LockMoveKeepsExclusive DEF Step
<1>4. ASSUME NEW p \in Processes, Crash(p)
      PROVE  TypeOK' /\ Exclusive'
  BY <1>4, RemovalMoves, LockMoveKeepsExclusive
<1>5. CASE UNCHANGED vars
  BY <1>5 DEF vars, repoVars, runVars, procVars, TypeOK, Exclusive
<1> QED
  BY <1>1, <1>2, <1>3, <1>4, <1>5 DEF Next

-----------------------------------------------------------------------------
\* The places at which a branch and its worktree are not one thing.
HalfWay == {"record", "rollback", "remove", "deleteBranch"}

\* A step of a process that is not half way: branches and worktrees stay, and
\* so does whatever another process is in the middle of.
Quiet(p) ==
  /\ branches' = branches /\ trees' = trees /\ faults' >= faults
  /\ pc[p] \notin HalfWay /\ pc'[p] \notin HalfWay
  /\ \A r \in Processes \ {p} : pc'[r] = pc[r] /\ job'[r] = job[r]

RecordsStay == \A d \in Dispatches : Recorded(d)' = Recorded(d)

\* Being half way takes the lock, so it need not be asked for.
LEMMA InsideIs ==
  ASSUME Exclusive, Exclusive', NEW d \in Dispatches, NEW places \in SUBSET HalfWay
  PROVE  /\ Inside(d, places) <=> \E r \in Processes : job[r] = d /\ pc[r] \in places
         /\ Inside(d, places)' <=> \E r \in Processes : job'[r] = d /\ pc'[r] \in places
BY DEF Exclusive, Inside, HalfWay, Holding

\* A quiet step takes nobody half way.
LEMMA QuietKeepsInside ==
  ASSUME Exclusive, Exclusive', NEW p \in Processes, Quiet(p),
         NEW d \in Dispatches, NEW places \in SUBSET HalfWay
  PROVE  Inside(d, places)' <=> Inside(d, places)
<1>1. \A r \in Processes : /\ job[r] = d /\ pc[r] \in places => job'[r] = d /\ pc'[r] \in places
                           /\ job'[r] = d /\ pc'[r] \in places => job[r] = d /\ pc[r] \in places
  BY DEF Quiet
<1> QED
  BY <1>1, InsideIs

\* A quiet step that leaves the records alone changes no life.
LEMMA QuietKeepsLife ==
  ASSUME Exclusive, Exclusive', NEW p \in Processes, Quiet(p),
         NEW d \in Dispatches, Recorded(d)' = Recorded(d)
  PROVE  LifeOf(d)' = LifeOf(d)
<1>1. /\ Inside(d, {"record", "rollback"})' <=> Inside(d, {"record", "rollback"})
      /\ Inside(d, {"remove"})' <=> Inside(d, {"remove"})
      /\ Inside(d, {"deleteBranch"})' <=> Inside(d, {"deleteBranch"})
  BY QuietKeepsInside DEF HalfWay
<1> QED
  BY <1>1 DEF LifeOf, Quiet

\* A branch is stuck when nobody is about to delete it.
LEMMA StuckIs ==
  ASSUME NEW d \in Dispatches
  PROVE  LifeOf(d) = "stuck" <=> d \in branches \ trees /\ ~Inside(d, {"deleteBranch"})
BY DEF LifeOf

\* A quiet step keeps what holders rest on.
LEMMA QuietKeepsInductive ==
  ASSUME WorktreeInductive, TypeOK', Exclusive', NEW p \in Processes, Quiet(p)
  PROVE  WorktreeInductive'
<1>1. HolderUndisturbed'
  <2>1. trees' \subseteq branches'
    BY DEF WorktreeInductive, HolderUndisturbed, Quiet
  <2>2. ASSUME NEW r \in Processes
        PROVE  /\ pc'[r] \in {"record", "rollback", "remove"} => job'[r] \in trees'
               /\ pc'[r] = "deleteBranch" => job'[r] \in branches' \ trees'
               /\ pc'[r] = "rollback" => faults' > 0
    <3>1. CASE r = p
      BY <3>1 DEF Quiet, HalfWay
    <3>2. CASE r # p
      BY <3>2 DEF WorktreeInductive, TypeOK, HolderUndisturbed, Quiet
    <3> QED
      BY <3>1, <3>2
  <2> QED
    BY <2>1, <2>2 DEF HolderUndisturbed
<1>2. NothingStrandedWithoutFault'
  <2>1. ASSUME NEW d \in Dispatches, faults' = 0
        PROVE  LifeOf(d)' # "stuck"
    <3>1. faults = 0
      BY <2>1 DEF WorktreeInductive, TypeOK, Quiet
    <3>2. d \in branches \ trees => Inside(d, {"deleteBranch"})
      BY <3>1, StuckIs DEF WorktreeInductive, NothingStrandedWithoutFault
    <3>3. Inside(d, {"deleteBranch"})' <=> Inside(d, {"deleteBranch"})
      BY QuietKeepsInside DEF WorktreeInductive, HalfWay
    <3> QED
      BY <3>2, <3>3 DEF LifeOf, Quiet
  <2> QED
    BY <2>1 DEF NothingStrandedWithoutFault
<1> QED
  BY <1>1, <1>2 DEF WorktreeInductive

\* What does not touch the record of a dispatch.
LEMMA PutKeepsRecords ==
  ASSUME TypeOK, NEW d \in Dispatches, NEW artifacts, Put(d, artifacts), "workspace.json" \notin artifacts
  PROVE  RecordsStay
BY DEF TypeOK, Put, RecordsStay, Recorded, Has

\* The commands start quietly.
LEMMA CommandIsQuiet ==
  ASSUME TypeOK, NEW p \in Processes, Command(p)
  PROVE  Quiet(p) /\ RecordsStay
<1> USE DEF Quiet, HalfWay, TypeOK, Start, About, Goto, repoVars
<1>1. ASSUME NEW d \in Dispatches, StartDispatch(p, d)
      PROVE  Quiet(p) /\ RecordsStay
  BY <1>1, PutKeepsRecords DEF StartDispatch
<1>2. ASSUME NEW d \in Dispatches, StartDiscard(p, d)
      PROVE  Quiet(p) /\ RecordsStay
  BY <1>2, PutKeepsRecords DEF StartDiscard
<1>3. ASSUME NEW d \in Dispatches, NEW find \in {"patchFind", "pickFind"}, StartApply(p, d, find)
      PROVE  Quiet(p) /\ RecordsStay
  BY <1>3, PutKeepsRecords DEF StartApply
<1>4. CASE StartCleanup(p)
  BY <1>4 DEF StartCleanup, runVars, RecordsStay, Recorded, Has
<1> QED
  BY <1>1, <1>2, <1>3, <1>4 DEF Command

\* What else is quiet: waiting, capturing, applying, recording and cleaning up.
LEMMA StepIsQuiet ==
  ASSUME TypeOK, NEW p \in Processes,
         \/ Acquire(p) \/ PrepareAgain(p) \/ PrepareRefused(p) \/ ProviderExits(p)
         \/ CaptureFails(p) \/ CapturePatch(p) \/ CaptureChangeset(p) \/ WriteResult(p)
         \/ FindPatch(p) \/ ReadManifest(p)
         \/ TargetDirty(p) \/ ApplyPatch(p) \/ BeginPicks(p) \/ PickCommit(p)
         \/ ApplyWorking(p) \/ RecordApply(p) \/ RecordDiscard(p) \/ CleanupDone(p)
         \/ \E d \in Dispatches : CleanupSkip(p, d) \/ CleanupChoose(p, d)
  PROVE  Quiet(p) /\ RecordsStay
<1> USE DEF Quiet, HalfWay, TypeOK, Goto, Leave, repoVars, runVars
<1>1. CASE Acquire(p)
  <2>1. pc[p] \notin HalfWay /\ Critical[pc[p]] \notin HalfWay
    BY <1>1, Places DEF Acquire
  <2> QED
    BY <1>1, <2>1 DEF Acquire, RecordsStay, Recorded, Has
<1>2. CASE PrepareAgain(p)
  BY <1>2 DEF PrepareAgain, RecordsStay, Recorded, Has
<1>3. CASE PrepareRefused(p)
  <2>1. faults' >= faults
    <3>1. CASE Fault
      BY <3>1, FaultCounted
    <3>2. CASE UNCHANGED faults
      BY <3>2, WorktreeAssumption
    <3> QED
      BY <1>3, <3>1, <3>2 DEF PrepareRefused
  <2> QED
    BY <1>3, <2>1 DEF PrepareRefused, RecordsStay, Recorded, Has
<1>4. CASE ProviderExits(p)
  BY <1>4 DEF ProviderExits, RecordsStay, Recorded, Has
<1>5. CASE CapturePatch(p)
  <2>1. RecordsStay
    BY <1>5, PutKeepsRecords DEF CapturePatch, RecordsStay, Recorded, Has
  <2> QED
    BY <1>5, <2>1 DEF CapturePatch
<1>6. CASE CaptureChangeset(p)
  <2>1. RecordsStay
    BY <1>6, PutKeepsRecords DEF CaptureChangeset
  <2> QED
    BY <1>6, <2>1 DEF CaptureChangeset
<1>7. CASE WriteResult(p)
  <2>1. RecordsStay
    BY <1>7, PutKeepsRecords DEF WriteResult
  <2> QED
    BY <1>7, <2>1 DEF WriteResult
<1>8. CASE TargetDirty(p)
  BY <1>8 DEF TargetDirty, RecordsStay, Recorded, Has
<1>9. CASE ApplyPatch(p)
  BY <1>9 DEF ApplyPatch, RecordsStay, Recorded, Has
<1>10. CASE BeginPicks(p)
  BY <1>10 DEF BeginPicks, RecordsStay, Recorded, Has
<1>11. CASE PickCommit(p)
  <2>1. pc[p] = "picking" /\ \A r \in Processes \ {p} : pc'[r] = pc[r]
    BY <1>11 DEF PickCommit
  <2>2. pc'[p] \notin HalfWay
    BY <1>11 DEF PickCommit
  <2>3. RecordsStay /\ UNCHANGED <<branches, trees, job, faults>>
    BY <1>11 DEF PickCommit, RecordsStay, Recorded, Has
  <2> QED
    BY <2>1, <2>2, <2>3, WorktreeAssumption
<1>12. CASE ApplyWorking(p)
  <2>1. pc[p] = "working" /\ pc'[p] \notin HalfWay /\ \A r \in Processes \ {p} : pc'[r] = pc[r]
    BY <1>12 DEF ApplyWorking
  <2>2. RecordsStay /\ UNCHANGED <<branches, trees, job, faults>>
    BY <1>12 DEF ApplyWorking, RecordsStay, Recorded, Has
  <2> QED
    BY <2>1, <2>2, WorktreeAssumption
<1>13. CASE RecordApply(p)
  BY <1>13 DEF RecordApply, RecordsStay, Recorded, Has
<1>14. CASE RecordDiscard(p)
  BY <1>14 DEF RecordDiscard, RecordsStay, Recorded, Has
<1>15. CASE CleanupDone(p)
  BY <1>15 DEF CleanupDone, RecordsStay, Recorded, Has
<1>16. ASSUME NEW d \in Dispatches, CleanupSkip(p, d) \/ CleanupChoose(p, d)
       PROVE  Quiet(p) /\ RecordsStay
  BY <1>16 DEF CleanupSkip, CleanupChoose, About, RecordsStay, Recorded, Has
<1>17. CASE CaptureFails(p)
  BY <1>17, FaultCounted DEF CaptureFails, RecordsStay, Recorded, Has
<1>18. CASE FindPatch(p)
  <2>1. RecordsStay
    BY <1>18, PutKeepsRecords DEF FindPatch
  <2>2. Reading[pc[p]] \notin HalfWay
    BY <1>18, Places DEF FindPatch
  <2> QED
    BY <1>18, <2>1, <2>2 DEF FindPatch
<1>19. CASE ReadManifest(p)
  <2>1. Reading[pc[p]] \notin HalfWay
    BY <1>19, Places DEF ReadManifest
  <2> QED
    BY <1>19, <2>1 DEF ReadManifest, RecordsStay, Recorded, Has
<1> QED
  BY <1>1, <1>2, <1>3, <1>4, <1>5, <1>6, <1>7, <1>8, <1>9, <1>10, <1>11, <1>12,
     <1>13, <1>14, <1>15, <1>16, <1>17, <1>18, <1>19

-----------------------------------------------------------------------------
\* A step of the process that holds the lock, about its own dispatch only.
HolderStep(p) ==
  /\ pc[p] \in Holding /\ job' = job
  /\ \A r \in Processes \ {p} : pc'[r] = pc[r]
  /\ \A d \in Dispatches \ {job[p]} :
       /\ d \in trees' <=> d \in trees
       /\ d \in branches' <=> d \in branches
       /\ Recorded(d)' = Recorded(d)

\* The life of the dispatch the holder of the lock is at work on, by its place.
LifeAt(tree, branch, record, place) ==
  IF tree
  THEN IF place \in {"record", "rollback"} THEN "none"
       ELSE IF record \/ place = "remove" THEN "owned" ELSE "orphan"
  ELSE IF branch /\ place # "deleteBranch" THEN "stuck" ELSE "none"

\* The holder changes the life of its own dispatch and of no other.
LEMMA HolderLife ==
  ASSUME TypeOK, Exclusive, Exclusive', NEW p \in Processes, HolderStep(p)
  PROVE  /\ \A d \in Dispatches \ {job[p]} : LifeOf(d)' = LifeOf(d)
         /\ LifeOf(job[p]) =
              LifeAt(job[p] \in trees, job[p] \in branches, Recorded(job[p]), pc[p])
         /\ \A d \in {job[p]} :
              LifeOf(d)' = LifeAt(d \in trees', d \in branches', Recorded(d)', pc'[p])
<1>1. \A r \in Processes \ {p} : pc[r] \notin HalfWay /\ pc'[r] \notin HalfWay
  BY DEF HolderStep, Exclusive, HalfWay, Holding
<1>2. ASSUME NEW d \in Dispatches, NEW places \in SUBSET HalfWay
      PROVE  /\ Inside(d, places) <=> job[p] = d /\ pc[p] \in places
             /\ Inside(d, places)' <=> job[p] = d /\ pc'[p] \in places
  <2>1. /\ Inside(d, places) <=> \E r \in Processes : job[r] = d /\ pc[r] \in places
        /\ Inside(d, places)' <=> \E r \in Processes : job'[r] = d /\ pc'[r] \in places
    BY InsideIs
  <2> QED
    BY <1>1, <2>1 DEF HolderStep
<1>3. ASSUME NEW d \in Dispatches
      PROVE  /\ Inside(d, {"record", "rollback"}) <=> job[p] = d /\ pc[p] \in {"record", "rollback"}
             /\ Inside(d, {"record", "rollback"})' <=> job[p] = d /\ pc'[p] \in {"record", "rollback"}
             /\ Inside(d, {"remove"}) <=> job[p] = d /\ pc[p] = "remove"
             /\ Inside(d, {"remove"})' <=> job[p] = d /\ pc'[p] = "remove"
             /\ Inside(d, {"deleteBranch"}) <=> job[p] = d /\ pc[p] = "deleteBranch"
             /\ Inside(d, {"deleteBranch"})' <=> job[p] = d /\ pc'[p] = "deleteBranch"
  <2>1. {"record", "rollback"} \in SUBSET HalfWay /\ {"remove"} \in SUBSET HalfWay
        /\ {"deleteBranch"} \in SUBSET HalfWay
    BY DEF HalfWay
  <2> QED
    BY <1>2, <2>1
<1>4. \A d \in Dispatches \ {job[p]} : LifeOf(d)' = LifeOf(d)
  BY <1>3 DEF LifeOf, HolderStep
<1>5. job[p] \in Dispatches
  BY DEF TypeOK
<1> QED
  BY <1>3, <1>4, <1>5 DEF LifeOf, LifeAt

\* The holder keeps what it rests on when its own dispatch is in order, and
\* the others rest on nothing.
LEMMA HolderKeepsInductive ==
  ASSUME WorktreeInductive, TypeOK', Exclusive', NEW p \in Processes, HolderStep(p),
         faults' >= faults,
         job[p] \in trees' => job[p] \in branches',
         pc'[p] \in {"record", "rollback", "remove"} => job[p] \in trees',
         pc'[p] = "deleteBranch" => job[p] \in branches' \ trees',
         pc'[p] = "rollback" => faults' > 0,
         faults' = 0 /\ job[p] \in branches' \ trees' => pc'[p] = "deleteBranch"
  PROVE  WorktreeInductive'
<1>1. HolderUndisturbed'
  <2>1. \A d \in Dispatches : d \in trees' => d \in branches'
    BY DEF WorktreeInductive, HolderUndisturbed, HolderStep
  <2>2. \A r \in Processes \ {p} : pc'[r] \notin HalfWay
    BY DEF WorktreeInductive, HolderStep, Exclusive, HalfWay, Holding
  <2> QED
    BY <2>1, <2>2 DEF HolderUndisturbed, HolderStep, HalfWay, TypeOK
<1>2. NothingStrandedWithoutFault'
  <2> SUFFICES ASSUME NEW d \in Dispatches, faults' = 0
               PROVE  LifeOf(d)' # "stuck"
      BY DEF NothingStrandedWithoutFault
  <2>1. faults = 0
    BY DEF WorktreeInductive, TypeOK
  <2>2. CASE d # job[p]
    <3>1. LifeOf(d)' = LifeOf(d)
      BY <2>2, HolderLife DEF WorktreeInductive
    <3> QED
      BY <2>1, <3>1 DEF WorktreeInductive, NothingStrandedWithoutFault
  <2>3. CASE d = job[p]
    <3>1. LifeOf(d)' = LifeAt(d \in trees', d \in branches', Recorded(d)', pc'[p])
      BY <2>3, HolderLife DEF WorktreeInductive
    <3> QED
      BY <2>3, <3>1 DEF LifeAt
  <2> QED
    BY <2>2, <2>3
<1> QED
  BY <1>1, <1>2 DEF WorktreeInductive

-----------------------------------------------------------------------------
\* No fault, no change of the count.
LEMMA FaultsKept ==
  ASSUME TypeOK, faults' = faults
  PROVE  faults \in Nat /\ faults' >= faults
BY WorktreeAssumption DEF TypeOK

\* How a life may change in one step.
Turn == {<<"none", "owned">>, <<"owned", "none">>, <<"none", "orphan">>,
         <<"owned", "orphan">>, <<"none", "stuck">>, <<"owned", "stuck">>}

\* At most one dispatch changes its life, as WorktreeLifecycle allows; it loses
\* its record after a fault or to a cleanup only.
LifeTurns ==
  /\ \A d, e \in Dispatches : LifeOf(d)' # LifeOf(d) /\ LifeOf(e)' # LifeOf(e) => d = e
  /\ \A d \in Dispatches :
       /\ LifeOf(d)' # LifeOf(d) => <<LifeOf(d), LifeOf(d)'>> \in Turn
       /\ LifeOf(d)' = "orphan" /\ LifeOf(d) # "orphan" /\ faults' = 0 =>
            \E p \in Processes : pc[p] = "rmtree" /\ job[p] = d

\* What a discard takes away it verified; what a prepare undoes had no record.
TreesTaken ==
  \A d \in trees \ trees' :
    Inside(d, {"remove"}) \/ (Inside(d, {"rollback"}) /\ faults > 0)

\* A quiet step that leaves the records alone is a stutter.
LEMMA QuietTurnsNothing ==
  ASSUME WorktreeInductive, TypeOK', Exclusive', NEW p \in Processes, Quiet(p), RecordsStay
  PROVE  WorktreeInductive' /\ LifeTurns /\ TreesTaken
<1>1. \A d \in Dispatches : LifeOf(d)' = LifeOf(d)
  BY QuietKeepsLife DEF WorktreeInductive, RecordsStay
<1> QED
  BY <1>1, QuietKeepsInductive DEF LifeTurns, TreesTaken, Quiet

\* Only the life of the holder's dispatch has to be looked at.
LEMMA HolderTurns ==
  ASSUME TypeOK, Exclusive, Exclusive', NEW p \in Processes, HolderStep(p),
         \A d \in {job[p]} :
           LifeOf(d)' # LifeOf(d) =>
             <<LifeOf(d), LifeOf(d)'>> \in Turn /\ (LifeOf(d)' = "orphan" => faults' # 0)
  PROVE  LifeTurns
<1>1. \A d \in Dispatches : LifeOf(d)' # LifeOf(d) => d = job[p]
  BY HolderLife
<1> QED
  BY <1>1 DEF LifeTurns

\* git worktree add makes what is not yet owned.
LEMMA AddWorktreeTurns ==
  ASSUME WorktreeInductive, TypeOK', Exclusive', NEW p \in Processes, AddWorktree(p)
  PROVE  WorktreeInductive' /\ LifeTurns /\ TreesTaken
<1>1. /\ HolderStep(p) /\ pc[p] = "prepare" /\ pc'[p] = "record" /\ faults' = faults
      /\ job[p] \in Dispatches /\ job[p] \notin trees /\ job[p] \notin branches
      /\ job[p] \in trees' /\ job[p] \in branches' /\ trees \ trees' = {}
  BY DEF AddWorktree, WorktreeInductive, TypeOK, Goto, HolderStep, Holding, runVars,
     Recorded, Has
<1>2. WorktreeInductive'
  BY <1>1, HolderKeepsInductive, FaultsKept DEF WorktreeInductive
<1>3. \A d \in {job[p]} : LifeOf(d) = "none" /\ LifeOf(d)' = "none"
  BY <1>1, HolderLife DEF WorktreeInductive, LifeAt
<1> QED
  BY <1>1, <1>2, <1>3, HolderTurns DEF WorktreeInductive, TreesTaken

\* workspace.json is what makes a worktree owned.
LEMMA WriteRecordTurns ==
  ASSUME WorktreeInductive, TypeOK', Exclusive', NEW p \in Processes, WriteRecord(p)
  PROVE  WorktreeInductive' /\ LifeTurns /\ TreesTaken
<1>1. /\ pc[p] = "record" /\ pc'[p] = "running" /\ faults' = faults /\ job' = job
      /\ trees' = trees /\ branches' = branches /\ job[p] \in Dispatches
      /\ \A r \in Processes \ {p} : pc'[r] = pc[r]
  BY DEF WriteRecord, WorktreeInductive, TypeOK, Goto, Leave, repoVars
<1>2. /\ \A d \in Dispatches \ {job[p]} : Recorded(d)' = Recorded(d)
      /\ \A d \in {job[p]} : Recorded(d)'
  BY <1>1 DEF WriteRecord, WorktreeInductive, TypeOK, Put, Recorded, Has
<1>3. HolderStep(p)
  BY <1>1, <1>2 DEF HolderStep, Holding
<1>4. job[p] \in trees /\ job[p] \in branches
  BY <1>1 DEF WorktreeInductive, HolderUndisturbed
<1>5. WorktreeInductive'
  BY <1>1, <1>3, <1>4, HolderKeepsInductive, FaultsKept DEF WorktreeInductive
<1>6. \A d \in {job[p]} : LifeOf(d) = "none" /\ LifeOf(d)' = "owned"
  BY <1>1, <1>2, <1>3, <1>4, HolderLife DEF WorktreeInductive, LifeAt
<1> QED
  BY <1>1, <1>3, <1>5, <1>6, HolderTurns DEF WorktreeInductive, TreesTaken, Turn

\* A record that cannot be written is a fault, and leads to the rollback.
LEMMA RecordFailsTurns ==
  ASSUME WorktreeInductive, TypeOK', Exclusive', NEW p \in Processes, RecordFails(p)
  PROVE  WorktreeInductive' /\ LifeTurns /\ TreesTaken
<1>1. /\ HolderStep(p) /\ pc[p] = "record" /\ pc'[p] = "rollback"
      /\ trees' = trees /\ branches' = branches
      /\ faults' >= faults /\ faults' > 0
  BY FaultCounted DEF RecordFails, WorktreeInductive, TypeOK, Goto, HolderStep,
     Holding, repoVars,
     runVars, Recorded, Has
<1>2. job[p] \in trees /\ job[p] \in branches
  BY <1>1 DEF WorktreeInductive, HolderUndisturbed
<1>3. WorktreeInductive'
  BY <1>1, <1>2, HolderKeepsInductive
<1>4. \A d \in {job[p]} : LifeOf(d) = "none" /\ LifeOf(d)' = "none"
  BY <1>1, <1>2, HolderLife DEF WorktreeInductive, LifeAt
<1> QED
  BY <1>1, <1>3, <1>4, HolderTurns DEF WorktreeInductive, TreesTaken

\* The rollback takes the worktree, and the branch if Git lets it.
LEMMA RollbackTurns ==
  ASSUME WorktreeInductive, TypeOK', Exclusive', NEW p \in Processes, Rollback(p)
  PROVE  WorktreeInductive' /\ LifeTurns /\ TreesTaken
<1>1. /\ HolderStep(p) /\ pc[p] = "rollback" /\ pc'[p] = "idle"
      /\ trees' = trees \ {job[p]} /\ faults' = faults
  BY DEF Rollback, WorktreeInductive, TypeOK, Goto, Leave, HolderStep, Holding,
     runVars, Recorded, Has
<1>2. job[p] \in trees /\ faults > 0 /\ job[p] \notin trees'
  BY <1>1 DEF WorktreeInductive, HolderUndisturbed
<1>3. WorktreeInductive'
  BY <1>1, <1>2, HolderKeepsInductive, FaultsKept DEF WorktreeInductive
<1>4. \A d \in {job[p]} : LifeOf(d) = "none" /\ LifeOf(d)' \in {"none", "stuck"}
  BY <1>1, <1>2, HolderLife DEF WorktreeInductive, LifeAt
<1>5. \A d \in trees \ trees' : Inside(d, {"rollback"}) /\ faults > 0
  BY <1>1, <1>2 DEF WorktreeInductive, Exclusive, Inside, Holding
<1> QED
  BY <1>1, <1>3, <1>4, <1>5, HolderTurns DEF WorktreeInductive, TreesTaken, Turn

\* A discard goes on only with a worktree that its record owns.
LEMMA VerifyTurns ==
  ASSUME WorktreeInductive, TypeOK', Exclusive', NEW p \in Processes, Verify(p)
  PROVE  WorktreeInductive' /\ LifeTurns /\ TreesTaken
<1>1. /\ HolderStep(p) /\ pc[p] = "discard" /\ faults' = faults
      /\ trees' = trees /\ branches' = branches
      /\ \A d \in Dispatches : Recorded(d)' = Recorded(d)
  BY DEF Verify, WorktreeInductive, TypeOK, Goto, Leave, HolderStep, Holding,
     repoVars, runVars,
     Recorded, Has
<1>2. CASE job[p] \in trees /\ Recorded(job[p])
  <2>1. pc'[p] = "remove" /\ job[p] \in branches /\ job[p] \in Dispatches
    BY <1>2 DEF Verify, Goto, WorktreeInductive, TypeOK, HolderUndisturbed
  <2>2. WorktreeInductive'
    BY <1>1, <1>2, <2>1, HolderKeepsInductive, FaultsKept DEF WorktreeInductive
  <2>3. \A d \in {job[p]} : LifeOf(d) = "owned" /\ LifeOf(d)' = "owned"
    BY <1>1, <1>2, <2>1, HolderLife DEF WorktreeInductive, LifeAt
  <2> QED
    BY <1>1, <2>2, <2>3, HolderTurns DEF WorktreeInductive, TreesTaken
<1>3. CASE ~(job[p] \in trees /\ Recorded(job[p]))
  <2>1. Quiet(p) /\ RecordsStay
    BY <1>1, <1>3, FaultsKept
       DEF Verify, Leave, Goto, WorktreeInductive, TypeOK, Quiet, HalfWay, RecordsStay, HolderStep
  <2> QED
    BY <2>1, QuietTurnsNothing
<1> QED
  BY <1>2, <1>3

\* git worktree remove, or its failure.
LEMMA RemoveTreeTurns ==
  ASSUME WorktreeInductive, TypeOK', Exclusive', NEW p \in Processes, RemoveTree(p)
  PROVE  WorktreeInductive' /\ LifeTurns /\ TreesTaken
<1>1. /\ HolderStep(p) /\ pc[p] = "remove" /\ branches' = branches /\ job[p] \in Dispatches
      /\ \A d \in Dispatches : Recorded(d)' = Recorded(d)
  BY DEF RemoveTree, WorktreeInductive, TypeOK, Goto, Leave, HolderStep, Holding, runVars,
     Recorded, Has
<1>2. job[p] \in trees /\ job[p] \in branches
  BY <1>1 DEF WorktreeInductive, HolderUndisturbed
<1>3. LifeOf(job[p]) = "owned"
  BY <1>1, <1>2, HolderLife DEF WorktreeInductive, LifeAt
<1>4. CASE trees' = trees \ {job[p]} /\ Goto(p, "deleteBranch") /\ faults' = faults
  <2>1. pc'[p] = "deleteBranch" /\ job[p] \notin trees'
    BY <1>4 DEF Goto, WorktreeInductive, TypeOK
  <2>2. WorktreeInductive'
    BY <1>1, <1>2, <1>4, <2>1, HolderKeepsInductive, FaultsKept DEF WorktreeInductive
  <2>3. \A d \in {job[p]} : LifeOf(d) = "owned" /\ LifeOf(d)' = "none"
    BY <1>1, <1>3, <2>1, HolderLife DEF WorktreeInductive, LifeAt
  <2>4. \A d \in trees \ trees' : Inside(d, {"remove"})
    BY <1>1, <1>4 DEF WorktreeInductive, Exclusive, Inside, Holding
  <2> QED
    BY <1>1, <2>2, <2>3, <2>4, HolderTurns DEF WorktreeInductive, TreesTaken, Turn
<1>5. CASE Fault /\ Leave(p, "idle") /\ trees' = trees
  <2>1. pc'[p] = "idle" /\ faults' >= faults /\ faults' > 0
    BY <1>5, FaultCounted DEF Leave, Goto, WorktreeInductive, TypeOK
  <2>2. WorktreeInductive'
    BY <1>1, <1>2, <1>5, <2>1, HolderKeepsInductive
  <2>3. \A d \in {job[p]} : LifeOf(d) = "owned" /\ LifeOf(d)' \in {"owned", "orphan"}
    BY <1>1, <1>2, <1>3, <1>5, <2>1, HolderLife DEF WorktreeInductive, LifeAt
  <2> QED
    BY <1>1, <1>5, <2>1, <2>2, <2>3, HolderTurns DEF WorktreeInductive, TreesTaken, Turn
<1> QED
  BY <1>4, <1>5 DEF RemoveTree

\* git branch -D, or its failure.
LEMMA DeleteBranchTurns ==
  ASSUME WorktreeInductive, TypeOK', Exclusive', NEW p \in Processes, DeleteBranch(p)
  PROVE  WorktreeInductive' /\ LifeTurns /\ TreesTaken
<1>1. /\ HolderStep(p) /\ pc[p] = "deleteBranch" /\ trees' = trees /\ job[p] \in Dispatches
      /\ \A d \in Dispatches : Recorded(d)' = Recorded(d)
  BY DEF DeleteBranch, WorktreeInductive, TypeOK, Goto, Leave, HolderStep, Holding,
     runVars,
     Recorded, Has
<1>2. job[p] \notin trees /\ job[p] \in branches
  BY <1>1 DEF WorktreeInductive, HolderUndisturbed
<1>3. LifeOf(job[p]) = "none"
  BY <1>1, <1>2, HolderLife DEF WorktreeInductive, LifeAt
<1>4. CASE branches' = branches \ {job[p]} /\ Goto(p, "recordDiscard") /\ faults' = faults
  <2>1. pc'[p] = "recordDiscard" /\ job[p] \notin branches'
    BY <1>4 DEF Goto, WorktreeInductive, TypeOK
  <2>2. WorktreeInductive'
    BY <1>1, <1>2, <1>4, <2>1, HolderKeepsInductive, FaultsKept DEF WorktreeInductive
  <2>3. \A d \in {job[p]} : LifeOf(d) = "none" /\ LifeOf(d)' = "none"
    BY <1>1, <1>2, <1>3, <2>1, HolderLife DEF WorktreeInductive, LifeAt
  <2> QED
    BY <1>1, <2>2, <2>3, HolderTurns DEF WorktreeInductive, TreesTaken
<1>5. CASE Fault /\ Leave(p, "idle") /\ branches' = branches
  <2>1. pc'[p] = "idle" /\ faults' >= faults /\ faults' > 0
    BY <1>5, FaultCounted DEF Leave, Goto, WorktreeInductive, TypeOK
  <2>2. WorktreeInductive'
    BY <1>1, <1>2, <1>5, <2>1, HolderKeepsInductive
  <2>3. \A d \in {job[p]} : LifeOf(d) = "none" /\ LifeOf(d)' = "stuck"
    BY <1>1, <1>2, <1>3, <1>5, <2>1, HolderLife DEF WorktreeInductive, LifeAt
  <2> QED
    BY <1>1, <1>5, <2>1, <2>2, <2>3, HolderTurns DEF WorktreeInductive, TreesTaken, Turn
<1> QED
  BY <1>4, <1>5 DEF DeleteBranch

\* A cleanup takes the record of a worktree away with its run directory.
LEMMA CleanupRemoveTurns ==
  ASSUME WorktreeInductive, TypeOK', Exclusive', NEW p \in Processes, CleanupRemove(p)
  PROVE  WorktreeInductive' /\ LifeTurns /\ TreesTaken
<1>1. /\ pc[p] = "rmtree" /\ UNCHANGED <<trees, branches, job, faults>>
      /\ \A r \in Processes \ {p} : pc'[r] = pc[r]
      /\ pc'[p] \in {"cleanup", "idle"}
  BY DEF CleanupRemove, WorktreeInductive, TypeOK, Goto, repoVars
<1>2. /\ \A d \in Dispatches \ {job[p]} : Recorded(d)' = Recorded(d)
      /\ \A d \in {job[p]} : ~Recorded(d)'
  BY DEF CleanupRemove, WorktreeInductive, TypeOK, Recorded, Has
<1>3. Quiet(p)
  BY <1>1, FaultsKept DEF Quiet, HalfWay, WorktreeInductive
<1>4. WorktreeInductive'
  BY <1>3, QuietKeepsInductive
<1>5. \A d \in Dispatches \ {job[p]} : LifeOf(d)' = LifeOf(d)
  BY <1>2, <1>3, QuietKeepsLife DEF WorktreeInductive
<1>6. ASSUME NEW d \in {job[p]}
      PROVE  LifeOf(d)' # LifeOf(d) => LifeOf(d) = "owned" /\ LifeOf(d)' = "orphan"
  <2>1. d \in Dispatches
    BY DEF WorktreeInductive, TypeOK
  <2>2. /\ Inside(d, {"record", "rollback"})' <=> Inside(d, {"record", "rollback"})
        /\ Inside(d, {"remove"})' <=> Inside(d, {"remove"})
        /\ Inside(d, {"deleteBranch"})' <=> Inside(d, {"deleteBranch"})
    BY <1>3, <2>1, QuietKeepsInside DEF WorktreeInductive, HalfWay
  <2> QED
    BY <1>1, <1>2, <2>2 DEF LifeOf
<1>7. LifeTurns
  BY <1>1, <1>5, <1>6 DEF LifeTurns, Turn
<1> QED
  BY <1>1, <1>4, <1>7 DEF TreesTaken

\* A process that is killed half way leaves a life to be told by what is there.
LEMMA CrashTurns ==
  ASSUME WorktreeInductive, TypeOK', Exclusive', NEW p \in Processes, Crash(p)
  PROVE  WorktreeInductive' /\ LifeTurns /\ TreesTaken
<1>1. /\ UNCHANGED <<trees, branches, job>> /\ pc'[p] = "idle" /\ job[p] \in Dispatches
      /\ \A r \in Processes \ {p} : pc'[r] = pc[r]
      /\ \A d \in Dispatches : Recorded(d)' = Recorded(d)
  BY DEF Crash, Goto, WorktreeInductive, TypeOK, repoVars, runVars, Recorded, Has
<1>2. faults' >= faults /\ faults' > 0
  BY FaultCounted DEF Crash, WorktreeInductive
<1>3. CASE pc[p] \notin HalfWay
  <2>1. Quiet(p) /\ RecordsStay
    BY <1>1, <1>2, <1>3 DEF Quiet, HalfWay, RecordsStay
  <2> QED
    BY <2>1, QuietTurnsNothing
<1>4. CASE pc[p] \in HalfWay
  <2>1. HolderStep(p)
    BY <1>1, <1>4 DEF HolderStep, HalfWay, Holding
  <2>2. /\ pc[p] \in {"record", "rollback", "remove"} => job[p] \in trees
        /\ pc[p] = "deleteBranch" => job[p] \in branches \ trees
        /\ job[p] \in trees => job[p] \in branches
    BY DEF WorktreeInductive, HolderUndisturbed
  <2>3. WorktreeInductive'
    BY <1>1, <1>2, <2>1, <2>2, HolderKeepsInductive
  <2>4. \A d \in {job[p]} :
          LifeOf(d)' # LifeOf(d) => <<LifeOf(d), LifeOf(d)'>> \in Turn
    <3>1. /\ LifeOf(job[p]) =
                LifeAt(job[p] \in trees, job[p] \in branches, Recorded(job[p]), pc[p])
          /\ \A d \in {job[p]} : LifeOf(d)' = LifeAt(d \in trees, d \in branches, Recorded(d), "idle")
      BY <1>1, <2>1, HolderLife DEF WorktreeInductive
    <3>2. CASE pc[p] \in {"record", "rollback"}
      <4>1. \A d \in {job[p]} : LifeOf(d) = "none" /\ LifeOf(d)' \in {"owned", "orphan"}
        BY <2>2, <3>1, <3>2 DEF LifeAt
      <4> QED
        BY <4>1 DEF Turn
    <3>3. CASE pc[p] = "remove"
      <4>1. \A d \in {job[p]} : LifeOf(d) = "owned" /\ LifeOf(d)' \in {"owned", "orphan"}
        BY <2>2, <3>1, <3>3 DEF LifeAt
      <4> QED
        BY <4>1 DEF Turn
    <3>4. CASE pc[p] = "deleteBranch"
      <4>1. \A d \in {job[p]} : LifeOf(d) = "none" /\ LifeOf(d)' = "stuck"
        BY <2>2, <3>1, <3>4 DEF LifeAt
      <4> QED
        BY <4>1 DEF Turn
    <3> QED
      BY <1>4, <3>2, <3>3, <3>4 DEF HalfWay
  <2> QED
    BY <1>1, <1>2, <2>1, <2>3, <2>4, HolderTurns DEF WorktreeInductive, TreesTaken
<1> QED
  BY <1>3, <1>4

\* What no process does changes nothing of the kind.
LEMMA ElseTurnsNothing ==
  ASSUME WorktreeInductive, UserEdits \/ UNCHANGED vars
  PROVE  WorktreeInductive' /\ LifeTurns /\ TreesTaken
<1>1. UNCHANGED <<branches, trees, files, lock, pc, job, faults>>
  BY DEF UserEdits, vars, repoVars, runVars, procVars
<1>2. \A d \in Dispatches : LifeOf(d)' = LifeOf(d)
  BY <1>1 DEF LifeOf, Inside, Recorded, Has
<1>3. TypeOK' /\ Exclusive'
  BY StepMoves DEF WorktreeInductive, Next
<1>4. HolderUndisturbed'
  BY <1>1 DEF WorktreeInductive, HolderUndisturbed
<1>5. NothingStrandedWithoutFault'
  BY <1>1, <1>2 DEF WorktreeInductive, NothingStrandedWithoutFault
<1> QED
  BY <1>1, <1>2, <1>3, <1>4, <1>5 DEF WorktreeInductive, LifeTurns, TreesTaken

\* Every step keeps the inductive invariant and turns at most one life.
LEMMA StepTurns ==
  ASSUME WorktreeInductive, [Next]_vars
  PROVE  WorktreeInductive' /\ LifeTurns /\ TreesTaken
<1>1. TypeOK' /\ Exclusive'
  BY StepMoves DEF WorktreeInductive
<1>2. CASE UserEdits \/ UNCHANGED vars
  BY <1>2, ElseTurnsNothing
<1>3. ASSUME NEW p \in Processes, Command(p)
      PROVE  WorktreeInductive' /\ LifeTurns /\ TreesTaken
  <2>1. Quiet(p) /\ RecordsStay
    BY <1>3, CommandIsQuiet DEF WorktreeInductive
  <2> QED
    BY <1>1, <2>1, QuietTurnsNothing
<1>4. ASSUME NEW p \in Processes, Step(p)
      PROVE  WorktreeInductive' /\ LifeTurns /\ TreesTaken
  <2>1. CASE \/ AddWorktree(p) \/ WriteRecord(p) \/ RecordFails(p) \/ Rollback(p)
             \/ Verify(p) \/ RemoveTree(p) \/ DeleteBranch(p) \/ CleanupRemove(p)
    BY <1>1, <2>1, AddWorktreeTurns, WriteRecordTurns, RecordFailsTurns, RollbackTurns,
       VerifyTurns, RemoveTreeTurns, DeleteBranchTurns, CleanupRemoveTurns
  <2>2. CASE ~(\/ AddWorktree(p) \/ WriteRecord(p) \/ RecordFails(p) \/ Rollback(p)
               \/ Verify(p) \/ RemoveTree(p) \/ DeleteBranch(p) \/ CleanupRemove(p))
    <3>1. Quiet(p) /\ RecordsStay
      BY <1>4, <2>2, StepIsQuiet DEF Step, WorktreeInductive
    <3> QED
      BY <1>1, <3>1, QuietTurnsNothing
  <2> QED
    BY <2>1, <2>2
<1>5. ASSUME NEW p \in Processes, Crash(p)
      PROVE  WorktreeInductive' /\ LifeTurns /\ TreesTaken
  BY <1>1, <1>5, CrashTurns
<1> QED
  BY <1>2, <1>3, <1>4, <1>5 DEF Next

-----------------------------------------------------------------------------
\* What is about to be recorded as applied has landed, if its patch is there.
AppliedIsLanded ==
  \A p \in Processes :
    pc[p] = "applied" /\ Has(job[p], "changes.patch") => Commits + 1 \in landed[job[p]]

\* A step of a process that takes nothing out of the checkout, writes a patch
\* only while it captures, and goes to where it records only once that patch
\* has landed.
Lands(p) ==
  /\ \A r \in Processes \ {p} : pc'[r] = pc[r] /\ job'[r] = job[r]
  /\ \A d \in Dispatches : landed[d] \subseteq landed'[d]
  /\ \A d \in Dispatches :
       "changes.patch" \in files'[d] => "changes.patch" \in files[d] \/ pc[p] = "capture"
  /\ pc'[p] = "applied" /\ "changes.patch" \in files'[job'[p]] =>
       Commits + 1 \in landed'[job'[p]]

\* What lands stays.
LEMMA LandAdds ==
  ASSUME TypeOK, NEW d \in Dispatches, NEW pieces \in SUBSET Piece, Land(d, pieces)
  PROVE  /\ \A e \in Dispatches : landed[e] \subseteq landed'[e]
         /\ pieces \subseteq landed'[d]
  BY DEF Land, TypeOK

\* Every step of a process is of this kind.
LEMMA StepLands ==
  ASSUME TypeOK, NEW p \in Processes, Step(p) \/ Crash(p)
  PROVE  Lands(p)
<1> USE DEF Lands, TypeOK, Goto, Leave, repoVars, runVars
<1>1. CASE Acquire(p)
  BY <1>1, Places DEF Acquire
<1>2. CASE PrepareAgain(p)
  BY <1>2 DEF PrepareAgain
<1>3. CASE PrepareRefused(p)
  BY <1>3 DEF PrepareRefused
<1>4. CASE AddWorktree(p)
  BY <1>4 DEF AddWorktree
<1>5. CASE WriteRecord(p)
  BY <1>5 DEF WriteRecord, Put
<1>6. CASE RecordFails(p)
  BY <1>6 DEF RecordFails
<1>7. CASE Rollback(p)
  BY <1>7 DEF Rollback
<1>8. CASE ProviderExits(p)
  BY <1>8 DEF ProviderExits
<1>9. CASE CapturePatch(p)
  BY <1>9 DEF CapturePatch, Put
<1>10. CASE CaptureChangeset(p)
  BY <1>10 DEF CaptureChangeset, Put
<1>11. CASE WriteResult(p)
  BY <1>11 DEF WriteResult, Put
<1>12. CASE TargetDirty(p)
  BY <1>12 DEF TargetDirty
<1>13. CASE ApplyPatch(p)
  <2>1. job[p] \in Dispatches /\ Commits + 1 \in Piece
    BY WorktreeAssumption DEF Piece
  <2>2. CASE Land(job[p], Piece)
    <3>1. /\ \A d \in Dispatches : landed[d] \subseteq landed'[d]
          /\ Commits + 1 \in landed'[job[p]]
      BY <2>1, <2>2, LandAdds
    <3> QED
      BY <1>13, <3>1 DEF ApplyPatch
  <2>3. CASE UNCHANGED landed /\ pc'[p] # "applied"
    BY <1>13, <2>3 DEF ApplyPatch
  <2>4. CASE UNCHANGED landed /\ ~Has(job[p], "changes.patch")
    BY <1>13, <2>4 DEF ApplyPatch, Has
  <2> QED
    BY <1>13, <2>2, <2>3, <2>4 DEF ApplyPatch
<1>14. CASE BeginPicks(p)
  BY <1>14 DEF BeginPicks
<1>15. CASE PickCommit(p)
  BY <1>15, WorktreeAssumption DEF PickCommit, Land, Has, Piece
<1>16. CASE ApplyWorking(p)
  <2>1. job[p] \in Dispatches /\ Commits + 1 \in Piece
    BY WorktreeAssumption DEF Piece
  <2>2. CASE Land(job[p], {Commits + 1})
    <3>1. /\ \A d \in Dispatches : landed[d] \subseteq landed'[d]
          /\ Commits + 1 \in landed'[job[p]]
      BY <2>1, <2>2, LandAdds
    <3> QED
      BY <1>16, <3>1 DEF ApplyWorking
  <2>3. CASE UNCHANGED landed /\ pc'[p] # "applied"
    BY <1>16, <2>3 DEF ApplyWorking
  <2>4. CASE UNCHANGED landed /\ ~Has(job[p], "changes.patch")
    BY <1>16, <2>4 DEF ApplyWorking, Has
  <2> QED
    BY <1>16, <2>2, <2>3, <2>4 DEF ApplyWorking
<1>17. CASE RecordApply(p)
  BY <1>17 DEF RecordApply
<1>18. CASE Verify(p)
  BY <1>18 DEF Verify
<1>19. CASE RemoveTree(p)
  BY <1>19 DEF RemoveTree
<1>20. CASE DeleteBranch(p)
  BY <1>20 DEF DeleteBranch
<1>21. CASE RecordDiscard(p)
  BY <1>21 DEF RecordDiscard
<1>22. CASE CleanupRemove(p)
  BY <1>22 DEF CleanupRemove
<1>23. CASE CleanupDone(p)
  BY <1>23 DEF CleanupDone
<1>24. CASE Crash(p)
  BY <1>24 DEF Crash
<1>25. ASSUME NEW d \in Dispatches, CleanupSkip(p, d) \/ CleanupChoose(p, d)
      PROVE  Lands(p)
  BY <1>25 DEF CleanupSkip, CleanupChoose, About
<1>26. CASE CaptureFails(p)
  BY <1>26 DEF CaptureFails
<1>27. CASE FindPatch(p)
  BY <1>27, Places DEF FindPatch, Put
<1>28. CASE ReadManifest(p)
  BY <1>28, Places DEF ReadManifest
<1> QED
  BY <1>1, <1>2, <1>3, <1>4, <1>5, <1>6, <1>7, <1>8, <1>9, <1>10, <1>11, <1>12,
     <1>13, <1>14, <1>15, <1>16, <1>17, <1>18, <1>19, <1>20, <1>21, <1>22, <1>23,
     <1>24, <1>25, <1>26, <1>27, <1>28 DEF Step

\* The commands begin far from there.
LEMMA CommandLands ==
  ASSUME TypeOK, NEW p \in Processes, Command(p)
  PROVE  Lands(p)
<1> USE DEF Lands, TypeOK, Goto, Put, About, Start, repoVars, runVars
<1>1. ASSUME NEW d \in Dispatches, StartDispatch(p, d) PROVE Lands(p)
  BY <1>1 DEF StartDispatch
<1>2. ASSUME NEW d \in Dispatches, StartDiscard(p, d) PROVE Lands(p)
  BY <1>2 DEF StartDiscard
<1>3. ASSUME NEW d \in Dispatches, NEW find \in {"patchFind", "pickFind"},
             StartApply(p, d, find)
      PROVE  Lands(p)
  BY <1>3 DEF StartApply
<1>4. CASE StartCleanup(p)
  BY <1>4 DEF StartCleanup
<1> QED
  BY <1>1, <1>2, <1>3, <1>4 DEF Command

\* Nobody captures a patch while another process is about to record an apply.
LEMMA AppliedKept ==
  ASSUME TypeOK, Exclusive, TypeOK', AppliedIsLanded, [Next]_vars
  PROVE  AppliedIsLanded'
<1>1. CASE UserEdits \/ UNCHANGED vars
  BY <1>1 DEF UserEdits, vars, repoVars, runVars, procVars, AppliedIsLanded, Has
<1>2. ASSUME NEW p \in Processes, Lands(p) PROVE AppliedIsLanded'
  <2> SUFFICES ASSUME NEW r \in Processes, pc'[r] = "applied",
                      "changes.patch" \in files'[job'[r]]
               PROVE  Commits + 1 \in landed'[job'[r]]
    BY DEF AppliedIsLanded, Has
  <2>1. CASE r = p
    BY <1>2, <2>1 DEF Lands
  <2>2. CASE r # p
    <3>1. pc[r] = "applied" /\ job'[r] = job[r] /\ job[r] \in Dispatches
      BY <1>2, <2>2 DEF Lands, TypeOK
    <3>2. pc[p] # "capture"
      BY <2>2, <3>1 DEF Exclusive, Holding
    <3>3. Has(job[r], "changes.patch")
      BY <1>2, <3>1, <3>2 DEF Lands, Has
    <3> QED
      BY <1>2, <3>1, <3>3 DEF Lands, AppliedIsLanded
  <2> QED
    BY <2>1, <2>2
<1> QED
  BY <1>1, <1>2, StepLands, CommandLands DEF Next

-----------------------------------------------------------------------------
\* However many processes prepare, apply, discard and clean up, and whichever
\* of them are killed: every state satisfies the inductive invariant.
THEOREM WorktreeInvariant == Spec => []WorktreeInductive
<1>1. WorktreeInductive /\ [Next]_vars => WorktreeInductive'
  BY StepTurns
<1> QED
  BY <1>1, InitInductive, PTL DEF Spec

\* The state of the repository, the run directories and the processes is typed.
THEOREM WorktreesAreTyped == Spec => []TypeOK
<1>1. WorktreeInductive => TypeOK
  BY DEF WorktreeInductive
<1> QED
  BY <1>1, WorktreeInvariant, PTL

\* RepositoryLock: no two processes are past its acquisition, and a process
\* that is past it holds it.
THEOREM LockExcludes == Spec => []Exclusive
<1>1. WorktreeInductive => Exclusive
  BY DEF WorktreeInductive
<1> QED
  BY <1>1, WorktreeInvariant, PTL

\* Between two steps of a prepare or a discard nobody takes the worktree away
\* or makes one for the branch about to be deleted.
THEOREM HoldersAreUndisturbed == Spec => []HolderUndisturbed
<1>1. WorktreeInductive => HolderUndisturbed
  BY DEF WorktreeInductive
<1> QED
  BY <1>1, WorktreeInvariant, PTL

\* Without a fault no branch is left without its worktree.
THEOREM NothingIsStranded == Spec => []NothingStrandedWithoutFault
<1>1. WorktreeInductive => NothingStrandedWithoutFault
  BY DEF WorktreeInductive
<1> QED
  BY <1>1, WorktreeInvariant, PTL

\* A worktree goes by the discard that verified it or the prepare that made it.
THEOREM WorktreesAreTakenByDiscard == Spec => TakenOnlyByDiscard
<1>1. WorktreeInductive /\ [Next]_vars =>
        [\A d \in trees \ trees' :
           Inside(d, {"remove"}) \/ (Inside(d, {"rollback"}) /\ faults > 0)]_vars
  BY StepTurns DEF TreesTaken
<1> QED
  BY <1>1, WorktreeInvariant, PTL DEF Spec, TakenOnlyByDiscard

\* Without a fault only a cleanup takes the record of a worktree away.
THEOREM RecordsAreLostToCleanup == Spec => OrphanedOnlyByCleanup
<1>1. WorktreeInductive /\ [Next]_vars =>
        [\A d \in Dispatches :
           faults' = 0 /\ LifeOf(d) # "orphan" /\ LifeOf(d)' = "orphan" =>
             \E p \in Processes : pc[p] = "rmtree" /\ job[p] = d]_vars
  BY StepTurns DEF LifeTurns
<1> QED
  BY <1>1, WorktreeInvariant, PTL DEF Spec, OrphanedOnlyByCleanup

\* workspace.py and run_store.py implement WorktreeLifecycle: branch, worktree
\* and record come and go as one thing, or end as an orphan or stuck.
THEOREM ImplementsLifecycle == Spec => ImplementsWorktreeLifecycle
<1> DEFINE life == [d \in Dispatches |-> LifeOf(d)]
<1>1. Init => Promise!Init
  <2> SUFFICES ASSUME Init PROVE \A d \in Dispatches : LifeOf(d) = "none"
      BY DEF Promise!Init
  <2> QED
    BY DEF Init, LifeOf
<1>2. WorktreeInductive /\ [Next]_vars => [Promise!Next]_life
  <2> SUFFICES ASSUME WorktreeInductive, [Next]_vars, life' # life
               PROVE  Promise!Next
      OBVIOUS
  <2>1. LifeTurns
    BY StepTurns
  <2>2. PICK d \in Dispatches : LifeOf(d)' # LifeOf(d)
    OBVIOUS
  <2>3. \A e \in Dispatches \ {d} : LifeOf(e)' = LifeOf(e)
    BY <2>1, <2>2 DEF LifeTurns
  <2>4. <<LifeOf(d), LifeOf(d)'>> \in Turn
    BY <2>1, <2>2 DEF LifeTurns
  <2>5. life' = [life EXCEPT ![d] = LifeOf(d)']
    BY <2>3
  <2>6. life[d] = LifeOf(d)
    OBVIOUS
  <2> HIDE DEF life
  <2>7. Promise!Own(d) \/ Promise!Discard(d) \/ Promise!Lose(d) \/ Promise!Strand(d)
    BY <2>4, <2>5, <2>6 DEF Turn, life, Promise!Own, Promise!Discard, Promise!Lose,
       Promise!Strand,
       Promise!Become
  <2> QED
    BY <2>7 DEF Promise!Next
<1> QED
  BY <1>1, <1>2, WorktreeInvariant, PTL DEF Spec, ImplementsWorktreeLifecycle,
     Promise!Spec

\* workspace.py apply_run: what is recorded as applied has its uncommitted
\* changes in the checkout, unless its patch was taken away by a cleanup.
THEOREM AppliesLandUncommitted == Spec => AppliedLandsUncommitted
<1>1. Init => AppliedIsLanded
  BY DEF Init, AppliedIsLanded
<1>2. WorktreeInductive /\ WorktreeInductive' /\ AppliedIsLanded /\ [Next]_vars =>
        AppliedIsLanded'
  BY AppliedKept DEF WorktreeInductive
<1>3. WorktreeInductive /\ AppliedIsLanded /\ [Next]_vars =>
        [\A d \in Dispatches :
           integration[d] # "applied" /\ integration'[d] = "applied" /\ Has(d, "changes.patch")
             => Commits + 1 \in landed[d]]_vars
  <2> SUFFICES ASSUME TypeOK, AppliedIsLanded, Next, NEW d \in Dispatches,
                      integration[d] # "applied", integration'[d] = "applied",
                      Has(d, "changes.patch")
               PROVE  Commits + 1 \in landed[d]
    BY DEF WorktreeInductive
  <2>1. ASSUME NEW p \in Processes, RecordApply(p) PROVE Commits + 1 \in landed[d]
    BY <2>1 DEF RecordApply, AppliedIsLanded, TypeOK
  <2>2. ASSUME NEW p \in Processes, Step(p) PROVE RecordApply(p)
    BY <2>2 DEF Step, Acquire, PrepareAgain, PrepareRefused, AddWorktree,
       WriteRecord, RecordFails, Rollback, ProviderExits, CapturePatch,
       CaptureChangeset, CaptureFails, WriteResult, FindPatch, ReadManifest,
       TargetDirty, ApplyPatch, BeginPicks,
       PickCommit, ApplyWorking, Verify, RemoveTree, DeleteBranch, RecordDiscard,
       CleanupRemove, CleanupDone, CleanupSkip, CleanupChoose, TypeOK, repoVars,
       runVars
  <2>3. ASSUME NEW p \in Processes, Command(p) \/ Crash(p) PROVE FALSE
    BY <2>3 DEF Command, StartDispatch, StartDiscard, StartApply, StartCleanup,
       Crash, runVars
  <2>4. ~UserEdits
    BY DEF UserEdits, runVars
  <2> QED
    BY <2>1, <2>2, <2>3, <2>4 DEF Next
<1> QED
  BY <1>1, <1>2, <1>3, WorktreeInvariant, PTL DEF Spec, AppliedLandsUncommitted
=============================================================================
