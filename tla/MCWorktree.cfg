SPECIFICATION FairSpec
CONSTANTS
  p1 = p1
  p2 = p2
  d1 = d1
  d2 = d2
  Free = Free
  Processes = {p1, p2}
  Dispatches = {d1, d2}
  Request <- WriteAndRead
  Rebased = {}
  Commits = 1
  MaxCommands = 4
  MaxFaults = 1
INVARIANTS WorktreeInductive
PROPERTIES OrphanedOnlyByCleanup AppliedLandsUncommitted ImplementsWorktreeLifecycle CommandsEnd
CHECK_DEADLOCK FALSE
