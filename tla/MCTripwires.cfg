SPECIFICATION FairSpec
CONSTANTS
  Script <- Strings
  Commands <- Wanted
  InvokesShim <- ShimInvoked
  RunsForeign <- ForeignRun
  MaxEntries = 4
INVARIANTS NothingSlipsThrough WalkExact
PROPERTIES BlocksForCause EveryTurnEnds
CHECK_DEADLOCK FALSE
