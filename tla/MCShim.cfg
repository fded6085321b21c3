SPECIFICATION FairSpec
CONSTANTS
  s1 = s1
  s2 = s2
  d1 = d1
  d2 = d2
  Shims = {s1}
  Dispatches = {d1, d2}
  DispatchOf <- OneEach
  Adapters <- EveryAdapter
  ChildCodes <- EveryCode
  MaxFaults = 1
  MaxInterrupts = 2
  MaxKills = 1
INVARIANTS ProviderGoneBeforeSentinel RecordTruthful LedgerTruthful OutcomesCovered
PROPERTIES TransitionsNeverRefused ImplementsDispatchRecord EveryShimEnds
CHECK_DEADLOCK FALSE
