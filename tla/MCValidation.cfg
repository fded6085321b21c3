SPECIFICATION Spec
CONSTANTS
  Absent = Absent
  Null = Null
  Wrong = Wrong
  NaN = NaN
  Infinity = Infinity
  LikeOne = LikeOne
  Catalog <- Providers
  Native <- Host
  Folded <- Lower
  Documents <- Wanted
INVARIANTS AcceptedIsAcyclic NormalisedMeetsSchema NormalisedIsFixpoint AcceptedIsSchedulable
CHECK_DEADLOCK FALSE
