SPECIFICATION Spec
CONSTANTS
  a = a
  b = b
  c = c
  d = d
  e = e
  p = p
  q = q
  Tasks <- Trio
  DependsOn <- ForkDependsOn
  Providers = {p, q}
  Provider <- OwnProvider
  ProviderConcurrency <- NoLimits
  MaxConcurrency = 2
  FailurePolicy = "fail-fast"
  MaxAttempts <- RetryA
  RetryOn <- OnAnything
  Verify = {b}
  Outcomes <- EveryOutcome
  MaxCrashes = 0
  MaxResumes = 0
  MaxCancels = 1
  MaxInterrupts = 1
INVARIANT FinalStatusTruthful
PROPERTIES FailFastStopsSubmission CancellationNotLost
CHECK_DEADLOCK FALSE
