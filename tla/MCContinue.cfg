SPECIFICATION Spec
CONSTANTS
  a = a
  b = b
  c = c
  d = d
  e = e
  p = p
  q = q
  Tasks <- Five
  DependsOn <- WideDependsOn
  Providers = {p, q}
  Provider <- RootsOfP
  ProviderConcurrency <- OneOfP
  MaxConcurrency = 2
  FailurePolicy = "continue"
  MaxAttempts <- Once
  RetryOn <- NeverRetry
  Verify = {a}
  Outcomes <- Plain
  MaxCrashes = 0
  MaxResumes = 0
  MaxCancels = 0
  MaxInterrupts = 1
INVARIANTS CapacityRespected ProgressAlwaysMade ContinueIsolatesFailures
CHECK_DEADLOCK FALSE
