SPECIFICATION Spec
CONSTANTS
  a = a
  b = b
  c = c
  d = d
  e = e
  p = p
  q = q
  Tasks <- Roots
  DependsOn <- RootsDependOn
  Providers = {p, q}
  Provider <- OneProvider
  ProviderConcurrency <- NoLimits
  MaxConcurrency = 1
  FailurePolicy = "continue"
  MaxAttempts <- Once
  RetryOn <- NeverRetry
  Verify = {}
  Outcomes <- Plain
  MaxCrashes = 0
  MaxResumes = 1
  MaxCancels = 1
  MaxInterrupts = 0
INVARIANT NothingCancelledUnasked
CHECK_DEADLOCK FALSE
