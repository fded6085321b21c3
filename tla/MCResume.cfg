SPECIFICATION FairSpec
CONSTANTS
  a = a
  b = b
  c = c
  d = d
  e = e
  p = p
  q = q
  Tasks <- Chain
  DependsOn <- ChainDependsOn
  Providers = {p, q}
  Provider <- OneProvider
  ProviderConcurrency <- NoLimits
  MaxConcurrency = 2
  FailurePolicy = "continue"
  MaxAttempts <- RetryA
  RetryOn <- OnTransport
  Verify = {a}
  Outcomes <- Retryable
  MaxCrashes = 2
  MaxResumes = 2
  MaxCancels = 1
  MaxInterrupts = 0
INVARIANTS WriteAhead WorkflowInductive
PROPERTIES Termination ImplementsDurableProgress
CHECK_DEADLOCK FALSE
