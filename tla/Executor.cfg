SPECIFICATION FairSpec
CONSTANTS
  Calls = {c1, c2}
  MaxConcurrent = 1
  MaxAttempts = 3
  MaxRetries = 2
  Errors = {"timeout", "ignored"}
  DelayErrors = {"timeout", "ignored"}
  RetryOn = {"timeout", "BulkheadFull"}
  IgnoreOn = {"ignored"}
  ErrorTypes = {"timeout", "ignored", "BulkheadFull", "CircuitOpen", "RateLimited"}
  CircuitIgnoreOn = {"ignored"}
  HasFallback = TRUE
  FallbackOn = {"timeout", "CircuitOpen"}
  RetriesResults = TRUE
  FailureThreshold = 2
  SuccessThreshold = 1
  RecoveryTimeout = 1
  WindowSize = 0
  MinimumCalls = 0
  FailureRate = 50
  DetectSlow = FALSE
  SlowRate = 100
INVARIANT SlotsConserved
INVARIANT RunsInsideBulkhead
INVARIANT RetriesArePaid
INVARIANT ClosingAnnouncedOnce
PROPERTY ImplementsBoundedRetries
PROPERTY EveryCallReturns
