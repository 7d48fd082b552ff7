SPECIFICATION Spec
CONSTANTS
  Calls = {c1, c2}
  FailureThreshold = 3
  SuccessThreshold = 2
  RecoveryTimeout = 2
  WindowSize = 3
  MinimumCalls = 2
  FailureRate = 60
  DetectSlow = TRUE
  SlowRate = 100
INVARIANT ClosedIsHealthy
INVARIANT WindowTripsOnOutage
PROPERTY ImplementsAbstract
