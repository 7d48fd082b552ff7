SPECIFICATION FairSpec
CONSTANTS
  Calls = {c1, c2, c3}
  FailureThreshold = 2
  SuccessThreshold = 2
  RecoveryTimeout = 2
  WindowSize = 0
  MinimumCalls = 0
  FailureRate = 50
  DetectSlow = FALSE
  SlowRate = 100
PROPERTY OpenOutlastsRecovery
PROPERTY TripsOnConsecutiveFailures
PROPERTY ImplementsAbstract
PROPERTY TrafficResumes
