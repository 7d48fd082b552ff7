SPECIFICATION PoolFairSpec
CONSTANTS
  Attempts = {a1, a2, a3}
  Workers = {w1, w2}
  MaxConcurrent = 3
  None = None
PROPERTY AbandonedNeverBegins
PROPERTY EveryCallerReturns
CHECK_DEADLOCK FALSE
