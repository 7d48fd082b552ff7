SPECIFICATION BucketFairSpec
CONSTANTS
  Callers = {t1, t2, t3}
  One = 4
  Rate = 6
  Capacity = 8
  Saturation = 6
  MaxWait = 3
INVARIANT RateNeverExceeded
PROPERTY WaitsEnd
PROPERTY GrantsResume
