SPECIFICATION FairSpec
CONSTANTS
  Callers = {t1, t2}
  Keys = {k1, k2}
  MaxSize = 1
  HasTtl = TRUE
  HasFallback = FALSE
  MayRemove = TRUE
INVARIANT IdleLocksAreAccountedFor
INVARIANT StampedeNeedsDroppedLock
INVARIANT LockHeldOnlyInside
PROPERTY EveryCallerReturns
