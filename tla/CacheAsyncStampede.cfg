SPECIFICATION Spec
CONSTANTS
  Callers = {t1, t2, t3}
  Keys = {k1, k2}
  MaxSize = 2
  HasTtl = FALSE
  HasFallback = FALSE
  MayRemove = FALSE
SYMMETRY CallerSymmetry
INVARIANT OneComputesPerKey
