SPECIFICATION MwFairSpec
CONSTANTS
  Tasks = {t1, t2, t3}
  Loops = {l1, l2}
  MaxConcurrent = 2
  MayWait = TRUE
  Overlap = FALSE
  None = None
  MaxAttempts = 2
INVARIANT AppsBounded
INVARIANT SlotsConserved
INVARIANT ResponsesAreDue
PROPERTY RequestsEnd
