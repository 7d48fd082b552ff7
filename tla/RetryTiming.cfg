SPECIFICATION FairSpec
CONSTANTS
  None = None
  NaN = NaN
  Configs <- MCConfigs
  Triggers <- MCTriggers
INVARIANT WorstCase
INVARIANT RunsBeforeDeadline
INVARIANT SleepNeverRaises
INVARIANT ServerIsLeftAlone
PROPERTY CallEnds
