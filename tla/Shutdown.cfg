SPECIFICATION FairSpec
CONSTANTS
  Calls = {c1, c2, c3}
  EnabledAtStart = FALSE
INVARIANT CountMatchesCalls
INVARIANT CountedAreDrained
PROPERTY DrainEnds
