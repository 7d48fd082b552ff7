SPECIFICATION Spec
CONSTANTS
  Names = {n1, n2}
  Configs = {a, b}
  Guarded = {a}
  SyncFuncs = {f1, f2}
  AsyncFuncs = {g1}
  Nameless = Nameless
  None = None
SYMMETRY Symmetry
INVARIANT PeersShare
INVARIANT OnlyNamesakesShare
INVARIANT StaleWithinItsEra
PROPERTY OutageIsReported
