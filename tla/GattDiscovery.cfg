SPECIFICATION Spec
CONSTANTS
  k1 = k1
  k2 = k2
  Conns = {k1, k2}
  Founds = {0, 2}
  SpecialMax = 3
  ListMax = 2
  MaxOther = 1
  MaxCalls = 2
SYMMETRY ConnSymmetry
INVARIANTS DiscoveryIsWhole NothingLeftBehind CompletedUsedOnce
CHECK_DEADLOCK FALSE
