SPECIFICATION Spec
CONSTANTS
  Chunk = 2
  MaxLen = 5
  LegacyLen = 1
  Lengths = {1, 2, 3, 4, 6}
  MAX_ADV_HANDLE = 2
  SetLimit = 2
  MaxCalls = 4
INVARIANTS
  DataAreWhole
  StopSilences
  ListNamesSets
CHECK_DEADLOCK FALSE
