SPECIFICATION Spec
CONSTANTS
  s1 = s1
  s2 = s2
  Sources = {s1, s2}
  FragLens = {0, 1}
  MaxLen = 2
  LenMod = 4
  MaxFrags = 3
  MaxAdvs = 2
SYMMETRY SourceSymmetry
INVARIANTS CopiedInPlace PublishedIsWhole EveryCompleteIsPublished
CHECK_DEADLOCK FALSE
