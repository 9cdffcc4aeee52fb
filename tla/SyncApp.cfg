SPECIFICATION FairSpec
CONSTANTS
  a1 = a1
  a2 = a2
  None = None
  Advertisers = {a1, a2}
  MsgqCap = 2
  MaxReports = 3
INVARIANTS OnlyTheSpecified EndsUnsynchronized
PROPERTIES SignalEndsProgram
CHECK_DEADLOCK FALSE
