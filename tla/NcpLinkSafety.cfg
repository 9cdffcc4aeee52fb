SPECIFICATION Spec
CONSTANTS
  QueueLen = 2
  MsgqCap = 1
  c1 = c1
  c2 = c2
  Commands = {c1, c2}
  MaxWire = 2
  MaxEvents = 2
  MaxCalls = 2
  MaxReopens = 1
  ReadErrors = TRUE
SYMMETRY CommandSymmetry
INVARIANTS TypeOK RingNeverFull ResetQuiesces BootIsFresh FlagOnlyAfterFailure AnswerIsOwn
PROPERTIES ImplementsEventStream
CHECK_DEADLOCK FALSE
