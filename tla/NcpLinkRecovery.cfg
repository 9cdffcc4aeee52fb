SPECIFICATION FairSpec
CONSTANTS
  QueueLen = 2
  MsgqCap = 1
  c1 = c1
  c2 = c2
  Commands = {c1}
  MaxWire = 1
  MaxEvents = 2
  MaxCalls = 1
  MaxReopens = 1
  ReadErrors = TRUE
PROPERTIES FlagServed DisableReturns
CHECK_DEADLOCK FALSE
