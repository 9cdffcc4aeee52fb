SPECIFICATION Spec
CONSTANTS
  a1 = a1
  a2 = a2
  h1 = h1
  h2 = h2
  Addrs = {a1, a2}
  Handles = {h1, h2}
  MsgqCap = 6
  MaxEvents = 6
  MaxCalls = 0
  MaxResets = 1
INVARIANT WatcherAlive
CHECK_DEADLOCK FALSE
