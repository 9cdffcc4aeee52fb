SPECIFICATION FairSpec
CONSTANTS
  a1 = a1
  a2 = a2
  h1 = h1
  h2 = h2
  Addrs = {a1, a2}
  Handles = {h1, h2}
  MsgqCap = 3
  MaxEvents = 4
  MaxCalls = 2
  MaxResets = 1
INVARIANTS NoDuplicateAddress TableFollowsModule CallbackNamesDevice CalmWatcherAlive
PROPERTIES UpIsReported DownIsReported
CHECK_DEADLOCK FALSE
