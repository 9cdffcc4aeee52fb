SPECIFICATION FairSpec
CONSTANTS
  MaxCalls = 6
  MaxQueues = 6
  MaxBoots = 3
INVARIANTS NoQueueLeak SharedQueue DestroyIsSafe RefusalHasTwoCauses
PROPERTIES BootIsHandled
CHECK_DEADLOCK FALSE
