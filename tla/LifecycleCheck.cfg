SPECIFICATION Spec
CONSTANTS
  MaxCalls = 4
  MaxQueues = 4
  MaxBoots = 2
INVARIANT SuccessMeansMatched
CHECK_DEADLOCK FALSE
