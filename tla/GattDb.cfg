SPECIFICATION Spec
CONSTANTS
  Files <- MCFiles
  Firmware <- MCFirmware
  Uuids = {1, 2, 3, 4, 5, 6, 7, 8, 9, 10}
  HandleSlots = 2
  MaxCalls = 3
INVARIANTS
  FailureIsUndone
  BuffersReturned
  SuccessMeansServed
  FailureHasCause
CHECK_DEADLOCK FALSE
