SPECIFICATION MCSpec
CONSTANTS
  Requests = {1, 2, 3, 4, 5}
  Asks <- MCAsks
  MaxFaults = 1
  None = None
INVARIANTS SerialWritesAreExact ReceivedInOrder
PROPERTIES AloneIsExact  QueuedIsReceived
CHECK_DEADLOCK FALSE
