CONSTANTS
  Cap = 4
  MaxElements = 14
  MaxRead = 3
  PriorTransfers = 0
  RaceFree = FALSE
  ReadAfterStop = FALSE
SPECIFICATION Spec
INVARIANT NotOverwritten
CHECK_DEADLOCK FALSE
