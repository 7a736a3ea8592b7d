CONSTANTS
  Cap = 4
  MaxElements = 10
  MaxRead = 3
  PriorTransfers = 0
  RaceFree = TRUE
  ReadAfterStop = TRUE
SPECIFICATION Spec
PROPERTY OverrunIsReal
CHECK_DEADLOCK FALSE
