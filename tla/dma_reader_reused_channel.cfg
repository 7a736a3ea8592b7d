CONSTANTS
  Cap = 4
  MaxElements = 10
  MaxRead = 3
  PriorTransfers = 1
  RaceFree = TRUE
  ReadAfterStop = FALSE
SPECIFICATION Spec
INVARIANT NothingInvented
CHECK_DEADLOCK FALSE
