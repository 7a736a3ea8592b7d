CONSTANTS
  Cap = 4
  MaxElements = 10
  MaxRead = 3
  PriorTransfers = 0
  RaceFree = TRUE
  ReadAfterStop = FALSE
SPECIFICATION FairSpec
INVARIANTS TypeOK IntactRead NoLostWakeup
PROPERTIES StreamSpec StopCompletes
CHECK_DEADLOCK FALSE
