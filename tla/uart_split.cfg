CONSTANTS
  Split = TRUE
  Buffers = {1}
  RingSize = 2
  MaxBytes = 1
SPECIFICATION UartSpec
PROPERTY FlushEnds
CHECK_DEADLOCK FALSE
