CONSTANTS
  Split = FALSE
  Buffers = {2}
  RingSize = 2
  MaxBytes = 1
SPECIFICATION UartSpec
PROPERTY LatentErrorEnds
CHECK_DEADLOCK FALSE
