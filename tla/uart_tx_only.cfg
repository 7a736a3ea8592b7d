CONSTANTS
  Split = FALSE
  Buffers = {2}
  RingSize = 2
  MaxBytes = 1
SPECIFICATION UartSpec
PROPERTY TxFlushEnds
CHECK_DEADLOCK FALSE
