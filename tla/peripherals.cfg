CONSTANTS
  Lines = {1, 2}
  Waits = {"high", "any_edge"}
  Channels = {1, 2}
  Inputs = {0, 17}
  Split = FALSE
  Buffers = {1, 2}
  RingSize = 2
  MaxBytes = 2
SPECIFICATION Spec
INVARIANTS WaitsAreTruthful ReadIsTrue QuietOutsideRead
PROPERTIES WaitsEnd ReadEnds FlushEnds
CHECK_DEADLOCK FALSE
