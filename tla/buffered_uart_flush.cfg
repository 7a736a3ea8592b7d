CONSTANTS
  RxLen = 1
  TxLen = 2
  Quiet = TRUE
  BlockingWrite = FALSE
  MaxArrived = 1
  MaxWritten = 2
SPECIFICATION FairSpec
INVARIANT FlushMeansSent
CHECK_DEADLOCK FALSE
