CONSTANTS
  RxLen = 1
  TxLen = 2
  Quiet = TRUE
  BlockingWrite = TRUE
  MaxArrived = 2
  MaxWritten = 5
SPECIFICATION FairSpec
INVARIANTS TypeOK Accounted
PROPERTIES SentInOrder ReaderWoken WriterWoken FlushWoken EverythingSent
CHECK_DEADLOCK FALSE
