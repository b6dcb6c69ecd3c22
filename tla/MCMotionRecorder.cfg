SPECIFICATION FairSpec
CONSTANTS
  MaxFrames = 4
  KeyFrames = {1, 4}
  FileSizeLimit = 1
  SaveImv = FALSE
  MayFail = TRUE
  DefaultWaitPeriod = 1
CHECK_DEADLOCK FALSE
INVARIANTS
  Contiguous
  BeginsWithKey
PROPERTIES
  CloseReturns
  BufferIsWritten
