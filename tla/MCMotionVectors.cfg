SPECIFICATION Spec
CONSTANTS
  MaxFrames = 3
  KeyFrames = {1, 4}
  FileSizeLimit = 1
  SaveImv = TRUE
  MayFail = TRUE
  DefaultWaitPeriod = 1
CHECK_DEADLOCK FALSE
INVARIANTS
  RecordsMotion
