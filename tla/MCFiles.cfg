SPECIFICATION PartSpec
CONSTANTS
  Names = {n1, n2, n3}
  NoName = none
  MaxAge = 2
  NumFiles = 3
  MaxFileSize = 2
  MaxBytes = 7
  MaxCrashes = 2
  NoFile = NoFile
  FirstSize = 8
  FrameSizes = {1, 2, 3}
  Chunk = 3
  MaxSize = 18
  SizeLimit = 2
  MaxVideo = 2
  MaxVectors = 1
  MaxRecordings = 3
  MaxTasks = 2
  MaxRead = 6
  MaxNative = 3
CHECK_DEADLOCK FALSE
INVARIANTS
  NamesEndedImage
  RequestCleansUp
  BufferHoldsRest
  DirectoryLimited
  OnlyFirstIsMixed
PROPERTY LogKeepsLatest
