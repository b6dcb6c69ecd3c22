SPECIFICATION FairSpec
CONSTANTS
  Buffers = {b1, b2, b3}
  NoBuffer = none
  Capacity = 1
  BufferSize = 2
  Sizes = {1, 3}
  MaxFragments = 4
  MaxReinits = 1
INVARIANTS
  BufferPartition
  NoLostWakeup
PROPERTIES
  ImplementsFifo
  FrameIsRead
CHECK_DEADLOCK FALSE
