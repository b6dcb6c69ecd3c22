SPECIFICATION PartSpec
CONSTANTS
  Sizes <- MCSizes
  FixedSize <- MCFixedSize
  FixedFps = 20
  MotionParams <- MCMotionParams
  Rates = {200, 470, 520}
  FrameRates = {60}
  Factors = {18}
  Rois <- MCRois
  Looks = {1, 2}
  Centres <- MCCentres
  Drags <- MCDrags
  MaxZooms = 2
  Points = {1, 2}
  HistoryBits = 6
  MantissaBits = 4
  CutBits = 2
  CoolingDown = 5
  Width = 3
  Height = 2
  MaxId = 5
  CancelSize = 2
  TrackingThreshold = 1
  MaxUpdates = 3
CHECK_DEADLOCK FALSE
INVARIANTS
  RecordHolds
  ZoomAgrees
  MotionIsReal
  IdsAgree
PROPERTY ImplementsAges
