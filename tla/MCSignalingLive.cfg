SPECIFICATION FairHistorySpec
CONSTANTS
  Sockets = {s1}
  Clients = {c1, c2}
  DirectPeer = direct
  None = none
  Threshold = 3
  MaxIceFailures = 1
  CaptureMayFail = TRUE
PROPERTIES
  HandlersFinish
  FailureReleases
