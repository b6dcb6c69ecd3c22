SPECIFICATION HistorySpec
CONSTANTS
  Sockets = {s1, s2}
  Clients = {c1, c2}
  DirectPeer = direct
  None = none
  Threshold = 3
  MaxIceFailures = 2
  CaptureMayFail = TRUE
SYMMETRY Symmetry
INVARIANTS
  StaleDropHarmless
  SessionConsistent
  MotionExcluded
  MotionResumes
  ClientOwnsSession
  PeerChecksHold
