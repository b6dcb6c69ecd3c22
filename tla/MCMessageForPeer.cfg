SPECIFICATION Spec
CONSTANTS
  Sockets = {s1, s2}
  Clients = {c1, c2}
  DirectPeer = direct
  None = none
  Threshold = 3
  MaxIceFailures = 1
  CaptureMayFail = TRUE
INVARIANT MessageForPeer
