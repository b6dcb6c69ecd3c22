SPECIFICATION Spec
CONSTANTS
  Sockets = {s1, s2}
  Clients = {c1, c2}
  None = none
  MaxChunkedFrames = 0
  MaxConnections = 3
  MaxQueue = 2
  MaxPieces = 1
INVARIANTS
  RuntimeInUse
  AnsweredUnlessBurst
  ConfigOfConnection
  PiecesSinceConnect
SYMMETRY Symmetry
