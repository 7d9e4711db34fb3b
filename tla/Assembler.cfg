SPECIFICATION Spec
CONSTANTS
  NumPieces = 3
  NumConns = 3
  RequestCap = 3
  ConnCap = 3
  ResendCap = 3
  ShortLast = TRUE
  Resume = {{}, {1}}
  OldFile = TRUE
  Faults = {"register", "connect", "close", "drop", "missing", "corrupt"}
  MaxFaults = 2
  Turns = 6
INVARIANTS
  TypeOK
  CountMatchesSenders
  OneRequestPerPiece
  NoRequestLost
  PanicOnlyWithoutSenders
  ErrorOnlyAfterFailure
PROPERTIES
  RemovedGetsNoRequest
  ImplementsDownload
CHECK_DEADLOCK FALSE
