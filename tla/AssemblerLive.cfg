SPECIFICATION FairSpec
CONSTANTS
  NumPieces = 4
  NumConns = 2
  RequestCap = 1
  ConnCap = 1
  ResendCap = 1
  ShortLast = TRUE
  Resume = {{}, {1, 2, 3}}
  OldFile = TRUE
  Faults = {"connect", "close", "corrupt"}
  MaxFaults = 2
  Turns = 2
PROPERTIES
  StartedIsBuilt
  EverythingEnds
CHECK_DEADLOCK FALSE
