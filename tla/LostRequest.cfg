SPECIFICATION Spec
CONSTANTS
  NumPieces = 2
  NumConns = 2
  RequestCap = 2
  ConnCap = 2
  ResendCap = 2
  ShortLast = FALSE
  Resume = {{}}
  OldFile = FALSE
  Faults = {"drop"}
  MaxFaults = 1
  Turns = 2
INVARIANTS
  FailedRequestsComeBack
CHECK_DEADLOCK FALSE
