SPECIFICATION Spec
CONSTANTS
  NumPieces = 4
  NumConns = 2
  RequestCap = 4
  ConnCap = 4
  ResendCap = 4
  ShortLast = FALSE
  Resume = {{}}
  OldFile = FALSE
  Faults = {"close"}
  MaxFaults = 1
  Turns = 2
INVARIANTS
  RemovesTheFailedSeeder
CHECK_DEADLOCK FALSE
