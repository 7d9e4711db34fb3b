SPECIFICATION Spec
CONSTANTS
  Versions = {"v1", "v2"}
  Sizes <- MCSizes
  NumPieces = 2
  MaxHarms = 1
  MaxCrashes = 0
  Absent = Absent
INVARIANTS
  CompleteIsReceived
CHECK_DEADLOCK FALSE
