SPECIFICATION FairSpec
CONSTANTS
  Versions = {"v1", "v2"}
  Sizes <- MCSizes
  NumPieces = 2
  MaxHarms = 1
  MaxCrashes = 2
  Absent = Absent
INVARIANTS
  TypeOK
  MarkedIsWritten
  InstalledIsWhole
  CacheMatchesFile
PROPERTIES
  NoOverwrite
  PanicsOnlyAfterHarm
  MarksKept
  LoopEnds
CHECK_DEADLOCK FALSE
