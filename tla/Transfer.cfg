SPECIFICATION FairSpec
CONSTANTS
  Base = 3
  Lengths = {0, 1, 12, 13, 24, 25, 36, 37, 54, 81, 82}
  Limits <- MCLimits
  Sizes <- MCSizes
  Seeders = {0, 1}
  MaxChanges = 1
INVARIANTS
  TypeOK
  DescriptionIsExact
  FramesFit
  MarkedIsSource
  CopyIsSource
PROPERTIES
  CopyEnds
CHECK_DEADLOCK FALSE
