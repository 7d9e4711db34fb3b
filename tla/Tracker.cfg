SPECIFICATION Spec
CONSTANTS
  c1 = c1
  c2 = c2
  f1 = f1
  Clients = {c1, c2}
  Files = {f1}
  HashesOf <- MCHashesOf
  NumPieces <- MCNumPieces
  MaxAddrs = 3
  MaxTries = 2
  CanCrash = {c2}
  CanFail = {c1}
INVARIANTS
  TypeOK
  NoGhostFile
  OneRequesterPerSeed
  SeedCallReachable
  StaleSenderOnlyAfterEnd
  RegisteredWhereItSeeds
PROPERTIES
  SeederStaysListed
CHECK_DEADLOCK FALSE
