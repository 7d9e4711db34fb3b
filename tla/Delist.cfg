SPECIFICATION Spec
CONSTANTS
  c1 = c1
  c2 = c2
  f1 = f1
  Clients = {c1, c2}
  Files = {f1}
  HashesOf <- MCHashesOf
  NumPieces <- MCNumPieces
  MaxAddrs = 2
  MaxTries = 1
  CanCrash = {}
  CanFail = {}
INVARIANTS
  DelistedIsNotListed
CHECK_DEADLOCK FALSE
