SPECIFICATION FairSpec
CONSTANTS
  p1 = p1
  p2 = p2
  Pairs = {p1, p2}
  Requests <- MCRequests
  OutCap = 1
  ChanCap = 1
  ConnCap = 1
  Coming <- MCComing
  CanLack = {p1}
  CanBreak = {p1}
  MaxBroken = 1
  CanStall = {p1}
INVARIANTS
  TypeOK
  NothingLost
  StreamsArePaired
PROPERTIES
  RegistrationsProceed
  PairsAreServed
CHECK_DEADLOCK FALSE
