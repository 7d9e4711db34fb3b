SPECIFICATION FairSpec
CONSTANTS
  Lans = {"up", "blocked", "flaky"}
  Nats = {"open", "closed", "flaky"}
  Faults = {}
  MaxFaults = 0
PROPERTIES
  FallsBackOnTurn
CHECK_DEADLOCK FALSE
