SPECIFICATION FairSpec
CONSTANTS
  Lans = {"up", "blocked", "flaky"}
  Nats = {"open", "closed", "flaky"}
  Faults = {"late", "crash"}
  MaxFaults = 2
INVARIANTS
  TypeOK
  CertMatchesStage
  EndsAgree
PROPERTIES
  BothConnect
CHECK_DEADLOCK FALSE
