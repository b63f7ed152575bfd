SPECIFICATION FairSpec
CONSTANTS
  MAX_EVENTS = 2
  Clients = {c1, c2, c3}
  StdinOpen = {TRUE, FALSE}
  FdLimit = 2
  MaxFails = 2
INVARIANTS TypeOK FailuresAreReported
PROPERTY NoneStranded
CHECK_DEADLOCK FALSE
