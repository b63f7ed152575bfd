SPECIFICATION FairSpec
CONSTANTS
  MAX_EVENTS = 4
  Clients = {c1}
  StdinOpen = {TRUE}
  FdLimit = 1
  MaxFails = 0
PROPERTY AllAccepted
CHECK_DEADLOCK FALSE
