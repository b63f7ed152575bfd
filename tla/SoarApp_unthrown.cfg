SPECIFICATION FairSpec
CONSTANTS
  MAX_EVENTS = 4
  Clients = {c1}
  StdinOpen = {FALSE}
  FdLimit = 1
  MaxFails = 1
PROPERTY AddFailureThrown
CHECK_DEADLOCK FALSE
