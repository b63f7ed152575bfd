\* A Send of one or two bytes to a peer that takes in three.
SPECIFICATION Spec
CONSTANTS
  MaxFd = 1
  MaxSent = 3
  Nuls = {}
  MaxWant = 2
  BufLen = 2
  OutCap = 3
INVARIANT SendsOnce
