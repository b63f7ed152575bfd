\* RecvMessage on a connection that fails or has nothing to read.
SPECIFICATION Spec
CONSTANTS
  MaxFd = 1
  MaxSent = 3
  Nuls = {}
  MaxWant = 2
  BufLen = 2
  OutCap = 3
INVARIANT NothingLost
