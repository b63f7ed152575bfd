\* Close, another file with the same number, and the destructor.
SPECIFICATION Spec
CONSTANTS
  MaxFd = 1
  MaxSent = 3
  Nuls = {}
  MaxWant = 2
  BufLen = 2
  OutCap = 3
INVARIANT ClosedOwnsNothing
