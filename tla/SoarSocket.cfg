\* Two descriptors, one of which the rest of the process may have; pieces of
\* one to three bytes, the last of them a NUL.
SPECIFICATION FairSpec
CONSTANTS
  MaxFd = 1
  MaxSent = 3
  Nuls = {3}
  MaxWant = 2
  BufLen = 2
  OutCap = 3
INVARIANTS AimsAtOwn TransfersOnOwn ReceivesInOrder
PROPERTY RecvNReturns
