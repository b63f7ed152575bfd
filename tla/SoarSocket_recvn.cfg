\* Recv_n at the end of the stream.
SPECIFICATION FairSpec
CONSTANTS
  MaxFd = 1
  MaxSent = 3
  Nuls = {}
  MaxWant = 2
  BufLen = 2
  OutCap = 3
PROPERTY RecvNGivesUp
