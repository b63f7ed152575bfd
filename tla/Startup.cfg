\* Both copies: three nodes, raw memory that may hold anything, threads
\* that may not be created, memory that may run out.
SPECIFICATION FairSpec
CONSTANTS NumNodes = 3
          MaxWorkers = 2
          RawIds = {0, 7}
          CreateMayFail = TRUE
          AllocMayFail = TRUE
INVARIANT WorkersWhenOpen
PROPERTY StartDecides
CHECK_DEADLOCK FALSE
