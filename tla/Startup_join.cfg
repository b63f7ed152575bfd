\* Nothing fails, and raw memory is zero: main should get to the event loop.
SPECIFICATION FairSpec
CONSTANTS NumNodes = 1
          MaxWorkers = 1
          RawIds = {0}
          CreateMayFail = FALSE
          AllocMayFail = FALSE
PROPERTY StartEnds
CHECK_DEADLOCK FALSE
