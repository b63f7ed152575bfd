\* pthread_create may fail; nothing else does.
SPECIFICATION Spec
CONSTANTS NumNodes = 2
          MaxWorkers = 2
          RawIds = {0}
          CreateMayFail = TRUE
          AllocMayFail = FALSE
INVARIANT FullyStaffed
CHECK_DEADLOCK FALSE
