\* A single client catches bad_alloc and goes on allocating.
SPECIFICATION Spec
CONSTANTS Threads = {t1}
          Align = 8
          MaxBytes = 24
          OnceFillNum = 2
          HeaderSize = 4
          PtrSize = 8
          Requests = {4, 12, 20}
          MaxCalls = 5
          Locked = FALSE
          MallocMayFail = TRUE
PROPERTY ImplementsHeap
CHECK_DEADLOCK FALSE
