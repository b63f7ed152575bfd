\* The pool: two threads share a locked pool of three size classes, memory may
\* run out; 24 is above __MAX_BYTES once its header is added.  The system
\* allocator: two threads allocate, reallocate, free and install the handler on
\* their own; a call through NULL stops them.
SPECIFICATION AllocatorsSpec
CONSTANTS Threads = {t1, t2}
          Align = 8
          MaxBytes = 24
          OnceFillNum = 2
          HeaderSize = 4
          PtrSize = 8
          Requests = {4, 5, 20, 24}
          MaxCalls = 2
          Locked = TRUE
          MallocMayFail = TRUE
          Callers = {b1, b2}
          Memory = 4
          Sizes = {1, 2, 3}
INVARIANTS TypeOK NoOverlap NoByteLost SystemAccounted LeftLocked Conserved
PROPERTIES ImplementsHeap ReturnsUnlessThrown HandlerNotInVain CallsEnd
CHECK_DEADLOCK FALSE
