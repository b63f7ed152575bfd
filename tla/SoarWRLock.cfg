\* Two readers and two writers of two rounds.
SPECIFICATION MCSpec
CONSTANTS Readers = {r1, r2}
          Writers = {w1, w2}
          Loops = 2
INVARIANTS CountersExact CountComplete
PROPERTIES WritersImplementMutex OvertakenAtMostOnce WritersFinish ReadersResume
