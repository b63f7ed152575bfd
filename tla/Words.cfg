\* The helpers: three threads, two additions each, one release or claim each,
\* after which they stop.  The lock: four threads, each free to use Lock or TryLock.
SPECIFICATION WordsSpec
CONSTANTS Threads = {t1, t2, t3}
          MaxAdds = 2
          Spinners = {s1, s2, s3, s4}
INVARIANTS NeverBelowOwnSum LastOwnerKnows OneClaimant WordMatchesHolder
PROPERTIES ImplementsMutex SomeoneEnters
CHECK_DEADLOCK FALSE
