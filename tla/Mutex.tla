------------------------------- MODULE Mutex -------------------------------
(***************************************************************************)
(* StdMutexLock (components/system/lock.h, lock.cc): a pthread mutex.      *)
(* Lock and Unlock forward to pthread_mutex_lock and pthread_mutex_unlock, *)
(* so the state is the set of threads inside, empty or a singleton.        *)
(*                                                                         *)
(* The module is used twice: instantiated as the lock of the components    *)
(* that own a StdMutexLock, and as the abstract specification that the     *)
(* hand-written locks of the library must implement.                       *)
(***************************************************************************)
CONSTANT Threads

VARIABLE holder    \* the threads that own the mutex

Init == holder = {}

\* pthread_mutex_lock: blocks until the mutex is free.  The mutex is of the
\* default kind: an owner that locks it again blocks for ever.
Lock(t) == /\ holder = {}
           /\ holder' = {t}

Unlock(t) == /\ holder = {t}
             /\ holder' = {}

Next == \E t \in Threads : Lock(t) \/ Unlock(t)

Spec == Init /\ [][Next]_holder

=============================================================================
