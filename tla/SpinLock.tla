------------------------------ MODULE SpinLock ------------------------------
(***************************************************************************)
(* SpinLock (components/system/spinlock.h, spinlock.cc): one volatile word *)
(* "locking", taken and released with lock cmpxchgl.                       *)
(*                                                                         *)
(* Each thread calls Lock (spin on is_lock, then TryLock, and start over   *)
(* when TryLock fails) or TryLock alone, works in its critical section and *)
(* calls Unlock.  A step is one access to the shared word; the fences of   *)
(* the assembly make the accesses sequentially consistent.                 *)
(***************************************************************************)
EXTENDS AtomicOps

CONSTANT Threads

VARIABLES locking,   \* SpinLock::locking
          pc         \* where each thread is

vars == <<locking, pc>>

Init == /\ locking = 0
        /\ pc = [t \in Threads |-> "idle"]

Goto(t, from, to) == /\ pc[t] = from
                     /\ pc' = [pc EXCEPT ![t] = to]

\* SpinLock::is_lock
IsLock == locking # 0

\* Mutants: swap operand 0 instead of 1; the jnz after cmpxchgl dropped; the
\* operands of Unlock's cmpxchgl exchanged.
TryLockWord_SwapsZero == CmpXchg(locking, 0, 0)
TryLockWins_NoJnz == TRUE
UnlockWord_Exchanged == CmpXchg(locking, 0, 1)

\* lock cmpxchgl(0 -> 1) of TryLock: the word after it, and its result.
TryLockWord == CmpXchg(locking, 0, 1)
TryLockWins == locking = 0

\* lock cmpxchgl(1 -> 0) of Unlock.
UnlockWord == CmpXchg(locking, 1, 0)

CallLock(t) == Goto(t, "idle", "spin") /\ UNCHANGED locking

\* while (is_lock()) cpu_relax();
Spin(t) == /\ Goto(t, "spin", IF IsLock THEN "spin" ELSE "try")
           /\ UNCHANGED locking

\* while (!TryLock()): back to the spin loop when another thread was faster.
LockTry(t) == /\ Goto(t, "try", IF TryLockWins THEN "critical" ELSE "spin")
              /\ locking' = TryLockWord

CallTryLock(t) == Goto(t, "idle", "trylock") /\ UNCHANGED locking

TryLock(t) == /\ Goto(t, "trylock", IF TryLockWins THEN "critical" ELSE "idle")
              /\ locking' = TryLockWord

Unlock(t) == /\ Goto(t, "critical", "idle")
             /\ locking' = UnlockWord

Next == \E t \in Threads :
          \/ CallLock(t)    \/ Spin(t)    \/ LockTry(t)
          \/ CallTryLock(t) \/ TryLock(t) \/ Unlock(t)

\* A thread inside a call or a critical section is eventually scheduled;
\* nothing obliges an idle thread to call.
Fairness == \A t \in Threads : WF_vars(Spin(t) \/ LockTry(t) \/ TryLock(t) \/ Unlock(t))

Spec == Init /\ [][Next]_vars
FairSpec == Spec /\ Fairness
-----------------------------------------------------------------------------
TypeOK == /\ locking \in {0, 1}
          /\ pc \in [Threads -> {"idle", "spin", "try", "trylock", "critical"}]

Critical == {t \in Threads : pc[t] = "critical"}

\* Mutual exclusion: two threads that took the lock through any mix of Lock
\* and TryLock are never in their critical sections together.
MutualExclusion == \A s, t \in Critical : s = t

\* The word tells the truth about the critical sections: it is 1 exactly
\* while some thread is inside, so a failed TryLock always means a holder
\* and a lock is never left taken by nobody.
WordMatchesHolder == (locking = 1) <=> (Critical # {})

\* The strengthening that makes mutual exclusion inductive.
IInv == TypeOK /\ MutualExclusion /\ WordMatchesHolder

\* The spin lock implements the abstract mutex, the threads in their
\* critical sections being its holders.
AbstractMutex == INSTANCE Mutex WITH holder <- Critical
ImplementsMutex == AbstractMutex!Spec

\* Lock freedom: while a thread waits in Lock, some thread gets through.  A
\* given thread may starve, the lock keeps no queue.
SomeoneEnters == (\E t \in Threads : pc[t] \in {"spin", "try"})
                    ~> (Critical # {})
=============================================================================
