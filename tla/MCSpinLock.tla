----------------------------- MODULE MCSpinLock -----------------------------
(***************************************************************************)
(* SpinLock under names of its own, so that what is checked here and what  *)
(* is proved beside the reader/writer lock are the same formulas.          *)
(***************************************************************************)
CONSTANT Spinners
VARIABLES locking, at

Spin == INSTANCE SpinLock WITH Threads <- Spinners, pc <- at

SpinSpec == Spin!FairSpec

\* The word of the spin lock (SpinLock::locking) is 1 exactly while some
\* thread is between a successful Lock or TryLock and its Unlock.
WordMatchesHolder == Spin!WordMatchesHolder

\* SpinLock implements the abstract mutex: Lock and TryLock hand it to one
\* thread at a time, and Unlock gives it back.
ImplementsMutex == Spin!ImplementsMutex

\* Lock freedom: while a thread waits in Lock, some thread gets through.
SomeoneEnters == Spin!SomeoneEnters
=============================================================================
