----------------------------- MODULE AtomicOps -----------------------------
(***************************************************************************)
(* What one locked x86 instruction of communal.h and spinlock.cc does to   *)
(* the word it addresses.  The counters of the library never exceed the    *)
(* number of threads, far below 2^31, so no width is kept here.            *)
(***************************************************************************)
EXTENDS Integers

\* lock cmpxchgl: the word after it; it succeeds when the word equals cmp.
CmpXchg(word, cmp, swap) == IF word = cmp THEN swap ELSE word

\* lock xaddl: the word after it.
Xadd(word, value) == word + value

=============================================================================
