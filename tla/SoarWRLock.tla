----------------------------- MODULE SoarWRLock -----------------------------
(***************************************************************************)
(* SoarWRLock (components/system/lock.h:98-112, lock.cc:52-77), a          *)
(* reader/writer spin lock over three words, under the load of             *)
(* TestCases/test_wrlock.cc: readers read the shared counter cnt for ever, *)
(* each writer increments it Loops times, as a load and a store.           *)
(*                                                                         *)
(* A step is one access to shared memory.  atomic_add_then_fetch is two of *)
(* them, the locked xaddl and a plain re-read of the word                  *)
(* (communal.h:43-53); so is nothing else: the result of                   *)
(* atomic_compare_and_swap_value in UnlockW is not used, which leaves its  *)
(* cmpxchgl.  A spin that finds its condition false changes nothing.       *)
(***************************************************************************)
EXTENDS AtomicOps, FiniteSets

CONSTANTS Readers, Writers,
          Loops          \* NLOOP of the test

ASSUME LockAssumption == /\ IsFiniteSet(Readers) /\ IsFiniteSet(Writers)
                         /\ Readers \cap Writers = {}
                         /\ Loops \in Nat

VARIABLES is_writing_, writer_cnt_, reader_cnt_,
          cnt,        \* the counter the test protects
          val,        \* each thread's local copy of it
          rounds,     \* how many increments each writer has completed
          pc

lockVars == <<is_writing_, writer_cnt_, reader_cnt_>>
testVars == <<cnt, val, rounds>>
vars == <<is_writing_, writer_cnt_, reader_cnt_, cnt, val, rounds, pc>>

Threads == Readers \cup Writers

Init == /\ is_writing_ = 0 /\ writer_cnt_ = 0 /\ reader_cnt_ = 0
        /\ cnt = 0
        /\ val = [t \in Threads |-> 0]
        /\ rounds = [w \in Writers |-> 0]
        /\ pc = [t \in Threads |-> "idle"]

Goto(t, from, to) == /\ pc[t] = from
                     /\ pc' = [pc EXCEPT ![t] = to]
-----------------------------------------------------------------------------
(* The tests the lock makes on its words, and mutants of them.             *)

GateOpen_NoCheck == TRUE
WriterFlagFree_NoCheck == TRUE
AfterUnlockR_Twice == Xadd(reader_cnt_, -2)
AfterUnlockW_NoDecrement == writer_cnt_

\* atomic_compare_and_swap_bool(&writer_cnt_, 0, 0), the gate of LockR
GateOpen == writer_cnt_ = 0

\* atomic_compare_and_swap_bool(&reader_cnt_, 0, 0), in LockW
ReadersGone == reader_cnt_ = 0

\* atomic_compare_and_swap_bool(&is_writing_, 0, 1), in LockW
WriterFlagFree == is_writing_ = 0
FlagAfterGrab == CmpXchg(is_writing_, 0, 1)

\* atomic_fetch_then_sub of UnlockR and UnlockW, and the clearing of the flag
AfterUnlockR == Xadd(reader_cnt_, -1)
AfterUnlockW == Xadd(writer_cnt_, -1)
FlagAfterUnlockW == CmpXchg(is_writing_, 1, 0)
-----------------------------------------------------------------------------
(* LockR, the read of cnt, UnlockR.                                        *)

CallLockR(r) == /\ Goto(r, "idle", "r_gate")
                /\ UNCHANGED <<lockVars, testVars>>

PassGate(r) == /\ Goto(r, "r_gate", IF GateOpen THEN "r_add" ELSE "r_gate")
               /\ UNCHANGED <<lockVars, testVars>>

AddReader(r) == /\ Goto(r, "r_add", "r_reread")
                /\ reader_cnt_' = Xadd(reader_cnt_, 1)
                /\ UNCHANGED <<is_writing_, writer_cnt_, testVars>>

\* while (atomic_add_then_fetch(&reader_cnt_, 1) <= 0): adds again if the
\* re-read word is not positive.
RereadReaders(r) == /\ Goto(r, "r_reread", IF reader_cnt_ <= 0 THEN "r_add" ELSE "reading")
                    /\ UNCHANGED <<lockVars, testVars>>

ReadCnt(r) == /\ Goto(r, "reading", "r_leave")
              /\ val' = [val EXCEPT ![r] = cnt]
              /\ UNCHANGED <<lockVars, cnt, rounds>>

UnlockR(r) == /\ Goto(r, "r_leave", "idle")
              /\ reader_cnt_' = AfterUnlockR
              /\ UNCHANGED <<is_writing_, writer_cnt_, testVars>>
-----------------------------------------------------------------------------
(* LockW, the increment, UnlockW.                                          *)

CallLockW(w) == /\ rounds[w] < Loops
                /\ Goto(w, "idle", "w_add")
                /\ UNCHANGED <<lockVars, testVars>>

AddWriter(w) == /\ Goto(w, "w_add", "w_reread")
                /\ writer_cnt_' = Xadd(writer_cnt_, 1)
                /\ UNCHANGED <<is_writing_, reader_cnt_, testVars>>

RereadWriters(w) == /\ Goto(w, "w_reread", IF writer_cnt_ <= 0 THEN "w_add" ELSE "w_wait")
                    /\ UNCHANGED <<lockVars, testVars>>

\* The left operand of ||: no reader is counted.
SeeNoReaders(w) == /\ Goto(w, "w_wait", IF ReadersGone THEN "w_grab" ELSE "w_wait")
                   /\ UNCHANGED <<lockVars, testVars>>

\* The right operand of ||; when it fails both are evaluated again.
GrabFlag(w) == /\ Goto(w, "w_grab", IF WriterFlagFree THEN "w_load" ELSE "w_wait")
               /\ is_writing_' = FlagAfterGrab
               /\ UNCHANGED <<writer_cnt_, reader_cnt_, testVars>>

LoadCnt(w) == /\ Goto(w, "w_load", "w_store")
              /\ val' = [val EXCEPT ![w] = cnt]
              /\ UNCHANGED <<lockVars, cnt, rounds>>

StoreCnt(w) == /\ Goto(w, "w_store", "w_retire")
               /\ cnt' = val[w] + 1
               /\ rounds' = [rounds EXCEPT ![w] = @ + 1]
               /\ UNCHANGED <<lockVars, val>>

\* UnlockW withdraws the writer before it clears the flag.
RetireWriter(w) == /\ Goto(w, "w_retire", "w_clear")
                   /\ writer_cnt_' = AfterUnlockW
                   /\ UNCHANGED <<is_writing_, reader_cnt_, testVars>>

ClearFlag(w) == /\ Goto(w, "w_clear", "idle")
                /\ is_writing_' = FlagAfterUnlockW
                /\ UNCHANGED <<writer_cnt_, reader_cnt_, testVars>>
-----------------------------------------------------------------------------
ReaderStep(r) == \/ CallLockR(r) \/ PassGate(r) \/ AddReader(r)
                 \/ RereadReaders(r) \/ ReadCnt(r) \/ UnlockR(r)

WriterStep(w) == \/ CallLockW(w) \/ AddWriter(w) \/ RereadWriters(w)
                 \/ SeeNoReaders(w) \/ GrabFlag(w) \/ LoadCnt(w)
                 \/ StoreCnt(w) \/ RetireWriter(w) \/ ClearFlag(w)

Next == \/ \E r \in Readers : ReaderStep(r)
        \/ \E w \in Writers : WriterStep(w)

\* The operating system runs every thread again and again; the threads of
\* the test never stop between two iterations.
Fairness == /\ \A r \in Readers : WF_vars(ReaderStep(r))
            /\ \A w \in Writers : WF_vars(WriterStep(w))

Spec == Init /\ [][Next]_vars
FairSpec == Spec /\ Fairness
-----------------------------------------------------------------------------
ReaderPC == {"idle", "r_gate", "r_add", "r_reread", "reading", "r_leave"}
WriterPC == {"idle", "w_add", "w_reread", "w_wait", "w_grab",
             "w_load", "w_store", "w_retire", "w_clear"}

TypeOK == /\ is_writing_ \in {0, 1} /\ writer_cnt_ \in Int /\ reader_cnt_ \in Int
          /\ cnt \in Nat
          /\ val \in [Threads -> Nat]
          /\ rounds \in [Writers -> 0..Loops]
          /\ pc \in [Threads -> ReaderPC \cup WriterPC]
          /\ \A r \in Readers : pc[r] \in ReaderPC
          /\ \A w \in Writers : pc[w] \in WriterPC

\* Threads between two points of the code.
CountedReaders   == {r \in Readers : pc[r] \in {"r_reread", "reading", "r_leave"}}
AnnouncedWriters == {w \in Writers : pc[w] \in {"w_reread", "w_wait", "w_grab",
                                               "w_load", "w_store", "w_retire"}}
FlagHolders      == {w \in Writers : pc[w] \in {"w_load", "w_store", "w_retire", "w_clear"}}
ReadingNow       == {r \in Readers : pc[r] = "reading"}
WritingNow       == {w \in Writers : pc[w] \in {"w_load", "w_store"}}

\* Two writers are never between LockW and UnlockW together (test_wrlock.cc:27-30).
WriterExclusion == \A v, w \in FlagHolders : v = w

\* is_writing_ is 1 exactly while a writer owns the lock, through the window
\* of UnlockW where the writer has withdrawn and the flag is still set.
FlagMatchesHolder == (is_writing_ = 1) <=> (FlagHolders # {})

\* The counters count: no decrement is lost or doubled under any
\* interleaving, although LockR and LockW may add in a loop.
CountersExact == /\ reader_cnt_ = Cardinality(CountedReaders)
                 /\ writer_cnt_ = Cardinality(AnnouncedWriters)

\* The re-read in atomic_add_then_fetch sees other threads' updates too,
\* yet never a value that would make LockR or LockW count its caller twice.
RereadPositive == /\ \A r \in Readers : pc[r] = "r_reread" => reader_cnt_ > 0
                  /\ \A w \in Writers : pc[w] = "w_reread" => writer_cnt_ > 0

\* What a writer stores is one more than what is there: no increment of the
\* test's counter is lost.
NoStaleStore == \A w \in Writers : pc[w] = "w_store" => val[w] = cnt

\* The lock as the writers see it is a mutex.
WriterMutex == INSTANCE Mutex WITH Threads <- Writers, holder <- FlagHolders
WritersImplementMutex == WriterMutex!Spec

\* What a reader/writer lock promises, and pthread_rwlock_t, which the test
\* keeps as a drop-in alternative (test_wrlock.cc:20-21), delivers: nobody
\* reads while somebody writes.
ReaderWriterExclusion == ReadingNow = {} \/ WritingNow = {}

AllWritten == \A w \in Writers : rounds[w] = Loops /\ pc[w] = "idle"

\* What the test prints when its writers have been joined (test_wrlock.cc:62):
\* every increment of every writer has been counted.
CountComplete == AllWritten => cnt = Loops * Cardinality(Writers)

\* The test's join: every writer gets through its loop although readers keep
\* coming (test_wrlock.cc:58-60).
WritersFinish == <>AllWritten

\* Once no writer is left, no reader is shut out.
ReadersResume == \A r \in Readers : AllWritten ~> (pc[r] = "reading")

\* A writer between its call of LockW and the store has a round to go.
RoundsLeft == \A w \in Writers :
                 pc[w] \notin {"idle", "w_retire", "w_clear"} => rounds[w] < Loops

\* The inductive invariant behind the safety properties above; CountersExact
\* is inductive beside it.
IInv == TypeOK /\ WriterExclusion /\ FlagMatchesHolder /\ NoStaleStore /\ RoundsLeft
=============================================================================
