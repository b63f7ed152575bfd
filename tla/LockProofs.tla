----------------------------- MODULE LockProofs -----------------------------
(***************************************************************************)
(* The locks, for any number of threads.                                   *)
(*                                                                         *)
(* SoarWRLock, for any number of readers, writers and rounds: writers      *)
(* exclude each other and lose no increment, so that the count of the test *)
(* is complete, the counters are exact, the lock implements a mutex among  *)
(* the writers, and no reader overtakes a waiting writer twice.            *)
(*                                                                         *)
(* SpinLock, at the end: mutual exclusion, what its word says, and that it *)
(* implements the abstract mutex.                                          *)
(***************************************************************************)
EXTENDS MCSoarWRLock, MCSpinLock, TLAPS, FiniteSetTheorems

LEMMA InitEstablishesIInv == Init => IInv
  BY LockAssumption
     DEF Init, IInv, TypeOK, WriterExclusion, FlagMatchesHolder, NoStaleStore,
         RoundsLeft, FlagHolders, Threads, ReaderPC, WriterPC

\* A reader's step leaves the writers, the flag and cnt alone.
LEMMA ReaderKeepsIInv ==
  ASSUME IInv, NEW r \in Readers, ReaderStep(r)
  PROVE  IInv'
<1> USE LockAssumption DEF IInv, TypeOK, Goto, Threads, lockVars, testVars
<1>1. /\ r \in Threads /\ r \notin Writers
      /\ UNCHANGED <<is_writing_, writer_cnt_, cnt, rounds>>
      /\ \A w \in Writers : pc'[w] = pc[w] /\ val'[w] = val[w]
  BY DEF ReaderStep, CallLockR, PassGate, AddReader, RereadReaders, ReadCnt, UnlockR
<1>2. TypeOK'
  <2>1. CASE CallLockR(r) \/ PassGate(r) \/ RereadReaders(r)
    BY <2>1 DEF CallLockR, PassGate, RereadReaders, ReaderPC, WriterPC
  <2>2. CASE AddReader(r)
    BY <2>2 DEF AddReader, Xadd, ReaderPC, WriterPC
  <2>3. CASE ReadCnt(r)
    BY <2>3 DEF ReadCnt, ReaderPC, WriterPC
  <2>4. CASE UnlockR(r)
    BY <2>4 DEF UnlockR, AfterUnlockR, Xadd, ReaderPC, WriterPC
  <2> QED BY <2>1, <2>2, <2>3, <2>4 DEF ReaderStep
<1>3. FlagHolders' = FlagHolders
  BY <1>1 DEF FlagHolders
<1>4. WriterExclusion' /\ FlagMatchesHolder'
  BY <1>1, <1>3 DEF WriterExclusion, FlagMatchesHolder
<1>5. NoStaleStore' /\ RoundsLeft'
  BY <1>1 DEF NoStaleStore, RoundsLeft
<1> QED BY <1>2, <1>4, <1>5

\* A writer's step.  Only GrabFlag brings a holder in, and finds the flag
\* free; only a holder touches cnt.
LEMMA WriterKeepsIInv ==
  ASSUME IInv, NEW w \in Writers, WriterStep(w)
  PROVE  IInv'
<1> USE LockAssumption DEF IInv, TypeOK, Goto, Threads, lockVars, testVars
<1>1. CASE CallLockW(w) \/ RereadWriters(w) \/ SeeNoReaders(w) \/ LoadCnt(w)
  BY <1>1 DEF CallLockW, RereadWriters, SeeNoReaders, LoadCnt, ReaderPC, WriterPC,
              WriterExclusion, FlagMatchesHolder, NoStaleStore, RoundsLeft, FlagHolders
<1>2. CASE AddWriter(w)
  BY <1>2 DEF AddWriter, Xadd, ReaderPC, WriterPC,
              WriterExclusion, FlagMatchesHolder, NoStaleStore, RoundsLeft, FlagHolders
<1>3. CASE GrabFlag(w)
  <2>1. CASE WriterFlagFree
    BY <1>3, <2>1 DEF GrabFlag, FlagAfterGrab, WriterFlagFree, CmpXchg, ReaderPC, WriterPC,
              WriterExclusion, FlagMatchesHolder, NoStaleStore, RoundsLeft, FlagHolders
  <2>2. CASE ~WriterFlagFree
    BY <1>3, <2>2 DEF GrabFlag, FlagAfterGrab, WriterFlagFree, CmpXchg, ReaderPC, WriterPC,
              WriterExclusion, FlagMatchesHolder, NoStaleStore, RoundsLeft, FlagHolders
  <2> QED BY <2>1, <2>2
<1>4. CASE StoreCnt(w)
  <2>1. FlagHolders' = FlagHolders /\ w \in FlagHolders
    BY <1>4 DEF StoreCnt, FlagHolders
  <2>2. NoStaleStore'
    BY <1>4, <2>1 DEF StoreCnt, NoStaleStore, WriterExclusion, FlagHolders
  <2>3. rounds[w] + 1 \in 0..Loops
    BY <1>4 DEF StoreCnt, RoundsLeft
  <2>4. TypeOK' /\ RoundsLeft'
    BY <1>4, <2>3 DEF StoreCnt, RoundsLeft, ReaderPC, WriterPC
  <2> QED BY <1>4, <2>1, <2>2, <2>4 DEF StoreCnt, WriterExclusion, FlagMatchesHolder
<1>5. CASE RetireWriter(w)
  BY <1>5 DEF RetireWriter, AfterUnlockW, Xadd, ReaderPC, WriterPC,
              WriterExclusion, FlagMatchesHolder, NoStaleStore, RoundsLeft, FlagHolders
<1>6. CASE ClearFlag(w)
  BY <1>6 DEF ClearFlag, FlagAfterUnlockW, CmpXchg, ReaderPC, WriterPC,
              WriterExclusion, FlagMatchesHolder, NoStaleStore, RoundsLeft, FlagHolders
<1> QED BY <1>1, <1>2, <1>3, <1>4, <1>5, <1>6 DEF WriterStep

LEMMA NextKeepsIInv == IInv /\ [Next]_vars => IInv'
<1>1. ASSUME IInv, UNCHANGED vars PROVE IInv'
  BY <1>1 DEF vars, IInv, TypeOK, WriterExclusion, FlagMatchesHolder, NoStaleStore,
              RoundsLeft, FlagHolders
<1> QED BY <1>1, ReaderKeepsIInv, WriterKeepsIInv DEF Next

\* The variables always have their types.
THEOREM TypeCorrect == Spec => []TypeOK
<1>1. IInv => TypeOK
  BY DEF IInv
<1> QED BY InitEstablishesIInv, NextKeepsIInv, <1>1, PTL DEF Spec

\* Two writers never hold the lock together (lock.cc:63-77).
THEOREM WritersExclude == Spec => []WriterExclusion
<1>1. IInv => WriterExclusion
  BY DEF IInv
<1> QED BY InitEstablishesIInv, NextKeepsIInv, <1>1, PTL DEF Spec

\* No writer overwrites another's increment (test_wrlock.cc:27-30).
THEOREM NoLostIncrement == Spec => []NoStaleStore
<1>1. IInv => NoStaleStore
  BY DEF IInv
<1> QED BY InitEstablishesIInv, NextKeepsIInv, <1>1, PTL DEF Spec
-----------------------------------------------------------------------------
(* The count of the test.  The increments done so far are pairs of a       *)
(* writer and the number of its round; each store adds one pair.           *)

Increments == {p \in Writers \X (1..Loops) : p[2] <= rounds[p[1]]}

CountsIncrements == cnt = Cardinality(Increments)

LEMMA IncrementsFinite ==
  /\ IsFiniteSet(Writers \X (1..Loops))
  /\ Cardinality(Writers \X (1..Loops)) = Cardinality(Writers) * Loops
  /\ IsFiniteSet(Increments)
<1>1. IsFiniteSet(1..Loops) /\ Cardinality(1..Loops) = Loops
  BY LockAssumption, FS_Interval
<1>2. /\ IsFiniteSet(Writers \X (1..Loops))
      /\ Cardinality(Writers \X (1..Loops)) = Cardinality(Writers) * Loops
  BY <1>1, LockAssumption, FS_Product
<1>3. Increments \in SUBSET (Writers \X (1..Loops))
  BY DEF Increments
<1> QED BY <1>2, <1>3, FS_Subset

LEMMA InitCountsIncrements == Init => CountsIncrements
<1> SUFFICES ASSUME Init PROVE CountsIncrements
  OBVIOUS
<1>1. Increments = {}
  BY DEF Init, Increments
<1> QED BY <1>1, FS_EmptySet DEF Init, CountsIncrements

\* A store adds the pair of the round it completes, and one to cnt, which is
\* what the writer has loaded (NoStaleStore).
LEMMA StepCountsIncrements ==
  IInv /\ CountsIncrements /\ [Next]_vars => CountsIncrements'
<1> SUFFICES ASSUME IInv, CountsIncrements, [Next]_vars PROVE CountsIncrements'
  OBVIOUS
<1>1. ASSUME NEW w \in Writers, StoreCnt(w) PROVE CountsIncrements'
  <2> DEFINE new == <<w, rounds[w] + 1>>
  <2>1. /\ rounds \in [Writers -> 0..Loops] /\ rounds[w] < Loops
        /\ rounds' = [rounds EXCEPT ![w] = rounds[w] + 1] /\ cnt' = cnt + 1
    BY <1>1 DEF StoreCnt, Goto, IInv, TypeOK, NoStaleStore, RoundsLeft
  <2>2. new \in Writers \X (1..Loops) /\ new \notin Increments
    BY <2>1, LockAssumption DEF Increments
  <2>3. Increments' = Increments \cup {new}
    <3>1. ASSUME NEW p \in Writers \X (1..Loops)
          PROVE  p[2] <= rounds'[p[1]] <=> (p[2] <= rounds[p[1]] \/ p = new)
      <4>1. p[1] \in Writers /\ p[2] \in 1..Loops /\ p = <<p[1], p[2]>>
        OBVIOUS
      <4>2. CASE p[1] = w
        BY <2>1, <4>1, <4>2
      <4>3. CASE p[1] # w
        BY <2>1, <4>1, <4>3
      <4> QED BY <4>2, <4>3
    <3> QED BY <2>2, <3>1 DEF Increments
  <2> HIDE DEF new
  <2> QED BY <2>1, <2>2, <2>3, IncrementsFinite, FS_AddElement DEF CountsIncrements
<1>2. CASE UNCHANGED <<cnt, rounds>>
  BY <1>2 DEF CountsIncrements, Increments
<1>3. (\E w \in Writers : StoreCnt(w)) \/ UNCHANGED <<cnt, rounds>>
  BY DEF Next, vars, ReaderStep, WriterStep, lockVars, testVars, CallLockR, PassGate, AddReader,
         RereadReaders, ReadCnt, UnlockR, CallLockW, AddWriter, RereadWriters, SeeNoReaders,
         GrabFlag, LoadCnt, RetireWriter, ClearFlag
<1> QED BY <1>1, <1>2, <1>3

\* When the writers of the test are through their loops, every increment has
\* been counted (test_wrlock.cc:23-31, 62): the lock did its work.
THEOREM CountsAll == Spec => []CountComplete
<1>1. CountsIncrements => CountComplete
  <2> SUFFICES ASSUME CountsIncrements, AllWritten
               PROVE  cnt = Loops * Cardinality(Writers)
    BY DEF CountComplete
  <2>1. Increments = Writers \X (1..Loops)
    BY LockAssumption DEF AllWritten, Increments
  <2>2. cnt = Cardinality(Writers) * Loops
    BY <2>1, IncrementsFinite DEF CountsIncrements
  <2>3. Cardinality(Writers) \in Nat /\ Loops \in Nat
    BY LockAssumption, FS_CardinalityType
  <2> QED BY <2>2, <2>3
<1> QED BY <1>1, InitEstablishesIInv, NextKeepsIInv, InitCountsIncrements, StepCountsIncrements, PTL
        DEF Spec
-----------------------------------------------------------------------------
(* The counters.                                                           *)

LEMMA SetsFinite == /\ IsFiniteSet(CountedReaders)
                    /\ IsFiniteSet(AnnouncedWriters)
  BY LockAssumption, FS_Subset DEF CountedReaders, AnnouncedWriters

LEMMA InitCounts == Init => CountersExact
<1> SUFFICES ASSUME Init PROVE CountersExact
  OBVIOUS
<1>1. CountedReaders = {} /\ AnnouncedWriters = {}
  BY DEF Init, CountedReaders, AnnouncedWriters, Threads
<1> QED BY <1>1, FS_EmptySet DEF CountersExact, Init

LEMMA ReaderKeepsCounts ==
  ASSUME IInv, CountersExact, NEW r \in Readers, ReaderStep(r)
  PROVE  CountersExact'
<1> USE LockAssumption DEF IInv, TypeOK, Goto, Threads, lockVars, testVars
<1>1. writer_cnt_' = writer_cnt_ /\ AnnouncedWriters' = AnnouncedWriters
  BY DEF ReaderStep, CallLockR, PassGate, AddReader, RereadReaders, ReadCnt, UnlockR,
         AnnouncedWriters
<1>2. reader_cnt_' = Cardinality(CountedReaders')
  <2>1. CASE CallLockR(r) \/ PassGate(r) \/ ReadCnt(r)
    <3>1. reader_cnt_' = reader_cnt_ /\ CountedReaders' = CountedReaders
      BY <2>1 DEF CallLockR, PassGate, ReadCnt, CountedReaders
    <3> QED BY <3>1 DEF CountersExact
  <2>2. CASE AddReader(r)
    <3>1. r \notin CountedReaders /\ CountedReaders' = CountedReaders \cup {r}
      BY <2>2 DEF AddReader, CountedReaders
    <3>2. reader_cnt_' = reader_cnt_ + 1
      BY <2>2 DEF AddReader, Xadd
    <3> QED BY <3>1, <3>2, SetsFinite, FS_AddElement DEF CountersExact
  <2>3. CASE RereadReaders(r)
    <3>1. r \in CountedReaders
      BY <2>3 DEF RereadReaders, CountedReaders
    <3>2. reader_cnt_ # 0 /\ reader_cnt_ \in Nat
      BY <3>1, SetsFinite, FS_EmptySet, FS_CardinalityType DEF CountersExact
    <3>3. reader_cnt_' = reader_cnt_ /\ CountedReaders' = CountedReaders
      BY <2>3, <3>2 DEF RereadReaders, CountedReaders
    <3> QED BY <3>3 DEF CountersExact
  <2>4. CASE UnlockR(r)
    <3>1. r \in CountedReaders /\ CountedReaders' = CountedReaders \ {r}
      BY <2>4 DEF UnlockR, CountedReaders
    <3>2. reader_cnt_' = reader_cnt_ - 1
      BY <2>4 DEF UnlockR, AfterUnlockR, Xadd
    <3> QED BY <3>1, <3>2, SetsFinite, FS_RemoveElement DEF CountersExact
  <2> QED BY <2>1, <2>2, <2>3, <2>4 DEF ReaderStep
<1> QED BY <1>1, <1>2 DEF CountersExact

LEMMA WriterKeepsCounts ==
  ASSUME IInv, CountersExact, NEW w \in Writers, WriterStep(w)
  PROVE  CountersExact'
<1> USE LockAssumption DEF IInv, TypeOK, Goto, Threads, lockVars, testVars
<1>1. reader_cnt_' = reader_cnt_ /\ CountedReaders' = CountedReaders
  BY DEF WriterStep, CallLockW, AddWriter, RereadWriters, SeeNoReaders, GrabFlag,
         LoadCnt, StoreCnt, RetireWriter, ClearFlag, CountedReaders
<1>2. writer_cnt_' = Cardinality(AnnouncedWriters')
  <2>1. CASE CallLockW(w) \/ SeeNoReaders(w) \/ GrabFlag(w) \/ LoadCnt(w)
             \/ StoreCnt(w) \/ ClearFlag(w)
    <3>1. writer_cnt_' = writer_cnt_
      BY <2>1 DEF CallLockW, SeeNoReaders, GrabFlag, LoadCnt, StoreCnt, ClearFlag
    <3>2. AnnouncedWriters' = AnnouncedWriters
      BY <2>1 DEF CallLockW, SeeNoReaders, GrabFlag, LoadCnt, StoreCnt, ClearFlag,
                  AnnouncedWriters
    <3> QED BY <3>1, <3>2 DEF CountersExact
  <2>2. CASE AddWriter(w)
    <3>1. w \notin AnnouncedWriters /\ AnnouncedWriters' = AnnouncedWriters \cup {w}
      BY <2>2 DEF AddWriter, AnnouncedWriters
    <3>2. writer_cnt_' = writer_cnt_ + 1
      BY <2>2 DEF AddWriter, Xadd
    <3> QED BY <3>1, <3>2, SetsFinite, FS_AddElement DEF CountersExact
  <2>3. CASE RereadWriters(w)
    <3>1. w \in AnnouncedWriters
      BY <2>3 DEF RereadWriters, AnnouncedWriters
    <3>2. writer_cnt_ # 0 /\ writer_cnt_ \in Nat
      BY <3>1, SetsFinite, FS_EmptySet, FS_CardinalityType DEF CountersExact
    <3>3. writer_cnt_' = writer_cnt_ /\ AnnouncedWriters' = AnnouncedWriters
      BY <2>3, <3>2 DEF RereadWriters, AnnouncedWriters
    <3> QED BY <3>3 DEF CountersExact
  <2>4. CASE RetireWriter(w)
    <3>1. w \in AnnouncedWriters /\ AnnouncedWriters' = AnnouncedWriters \ {w}
      BY <2>4 DEF RetireWriter, AnnouncedWriters
    <3>2. writer_cnt_' = writer_cnt_ - 1
      BY <2>4 DEF RetireWriter, AfterUnlockW, Xadd
    <3> QED BY <3>1, <3>2, SetsFinite, FS_RemoveElement DEF CountersExact
  <2> QED BY <2>1, <2>2, <2>3, <2>4 DEF WriterStep
<1> QED BY <1>1, <1>2 DEF CountersExact

LEMMA NextKeepsCounts == IInv /\ CountersExact /\ [Next]_vars => CountersExact'
<1>1. ASSUME CountersExact, UNCHANGED vars PROVE CountersExact'
  BY <1>1 DEF vars, CountersExact, CountedReaders, AnnouncedWriters
<1> QED BY <1>1, ReaderKeepsCounts, WriterKeepsCounts DEF Next

\* reader_cnt_ and writer_cnt_ count exactly the threads between their
\* increment and their decrement (lock.cc:52-77).
THEOREM CountersAreExact == Spec => []CountersExact
  BY InitEstablishesIInv, NextKeepsIInv, InitCounts, NextKeepsCounts, PTL DEF Spec

\* The retry loops around atomic_add_then_fetch never add twice
\* (lock.cc:54, 64).
THEOREM NeverCountedTwice == Spec => []RereadPositive
<1>1. CountersExact => RereadPositive
  <2> SUFFICES ASSUME CountersExact PROVE RereadPositive
    OBVIOUS
  <2>1. /\ reader_cnt_ \in Nat /\ (reader_cnt_ = 0 => CountedReaders = {})
        /\ writer_cnt_ \in Nat /\ (writer_cnt_ = 0 => AnnouncedWriters = {})
    BY SetsFinite, FS_EmptySet, FS_CardinalityType DEF CountersExact
  <2> QED BY <2>1 DEF RereadPositive, CountedReaders, AnnouncedWriters
<1> QED BY CountersAreExact, <1>1, PTL
-----------------------------------------------------------------------------
LEMMA StepImplements == IInv /\ [Next]_vars => [WriterMutex!Next]_FlagHolders
<1> SUFFICES ASSUME IInv, [Next]_vars
             PROVE  WriterMutex!Next \/ FlagHolders' = FlagHolders
  OBVIOUS
<1> USE LockAssumption DEF IInv, TypeOK, Goto, Threads
<1>1. ASSUME NEW r \in Readers, ReaderStep(r) PROVE FlagHolders' = FlagHolders
  BY <1>1 DEF ReaderStep, CallLockR, PassGate, AddReader, RereadReaders, ReadCnt,
              UnlockR, FlagHolders
<1>2. ASSUME NEW w \in Writers,
             \/ CallLockW(w) \/ AddWriter(w) \/ RereadWriters(w) \/ SeeNoReaders(w)
             \/ LoadCnt(w) \/ StoreCnt(w) \/ RetireWriter(w)
      PROVE  FlagHolders' = FlagHolders
  BY <1>2 DEF CallLockW, AddWriter, RereadWriters, SeeNoReaders, LoadCnt, StoreCnt,
              RetireWriter, FlagHolders
<1>3. ASSUME NEW w \in Writers, GrabFlag(w)
      PROVE  WriterMutex!Lock(w) \/ FlagHolders' = FlagHolders
  <2>1. CASE WriterFlagFree
    <3>1. FlagHolders = {}
      BY <2>1 DEF WriterFlagFree, FlagMatchesHolder
    <3>2. FlagHolders' = {w}
      BY <1>3, <2>1, <3>1 DEF GrabFlag, FlagHolders
    <3> QED BY <3>1, <3>2 DEF WriterMutex!Lock
  <2>2. CASE ~WriterFlagFree
    BY <1>3, <2>2 DEF GrabFlag, FlagHolders
  <2> QED BY <2>1, <2>2
<1>4. ASSUME NEW w \in Writers, ClearFlag(w) PROVE WriterMutex!Unlock(w)
  <2>1. FlagHolders = {w}
    BY <1>4 DEF ClearFlag, FlagHolders, WriterExclusion
  <2>2. FlagHolders' = {}
    BY <1>4, <2>1 DEF ClearFlag, FlagHolders
  <2> QED BY <2>1, <2>2 DEF WriterMutex!Unlock
<1>5. CASE UNCHANGED vars
  BY <1>5 DEF vars, FlagHolders
<1> QED BY <1>1, <1>2, <1>3, <1>4, <1>5 DEF Next, WriterStep, WriterMutex!Next

\* Among its writers SoarWRLock is a mutex (lock.cc:63-77).
THEOREM WritersHaveMutex == Spec => WritersImplementMutex
<1>1. Init => WriterMutex!Init
  BY DEF Init, WriterMutex!Init, FlagHolders, Threads
<1> QED BY InitEstablishesIInv, NextKeepsIInv, StepImplements, <1>1, PTL
        DEF Spec, WritersImplementMutex, WriterMutex!Spec
-----------------------------------------------------------------------------
\* A reader that has overtaken a waiting writer is inside the lock, or outside in
\* front of the gate, which that writer keeps shut.
OvertakersOut ==
  \A w \in Waiting : \A r \in overtakers[w] :
    r \in Readers /\ pc[r] \in {"reading", "r_leave", "idle", "r_gate"}

\* A writer that waits is counted, and PassGate lets nobody by (lock.cc:53).
LEMMA GateShut ==
  ASSUME CountersExact, NEW w \in Waiting
  PROVE  ~GateOpen
<1>1. w \in AnnouncedWriters
  BY DEF Waiting
<1>2. Cardinality(AnnouncedWriters) # 0
  BY <1>1, SetsFinite, FS_EmptySet
<1> QED BY <1>2 DEF CountersExact, GateOpen

\* A reader enters the set on its way in, and meets a shut gate when it is out
\* again.
LEMMA StepOvertakersOut ==
  ASSUME IInv, CountersExact, OvertakersOut, MCNext
  PROVE  OvertakersOut'
<1> SUFFICES ASSUME NEW w \in Waiting', NEW r \in overtakers'[w]
             PROVE  r \in Readers /\ pc'[r] \in {"reading", "r_leave", "idle", "r_gate"}
  BY DEF OvertakersOut
<1>1. w \in Writers
  BY DEF Waiting, AnnouncedWriters
<1>2. w \in Waiting /\ r \in overtakers[w] \cup {q \in Readers : EntersNow(q)}
  BY <1>1 DEF MCNext
<1>3. CASE r \in Readers /\ EntersNow(r)
  BY <1>3 DEF EntersNow
<1>4. CASE r \in overtakers[w]
  <2>1. r \in Readers /\ pc[r] \in {"reading", "r_leave", "idle", "r_gate"}
    BY <1>2, <1>4 DEF OvertakersOut
  <2>2. ~GateOpen
    BY <1>2, GateShut
  <2>3. ASSUME NEW q \in Readers, ReaderStep(q)
        PROVE  pc'[r] \in {"reading", "r_leave", "idle", "r_gate"}
    BY <2>1, <2>2, <2>3 DEF IInv, TypeOK, Threads, ReaderStep, Goto, CallLockR, PassGate, AddReader,
                       RereadReaders, ReadCnt, UnlockR
  <2>4. ASSUME NEW v \in Writers, WriterStep(v)
        PROVE  pc'[r] \in {"reading", "r_leave", "idle", "r_gate"}
    <3>1. v # r
      BY <2>1, LockAssumption
    <3> QED BY <2>1, <2>4, <3>1
            DEF IInv, TypeOK, Threads, WriterStep, Goto, CallLockW, AddWriter, RereadWriters,
                SeeNoReaders, GrabFlag, LoadCnt, StoreCnt, RetireWriter, ClearFlag
  <2> QED BY <2>1, <2>3, <2>4 DEF MCNext, Next
<1> QED BY <1>2, <1>3, <1>4

\* Nobody in the set is at the step that lets a reader in.
LEMMA NoneTwice ==
  ASSUME IInv, CountersExact, OvertakersOut, MCNext
  PROVE  \A w \in Waiting : \A r \in overtakers[w] : ~EntersNow(r)
<1> SUFFICES ASSUME NEW w \in Waiting, NEW r \in overtakers[w], EntersNow(r) PROVE FALSE
  OBVIOUS
<1>1. r \in Readers /\ pc[r] \in {"r_leave", "idle", "r_gate"} /\ pc'[r] = "reading"
  BY DEF OvertakersOut, EntersNow
<1>3. ASSUME NEW q \in Readers, ReaderStep(q) PROVE FALSE
  BY <1>1, <1>3 DEF IInv, TypeOK, Threads, ReaderStep, Goto, CallLockR, PassGate, AddReader,
                       RereadReaders, ReadCnt, UnlockR
<1>4. ASSUME NEW v \in Writers, WriterStep(v) PROVE FALSE
  <2>1. v # r
    BY <1>1, LockAssumption
  <2> QED BY <1>1, <1>4, <2>1
          DEF IInv, TypeOK, Threads, WriterStep, Goto, CallLockW, AddWriter, RereadWriters,
              SeeNoReaders, GrabFlag, LoadCnt, StoreCnt, RetireWriter, ClearFlag
<1> QED BY <1>3, <1>4 DEF MCNext, Next

\* No reader enters ahead of a waiting writer a second time (lock.cc:50-57).
THEOREM WriterPreference == MCSpec => OvertakenAtMostOnce
<1>1. MCInit => Init /\ OvertakersOut
  BY DEF MCInit, Init, OvertakersOut, Waiting, AnnouncedWriters, Threads
<1>2. [MCNext]_mcVars => [Next]_vars
  BY DEF MCNext, mcVars
<1>3. IInv /\ CountersExact /\ OvertakersOut /\ [MCNext]_mcVars => OvertakersOut'
  <2>1. UNCHANGED mcVars /\ OvertakersOut => OvertakersOut'
    BY DEF mcVars, vars, OvertakersOut, Waiting, AnnouncedWriters
  <2> QED BY <2>1, StepOvertakersOut
<1>4. IInv /\ CountersExact /\ OvertakersOut /\ [MCNext]_mcVars
        => [\A w \in Waiting : \A r \in overtakers[w] : ~EntersNow(r)]_mcVars
  BY NoneTwice
<1>5. MCSpec => [](IInv /\ CountersExact /\ OvertakersOut)
  BY <1>1, <1>2, <1>3, InitEstablishesIInv, NextKeepsIInv, InitCounts, NextKeepsCounts, PTL
     DEF MCSpec
<1> QED BY <1>4, <1>5, PTL DEF MCSpec, OvertakenAtMostOnce
-----------------------------------------------------------------------------
\* The spin lock (MCSpinLock), on a word and with threads of its own.

LEMMA SpinInit == Spin!Init => Spin!IInv
  BY DEF Spin!Init, Spin!IInv, Spin!TypeOK, Spin!MutualExclusion, Spin!WordMatchesHolder,
         Spin!Critical

\* One case per action; only the two CAS steps touch the word.
LEMMA SpinStep == Spin!IInv /\ [Spin!Next]_(Spin!vars) => Spin!IInv'
<1> SUFFICES ASSUME Spin!IInv, [Spin!Next]_(Spin!vars) PROVE Spin!IInv'
  OBVIOUS
<1> USE DEF Spin!IInv, Spin!TypeOK, Spin!MutualExclusion, Spin!WordMatchesHolder,
            Spin!Critical, Spin!Goto
<1>1. ASSUME NEW t \in Spinners, Spin!CallLock(t) PROVE Spin!IInv'
  BY <1>1 DEF Spin!CallLock
<1>2. ASSUME NEW t \in Spinners, Spin!Spin(t) PROVE Spin!IInv'
  BY <1>2 DEF Spin!Spin
<1>3. ASSUME NEW t \in Spinners, Spin!LockTry(t) PROVE Spin!IInv'
  <2>1. CASE Spin!TryLockWins
    BY <1>3, <2>1 DEF Spin!LockTry, Spin!TryLockWins, Spin!TryLockWord, Spin!CmpXchg
  <2>2. CASE ~Spin!TryLockWins
    BY <1>3, <2>2 DEF Spin!LockTry, Spin!TryLockWins, Spin!TryLockWord, Spin!CmpXchg
  <2> QED BY <2>1, <2>2
<1>4. ASSUME NEW t \in Spinners, Spin!CallTryLock(t) PROVE Spin!IInv'
  BY <1>4 DEF Spin!CallTryLock
<1>5. ASSUME NEW t \in Spinners, Spin!TryLock(t) PROVE Spin!IInv'
  <2>1. CASE Spin!TryLockWins
    BY <1>5, <2>1 DEF Spin!TryLock, Spin!TryLockWins, Spin!TryLockWord, Spin!CmpXchg
  <2>2. CASE ~Spin!TryLockWins
    BY <1>5, <2>2 DEF Spin!TryLock, Spin!TryLockWins, Spin!TryLockWord, Spin!CmpXchg
  <2> QED BY <2>1, <2>2
<1>6. ASSUME NEW t \in Spinners, Spin!Unlock(t) PROVE Spin!IInv'
  BY <1>6 DEF Spin!Unlock, Spin!UnlockWord, Spin!CmpXchg
<1>7. CASE UNCHANGED Spin!vars
  BY <1>7 DEF Spin!vars
<1> QED BY <1>1, <1>2, <1>3, <1>4, <1>5, <1>6, <1>7 DEF Spin!Next

\* The variables always have their types (spinlock.h:23, locking is 0 or 1).
THEOREM SpinTypeCorrect == Spin!Spec => []Spin!TypeOK
<1>1. Spin!IInv => Spin!TypeOK
  BY DEF Spin!IInv
<1> QED BY SpinInit, SpinStep, <1>1, PTL DEF Spin!Spec

\* TryLock and Lock never let two threads in together (spinlock.cc:13-37).
THEOREM SpinExclusion == Spin!Spec => []Spin!MutualExclusion
<1>1. Spin!IInv => Spin!MutualExclusion
  BY DEF Spin!IInv
<1> QED BY SpinInit, SpinStep, <1>1, PTL DEF Spin!Spec

\* The word is 1 exactly while a thread is inside (spinlock.cc:39-50).
THEOREM SpinWordTellsTruth == Spin!Spec => []WordMatchesHolder
<1>1. Spin!IInv => WordMatchesHolder
  BY DEF Spin!IInv, WordMatchesHolder
<1> QED BY SpinInit, SpinStep, <1>1, PTL DEF Spin!Spec

\* Every step of the spin lock is a step of the abstract mutex or leaves its
\* holder alone.
LEMMA SpinStepImplements ==
  Spin!IInv /\ [Spin!Next]_(Spin!vars) => [Spin!AbstractMutex!Next]_(Spin!Critical)
<1> SUFFICES ASSUME Spin!IInv, [Spin!Next]_(Spin!vars)
             PROVE  Spin!AbstractMutex!Next \/ Spin!Critical' = Spin!Critical
  OBVIOUS
<1> USE DEF Spin!IInv, Spin!TypeOK, Spin!MutualExclusion, Spin!WordMatchesHolder, Spin!Goto
<1>1. ASSUME NEW t \in Spinners,
             Spin!CallLock(t) \/ Spin!Spin(t) \/ Spin!CallTryLock(t)
      PROVE  Spin!Critical' = Spin!Critical
  BY <1>1 DEF Spin!CallLock, Spin!Spin, Spin!CallTryLock, Spin!Critical
<1>2. ASSUME NEW t \in Spinners, Spin!LockTry(t) \/ Spin!TryLock(t)
      PROVE  Spin!AbstractMutex!Lock(t) \/ Spin!Critical' = Spin!Critical
  <2>1. CASE Spin!TryLockWins
    <3>1. Spin!Critical = {}
      BY <2>1 DEF Spin!TryLockWins, Spin!Critical
    <3>2. Spin!Critical' = {t}
      BY <1>2, <2>1, <3>1 DEF Spin!LockTry, Spin!TryLock, Spin!Critical
    <3> QED BY <3>1, <3>2 DEF Spin!AbstractMutex!Lock
  <2>2. CASE ~Spin!TryLockWins
    BY <1>2, <2>2 DEF Spin!LockTry, Spin!TryLock, Spin!Critical
  <2> QED BY <2>1, <2>2
<1>3. ASSUME NEW t \in Spinners, Spin!Unlock(t)
      PROVE  Spin!AbstractMutex!Unlock(t)
  <2>1. Spin!Critical = {t}
    BY <1>3 DEF Spin!Unlock, Spin!Critical
  <2>2. Spin!Critical' = {}
    BY <1>3, <2>1 DEF Spin!Unlock, Spin!Critical
  <2> QED BY <2>1, <2>2 DEF Spin!AbstractMutex!Unlock
<1>4. CASE UNCHANGED Spin!vars
  BY <1>4 DEF Spin!vars, Spin!Critical
<1> QED BY <1>1, <1>2, <1>3, <1>4 DEF Spin!Next, Spin!AbstractMutex!Next

\* SpinLock promises what StdMutexLock promises (lock.h:32-42).
THEOREM SpinLockIsMutex == Spin!Spec => ImplementsMutex
<1>1. Spin!Init => Spin!AbstractMutex!Init
  BY DEF Spin!Init, Spin!AbstractMutex!Init, Spin!Critical
<1> QED BY SpinInit, SpinStep, SpinStepImplements, <1>1, PTL
        DEF Spin!Spec, ImplementsMutex, Spin!ImplementsMutex, Spin!AbstractMutex!Spec
=============================================================================
