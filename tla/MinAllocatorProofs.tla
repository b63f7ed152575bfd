------------------------ MODULE MinAllocatorProofs ------------------------
(***************************************************************************)
(* The memory pool for any number of threads and calls and any sizes:      *)
(* first that its free lists and its reserve stay what they are, for which *)
(* alloc_lock_ is needed, then that the system's memory is accounted for,  *)
(* for which it is not, then that no byte has two owners, so that a locked *)
(* pool is a heap to its clients, and when its lock is lost.               *)
(***************************************************************************)
EXTENDS MinAllocator, FiniteSetTheorems, TLAPS

\* A pool that is locked is held by the thread inside; after a refill that threw
\* it is held by a thread that is not inside.
Held == Locked => /\ alloc_lock_ = {} \/ \E t \in Threads : alloc_lock_ = {t}
                  /\ \A t \in Threads : Inside(t) => alloc_lock_ = {t}

\* Between reading a head and unlinking it the list is not empty.
HeadThere == \A t \in Threads : pc[t] = "a_unlink" => free_list[Class(t)] # <<>>

\* Sizes are not zero: a request is not, and a header is added.
Sized == /\ \A t \in Threads : pc[t] \notin {"idle", "exited"} => need[t] > 0
         /\ \A b \in live : b.real > 0

PoolInv == TypeOK /\ Held /\ HeadThere /\ Sized
-----------------------------------------------------------------------------
\* Division by the alignment, or by a block size.
LEMMA Quotient ==
  ASSUME NEW a \in Nat, NEW d \in Nat \ {0}
  PROVE  a \div d \in Nat /\ (a \div d) * d <= a /\ a < (a \div d + 1) * d
OBVIOUS

LEMMA QuotientPositive ==
  ASSUME NEW a \in Nat, NEW d \in Nat \ {0}, a >= d
  PROVE  a \div d >= 1
<1>1. a \div d \in Nat /\ a < (a \div d + 1) * d
  BY Quotient
<1>2. ASSUME a \div d = 0 PROVE FALSE
  BY <1>1, <1>2
<1> QED BY <1>1, <1>2

LEMMA ProductPositive ==
  ASSUME NEW a \in Nat \ {0}, NEW b \in Nat \ {0}
  PROVE  a * b \in Nat \ {0}
OBVIOUS

\* A rounded size is a size, and the class of a size is a number.
LEMMA Rounded ==
  ASSUME NEW n \in Nat
  PROVE  /\ ROUND_UP(n) \in Nat
         /\ n > 0 => ROUND_UP(n) > 0 /\ GET_FREELIST_IDX(n) \in Nat
<1>1. Align \in Nat \ {0} /\ n + Align - 1 \in Nat
  BY PoolAssumption
<1>2. (n + Align - 1) \div Align \in Nat
  BY <1>1, Quotient
<1>3. ROUND_UP(n) \in Nat
  BY <1>1, <1>2 DEF ROUND_UP
<1>4. ASSUME n > 0 PROVE ROUND_UP(n) > 0 /\ GET_FREELIST_IDX(n) \in Nat
  <2>1. (n + Align - 1) \div Align >= 1
    BY <1>1, <1>4, QuotientPositive
  <2>2. ((n + Align - 1) \div Align) * Align \in Nat \ {0}
    BY <1>1, <1>2, <2>1, ProductPositive
  <2> QED BY <1>1, <1>2, <2>1, <2>2 DEF ROUND_UP, GET_FREELIST_IDX
<1> QED BY <1>3, <1>4

\* A size up to __MAX_BYTES has a free list: __MAX_BYTES is a multiple of __ALIGN.
LEMMA HasClass ==
  ASSUME NEW n \in Nat \ {0}, n <= MaxBytes
  PROVE  GET_FREELIST_IDX(n) \in Classes
<1> DEFINE p == (n + Align - 1) \div Align
           q == MaxBytes \div Align
<1>1. Align \in Nat \ {0} /\ MaxBytes \in Nat /\ n + Align - 1 \in Nat
  BY PoolAssumption
<1>2. p \in Nat /\ p * Align <= n + Align - 1
  BY <1>1, Quotient
<1>3. q \in Nat /\ q * Align = MaxBytes
  BY <1>1, PoolAssumption
<1>4. p >= 1
  BY <1>1, QuotientPositive
<1>5. p <= q
  <2> HIDE DEF p, q
  <2>1. p * Align <= q * Align + Align - 1
    BY <1>1, <1>2, <1>3
  <2>2. ASSUME p >= q + 1 PROVE FALSE
    <3>1. p * Align >= (q + 1) * Align
      BY <1>1, <1>2, <1>3, <2>2
    <3>2. (q + 1) * Align = q * Align + Align
      BY <1>1, <1>3
    <3>3. p * Align \in Nat /\ q * Align \in Nat
      BY <1>1, <1>2, <1>3
    <3> QED BY <1>1, <2>1, <3>1, <3>2, <3>3
  <2> QED BY <1>2, <1>3, <2>2
<1>6. GET_FREELIST_IDX(n) = p - 1 /\ Classes = 0..(q - 1)
  BY DEF GET_FREELIST_IDX, Classes
<1> QED BY <1>2, <1>3, <1>4, <1>5, <1>6

\* Blocks of one class cut one after the other.
LEMMA BlockAddress ==
  ASSUME NEW addr \in Nat, NEW k \in Nat, NEW i \in Nat
  PROVE  addr + i * ClassSize(k) \in Nat
<1>1. ClassSize(k) \in Nat
  BY PoolAssumption DEF ClassSize
<1> QED BY <1>1

LEMMA PushTyped ==
  ASSUME NEW lists \in [Classes -> Seq(Nat)], NEW k, NEW addr \in Nat
  PROVE  Push(lists, k, addr) \in [Classes -> Seq(Nat)]
<1>1. ASSUME k \in Classes PROVE <<addr>> \o lists[k] \in Seq(Nat)
  BY <1>1
<1> QED BY <1>1 DEF Push

LEMMA RefillTyped ==
  ASSUME NEW lists \in [Classes -> Seq(Nat)], NEW k \in Nat, NEW addr \in Nat, NEW n \in Nat \ {0}
  PROVE  Refill(lists, k, addr, n) \in [Classes -> Seq(Nat)]
<1>1. [i \in 1..n - 1 |-> addr + i * ClassSize(k)] \in Seq(Nat)
  <2>1. \A i \in 1..n - 1 : addr + i * ClassSize(k) \in Nat
    BY BlockAddress
  <2>2. n - 1 \in Nat
    OBVIOUS
  <2> QED BY <2>1, <2>2
<1> QED BY <1>1 DEF Refill

LEMMA LeftoverTyped ==
  ASSUME TypeOK
  PROVE  PushLeftover(free_list) \in [Classes -> Seq(Nat)]
<1>1. free_begin \in Nat /\ free_list \in [Classes -> Seq(Nat)]
  BY DEF TypeOK
<1> QED BY <1>1, PushTyped DEF PushLeftover

\* From a reserve that holds a block, one to ONCE_FILL_NUM blocks are cut, and no
\* more than it holds.
LEMMA FromReserve ==
  ASSUME TypeOK, NEW nsize \in Nat \ {0}, BytesLeft >= nsize
  PROVE  /\ ObjectsFromReserve(nsize) \in Nat \ {0}
         /\ nsize * ObjectsFromReserve(nsize) \in Nat
         /\ free_begin + nsize * ObjectsFromReserve(nsize) <= free_end
<1>1. free_begin \in Nat /\ free_end \in Nat /\ BytesLeft \in Nat /\ OnceFillNum \in Nat \ {0}
  BY PoolAssumption DEF TypeOK, BytesLeft
<1>2. CASE BytesLeft >= nsize * OnceFillNum
  <2>1. ObjectsFromReserve(nsize) = OnceFillNum
    BY <1>2 DEF ObjectsFromReserve
  <2>2. nsize * OnceFillNum \in Nat \ {0}
    BY <1>1, ProductPositive
  <2>3. nsize * OnceFillNum <= free_end - free_begin
    BY <1>1, <1>2, <2>2 DEF BytesLeft
  <2>4. free_begin + nsize * OnceFillNum <= free_end
    BY <1>1, <2>2, <2>3
  <2> QED BY <1>1, <2>1, <2>2, <2>4
<1>3. CASE ~(BytesLeft >= nsize * OnceFillNum)
  <2> DEFINE q == BytesLeft \div nsize
  <2>1. ObjectsFromReserve(nsize) = q
    BY <1>3 DEF ObjectsFromReserve
  <2>2. q \in Nat /\ q >= 1 /\ q * nsize <= BytesLeft
    BY <1>1, Quotient, QuotientPositive
  <2>3. nsize * q = q * nsize
    BY <2>2
  <2>4. q * nsize \in Nat \ {0}
    BY <2>2, ProductPositive
  <2>5. free_begin + q * nsize <= free_end
    BY <1>1, <2>2, <2>4 DEF BytesLeft
  <2> QED BY <2>1, <2>2, <2>3, <2>4, <2>5
<1> QED BY <1>2, <1>3

\* A new chunk holds ONCE_FILL_NUM blocks and more.
LEMMA Chunk ==
  ASSUME TypeOK, NEW nsize \in Nat \ {0}
  PROVE  /\ BytesToGet(nsize) \in Nat \ {0} /\ nsize * OnceFillNum \in Nat
         /\ nsize * OnceFillNum <= BytesToGet(nsize)
<1>1. nsize * OnceFillNum \in Nat \ {0} /\ 2 * nsize * OnceFillNum = 2 * (nsize * OnceFillNum)
  BY ProductPositive, PoolAssumption
<1>2. heap_size \div 16 \in Nat
  BY Quotient DEF TypeOK
<1>3. ROUND_UP(heap_size \div 16) \in Nat
  BY <1>2, Rounded
<1> QED BY <1>1, <1>3 DEF BytesToGet

\* What the lock is for: while a thread is inside nobody enters.
LEMMA Alone ==
  ASSUME TypeOK, Held, NEW t \in Threads, NEW u \in Threads, Inside(t), t # u
  PROVE  ~Lock(u) /\ ~Inside(u)
<1>1. CASE Locked
  <2>1. alloc_lock_ = {t}
    BY <1>1 DEF Held
  <2>2. ~Lock(u)
    BY <1>1, <2>1 DEF Lock, mutex!Lock
  <2>3. ASSUME Inside(u) PROVE FALSE
    <3>1. alloc_lock_ = {u}
      BY <1>1, <2>3 DEF Held
    <3> QED BY <2>1, <3>1
  <2> QED BY <2>2, <2>3
<1>2. CASE ~Locked
  <2>1. IsFiniteSet(Threads) /\ Cardinality(Threads) <= 1
    BY <1>2, PoolAssumption
  <2>2. Cardinality({t}) = 1 /\ IsFiniteSet({t})
    BY FS_Singleton
  <2>3. Cardinality({t} \cup {u}) = 2
    BY <2>2, FS_AddElement
  <2>4. Cardinality({t} \cup {u}) <= Cardinality(Threads) /\ Cardinality(Threads) \in Nat
    BY <2>1, FS_Subset, FS_CardinalityType
  <2> QED BY <2>1, <2>3, <2>4
<1> QED BY <1>1, <1>2

LEMMA InitPoolInv == Init => PoolInv
<1> SUFFICES ASSUME Init PROVE PoolInv
  OBVIOUS
<1>1. TypeOK
  <2>1. free_list \in [Classes -> Seq(Nat)] /\ chunk_list \in Seq(Nat)
    BY DEF Init
  <2>2. alloc_lock_ \in SUBSET Threads
    BY DEF Init, mutex!Init
  <2>3. calls \in [Threads -> 0..MaxCalls]
    BY PoolAssumption DEF Init
  <2>4. free_end \in Nat /\ free_begin \in 0..free_end /\ heap_size \in Nat /\ brk \in Nat
    BY PoolAssumption DEF Init, Null
  <2>5. need \in [Threads -> Nat] /\ block \in [Threads -> Nat]
    BY DEF Init, Null
  <2>6. pc \in [Threads -> {"idle", "a_lock", "a_big", "a_unlink", "a_unlock", "a_header",
                                 "f_lock", "f_unlock", "exited"}]
    BY DEF Init
  <2>7. system \subseteq [addr : Nat, size : Nat] /\ live \subseteq [addr : Nat, real : Nat]
        /\ thrown \in BOOLEAN
    BY DEF Init
  <2> QED BY <2>1, <2>2, <2>3, <2>4, <2>5, <2>6, <2>7 DEF TypeOK
<1>2. Held
  BY DEF Init, mutex!Init, Held, Inside
<1>3. HeadThere /\ Sized
  BY DEF Init, HeadThere, Sized
<1> QED BY <1>1, <1>2, <1>3 DEF PoolInv
-----------------------------------------------------------------------------
Pcs == {"idle", "a_lock", "a_big", "a_unlink", "a_unlock", "a_header",
        "f_lock", "f_unlock", "exited"}

\* The types by themselves.
LEMMA Types ==
  ASSUME TypeOK
  PROVE  /\ free_list \in [Classes -> Seq(Nat)] /\ chunk_list \in Seq(Nat)
         /\ free_end \in Nat /\ free_begin \in Nat /\ heap_size \in Nat /\ brk \in Nat
         /\ alloc_lock_ \in SUBSET Threads
         /\ system \subseteq [addr : Nat, size : Nat] /\ live \subseteq [addr : Nat, real : Nat]
         /\ pc \in [Threads -> Pcs] /\ need \in [Threads -> Nat] /\ block \in [Threads -> Nat]
         /\ calls \in [Threads -> 0..MaxCalls] /\ thrown \in BOOLEAN
BY DEF TypeOK, Pcs

\* The class of the call a thread is in.
LEMMA ClassOf ==
  ASSUME TypeOK, Sized, NEW t \in Threads, pc[t] \notin {"idle", "exited"}
  PROVE  /\ need[t] \in Nat \ {0} /\ Class(t) \in Nat /\ ROUND_UP(need[t]) \in Nat \ {0}
         /\ SmallNeed(t) => Class(t) \in Classes
<1>1. need[t] \in Nat \ {0}
  BY Types DEF Sized
<1> QED BY <1>1, Rounded, HasClass DEF Class, SmallNeed

\* What the threads carry, and where they are.
LEMMA StepThreads ==
  ASSUME PoolInv, Next
  PROVE  /\ pc' \in [Threads -> Pcs] /\ need' \in [Threads -> Nat]
         /\ block' \in [Threads -> Nat] /\ calls' \in [Threads -> 0..MaxCalls]
<1>0. /\ pc \in [Threads -> Pcs] /\ need \in [Threads -> Nat] /\ block \in [Threads -> Nat]
      /\ calls \in [Threads -> 0..MaxCalls] /\ live \subseteq [addr : Nat, real : Nat]
      /\ free_list \in [Classes -> Seq(Nat)] /\ brk \in Nat /\ free_begin \in Nat
      /\ MaxCalls \in Nat /\ HeaderSize \in Nat /\ PtrSize \in Nat
  BY Types, PoolAssumption DEF PoolInv
<1>1. pc' \in [Threads -> Pcs]
  <2>1. CASE Destroy
    BY <2>1 DEF Destroy, Pcs
  <2>2. ASSUME NEW t \in Threads, CallAlloc(t) \/ CallFree(t) \/ InCall(t) PROVE pc' \in [Threads -> Pcs]
    <3>1. \E p \in Pcs : pc' = [pc EXCEPT ![t] = p]
      BY <2>2 DEF CallAlloc, CallFree, InCall, PassToMalloc, AllocBig, AllocBigFails, ReadHead,
         Unlink, Carve, Grow, GrowFails, AllocUnlock, StoreHeader, FreeSmall, FreeBig, FreeUnlock,
         Goto, Pcs
    <3> QED BY <1>0, <3>1
  <2> QED BY <2>1, <2>2 DEF Next
<1>2. need' \in [Threads -> Nat]
  <2>1. CASE need' = need
    BY <1>0, <2>1
  <2>2. ASSUME NEW t \in Threads, CallAlloc(t) PROVE need' \in [Threads -> Nat]
    <3>1. PICK n \in Requests : need' = [need EXCEPT ![t] = n + HeaderSize]
      BY <2>2 DEF CallAlloc
    <3>2. n + HeaderSize \in Nat
      BY <1>0, PoolAssumption
    <3> QED BY <1>0, <3>1, <3>2
  <2>3. ASSUME NEW t \in Threads, CallFree(t) PROVE need' \in [Threads -> Nat]
    <3>1. PICK b \in live : need' = [need EXCEPT ![t] = b.real]
      BY <2>3 DEF CallFree
    <3> QED BY <1>0, <3>1
  <2> QED BY <2>1, <2>2, <2>3 DEF Next, Destroy, InCall, PassToMalloc, AllocBig, AllocBigFails,
         ReadHead, Unlink, Carve, Grow, GrowFails, AllocUnlock, StoreHeader, FreeSmall, FreeBig,
         FreeUnlock
<1>3. block' \in [Threads -> Nat]
  <2>1. CASE block' = block
    BY <1>0, <2>1
  <2>2. ASSUME NEW t \in Threads, NEW addr \in Nat, Deliver(t, addr) PROVE block' \in [Threads -> Nat]
    BY <1>0, <2>2 DEF Deliver
  <2>3. ASSUME NEW t \in Threads, CallFree(t) PROVE block' \in [Threads -> Nat]
    <3>1. PICK b \in live : Deliver(t, b.addr)
      BY <2>3 DEF CallFree
    <3> QED BY <1>0, <2>2, <3>1
  <2>4. ASSUME NEW t \in Threads, ReadHead(t) PROVE block' \in [Threads -> Nat]
    <3>1. Class(t) \in Classes
      BY <2>4, ClassOf DEF ReadHead, Goto, PoolInv
    <3>2. Head(free_list[Class(t)]) \in Nat
      BY <1>0, <2>4, <3>1 DEF ReadHead
    <3> QED BY <2>2, <2>4, <3>2 DEF ReadHead
  <2>5. ASSUME NEW t \in Threads, AllocBig(t) \/ StoreHeader(t) \/ Carve(t) \/ Grow(t)
               \/ FreeSmall(t) \/ FreeBig(t)
        PROVE  block' \in [Threads -> Nat]
    <3>1. brk + PtrSize \in Nat /\ Null \in Nat
      BY <1>0 DEF Null
    <3> QED BY <1>0, <2>2, <2>5, <3>1 DEF AllocBig, StoreHeader, Carve, Grow, FreeSmall, FreeBig
  <2> QED BY <2>1, <2>3, <2>4, <2>5 DEF Next, Destroy, InCall, CallAlloc, PassToMalloc, AllocBigFails,
         Unlink, GrowFails, AllocUnlock, FreeUnlock
<1>4. calls' \in [Threads -> 0..MaxCalls]
  <2>1. CASE calls' = calls
    BY <1>0, <2>1
  <2>2. ASSUME NEW t \in Threads, CallAlloc(t) PROVE calls' \in [Threads -> 0..MaxCalls]
    <3>1. calls[t] + 1 \in 0..MaxCalls /\ calls' = [calls EXCEPT ![t] = @ + 1]
      BY <1>0, <2>2 DEF CallAlloc
    <3> QED BY <1>0, <3>1
  <2> QED BY <2>1, <2>2 DEF Next, Destroy, InCall, CallFree, PassToMalloc, AllocBig, AllocBigFails,
         ReadHead, Unlink, Carve, Grow, GrowFails, AllocUnlock, StoreHeader, FreeSmall, FreeBig,
         FreeUnlock
<1> QED BY <1>1, <1>2, <1>3, <1>4

\* What malloc has given out, and what clients own.
LEMMA StepSystem ==
  ASSUME PoolInv, Next
  PROVE  /\ brk' \in Nat /\ system' \subseteq [addr : Nat, size : Nat]
         /\ live' \subseteq [addr : Nat, real : Nat] /\ chunk_list' \in Seq(Nat)
         /\ thrown' \in BOOLEAN
<1>0. /\ need \in [Threads -> Nat] /\ block \in [Threads -> Nat] /\ chunk_list \in Seq(Nat)
      /\ live \subseteq [addr : Nat, real : Nat] /\ brk \in Nat /\ thrown \in BOOLEAN
      /\ system \subseteq [addr : Nat, size : Nat] /\ PtrSize \in Nat
  BY Types, PoolAssumption DEF PoolInv
<1>1. ASSUME NEW size \in Nat, Malloc(size)
      PROVE  brk' \in Nat /\ system' \subseteq [addr : Nat, size : Nat]
  BY <1>0, <1>1 DEF Malloc
<1>2. brk' \in Nat /\ system' \subseteq [addr : Nat, size : Nat]
  <2>1. ASSUME NEW t \in Threads, AllocBig(t) PROVE brk' \in Nat /\ system' \subseteq [addr : Nat, size : Nat]
    BY <1>0, <1>1, <2>1 DEF AllocBig
  <2>2. ASSUME NEW t \in Threads, Grow(t) PROVE brk' \in Nat /\ system' \subseteq [addr : Nat, size : Nat]
    <3>1. ROUND_UP(need[t]) \in Nat \ {0}
      BY <2>2, ClassOf DEF Grow, Goto, PoolInv
    <3>2. BytesToGet(ROUND_UP(need[t])) + PtrSize \in Nat
      BY <1>0, <3>1, Chunk DEF PoolInv
    <3> QED BY <1>1, <2>2, <3>2 DEF Grow
  <2>3. CASE brk' = brk /\ system' \subseteq system
    BY <1>0, <2>3
  <2> QED BY <2>1, <2>2, <2>3 DEF Next, Destroy, InCall, CallAlloc, CallFree, PassToMalloc,
         AllocBigFails, ReadHead, Unlink, Carve, GrowFails, AllocUnlock, StoreHeader, FreeSmall,
         FreeBig, FreeUnlock, mallocVars
<1>3. live' \subseteq [addr : Nat, real : Nat]
  <2>1. ASSUME NEW t \in Threads, StoreHeader(t) PROVE live' \subseteq [addr : Nat, real : Nat]
    BY <1>0, <2>1 DEF StoreHeader
  <2>2. CASE live' \subseteq live
    BY <1>0, <2>2
  <2> QED BY <2>1, <2>2 DEF Next, Destroy, InCall, CallAlloc, CallFree, PassToMalloc, AllocBig,
         AllocBigFails, ReadHead, Unlink, Carve, Grow, GrowFails, AllocUnlock, FreeSmall,
         FreeBig, FreeUnlock
<1>4. chunk_list' \in Seq(Nat)
  <2>1. ASSUME NEW t \in Threads, Grow(t) PROVE chunk_list' \in Seq(Nat)
    BY <1>0, <2>1 DEF Grow, LinkChunk
  <2>2. <<>> \in Seq(Nat)
    OBVIOUS
  <2>3. ASSUME NEW t \in Threads,
               CallAlloc(t) \/ CallFree(t) \/ PassToMalloc(t) \/ AllocBig(t) \/ AllocBigFails(t)
                 \/ ReadHead(t) \/ Unlink(t) \/ Carve(t) \/ GrowFails(t) \/ AllocUnlock(t)
                 \/ StoreHeader(t) \/ FreeSmall(t) \/ FreeBig(t) \/ FreeUnlock(t)
        PROVE  chunk_list' = chunk_list
    BY <2>3 DEF CallAlloc, CallFree, PassToMalloc, AllocBig, AllocBigFails, ReadHead, Unlink, Carve,
       GrowFails, AllocUnlock, StoreHeader, FreeSmall, FreeBig, FreeUnlock, poolVars
  <2>4. CASE Destroy
    BY <2>2, <2>4 DEF Destroy
  <2> QED BY <1>0, <2>1, <2>3, <2>4 DEF Next, InCall
<1>5. thrown' \in BOOLEAN
  BY <1>0 DEF Next, Destroy, InCall, CallAlloc, CallFree, PassToMalloc, AllocBig,
         AllocBigFails, ReadHead, Unlink, Carve, Grow, GrowFails, AllocUnlock, StoreHeader, FreeSmall,
         FreeBig, FreeUnlock
<1> QED BY <1>2, <1>3, <1>4, <1>5

\* The free lists and the reserve.
LEMMA StepLists ==
  ASSUME PoolInv, Next
  PROVE  /\ free_list' \in [Classes -> Seq(Nat)]
         /\ free_end' \in Nat /\ free_begin' \in 0..free_end' /\ heap_size' \in Nat
<1>0. /\ free_list \in [Classes -> Seq(Nat)] /\ free_end \in Nat /\ free_begin \in 0..free_end
      /\ heap_size \in Nat /\ brk \in Nat /\ PtrSize \in Nat /\ block \in [Threads -> Nat]
      /\ OnceFillNum \in Nat \ {0}
  BY Types, PoolAssumption DEF PoolInv, TypeOK
<1>1. CASE UNCHANGED <<free_list, free_begin, free_end, heap_size>>
  BY <1>0, <1>1
<1>2. ASSUME NEW t \in Threads, Unlink(t) PROVE free_list' \in [Classes -> Seq(Nat)]
  <2>1. free_list[Class(t)] # <<>> /\ free_list' = [free_list EXCEPT ![Class(t)] = Tail(@)]
    BY <1>2 DEF Unlink, Goto, PoolInv, HeadThere
  <2>2. ASSUME Class(t) \in Classes PROVE Tail(free_list[Class(t)]) \in Seq(Nat)
    BY <1>0, <2>1, <2>2
  <2> QED BY <1>0, <2>1, <2>2
<1>3. ASSUME NEW t \in Threads, Carve(t)
      PROVE  /\ free_list' \in [Classes -> Seq(Nat)] /\ free_begin' \in 0..free_end
             /\ UNCHANGED <<free_end, heap_size>>
  <2> DEFINE n == ObjectsFromReserve(ROUND_UP(need[t]))
  <2>1. ROUND_UP(need[t]) \in Nat \ {0} /\ Class(t) \in Nat
    BY <1>3, ClassOf DEF Carve, Goto, PoolInv
  <2>2. n \in Nat \ {0} /\ ROUND_UP(need[t]) * n \in Nat /\ free_begin + ROUND_UP(need[t]) * n <= free_end
    BY <1>3, <2>1, FromReserve DEF Carve, PoolInv
  <2>3. /\ free_begin' = free_begin + ROUND_UP(need[t]) * n
        /\ free_list' = Refill(free_list, Class(t), free_begin, n)
        /\ UNCHANGED <<free_end, heap_size>>
    BY <1>3 DEF Carve
  <2> HIDE DEF n
  <2>4. free_begin \in Nat /\ free_begin' \in 0..free_end
    BY <1>0, <2>2, <2>3
  <2> QED BY <1>0, <2>1, <2>2, <2>3, <2>4, RefillTyped
<1>4. ASSUME NEW t \in Threads, Grow(t)
      PROVE  /\ free_list' \in [Classes -> Seq(Nat)]
             /\ free_end' \in Nat /\ free_begin' \in 0..free_end' /\ heap_size' \in Nat
  <2> DEFINE nsize == ROUND_UP(need[t])
             get == BytesToGet(nsize)
             cut == nsize * OnceFillNum
  <2>1. nsize \in Nat \ {0} /\ Class(t) \in Nat
    BY <1>4, ClassOf DEF Grow, Goto, PoolInv
  <2>2. get \in Nat /\ cut \in Nat /\ cut <= get
    BY <2>1, Chunk DEF PoolInv
  <2>3. /\ free_begin' = brk + PtrSize + cut /\ free_end' = brk + PtrSize + get
        /\ heap_size' = heap_size + get
        /\ free_list' = Refill(PushLeftover(free_list), Class(t), brk + PtrSize, OnceFillNum)
    BY <1>4 DEF Grow
  <2>4. PushLeftover(free_list) \in [Classes -> Seq(Nat)]
    BY LeftoverTyped DEF PoolInv
  <2> HIDE DEF get, cut, nsize
  <2>5. brk + PtrSize \in Nat
    BY <1>0
  <2>6. free_list' \in [Classes -> Seq(Nat)]
    BY <1>0, <2>1, <2>3, <2>4, <2>5, RefillTyped
  <2>7. free_end' \in Nat /\ free_begin' \in 0..free_end' /\ heap_size' \in Nat
    BY <1>0, <2>2, <2>3, <2>5
  <2> QED BY <2>6, <2>7
<1>5. ASSUME NEW t \in Threads, GrowFails(t) PROVE free_list' \in [Classes -> Seq(Nat)]
  BY <1>5, LeftoverTyped DEF GrowFails, PoolInv
<1>6. ASSUME NEW t \in Threads, FreeSmall(t) PROVE free_list' \in [Classes -> Seq(Nat)]
  <2>1. block[t] \in Nat
    BY <1>0
  <2> QED BY <1>0, <1>6, <2>1, PushTyped DEF FreeSmall
<1>7. ASSUME NEW t \in Threads, Unlink(t) \/ GrowFails(t) \/ FreeSmall(t)
      PROVE  UNCHANGED <<free_begin, free_end, heap_size>>
  BY <1>7 DEF Unlink, GrowFails, FreeSmall
<1>8. ASSUME NEW t \in Threads,
             CallAlloc(t) \/ CallFree(t) \/ PassToMalloc(t) \/ AllocBig(t) \/ AllocBigFails(t)
               \/ ReadHead(t) \/ AllocUnlock(t) \/ StoreHeader(t) \/ FreeBig(t) \/ FreeUnlock(t)
      PROVE  UNCHANGED <<free_list, free_begin, free_end, heap_size>>
  BY <1>8 DEF CallAlloc, CallFree, PassToMalloc, AllocBig, AllocBigFails, ReadHead, AllocUnlock,
     StoreHeader, FreeBig, FreeUnlock, poolVars
<1>9. CASE Destroy
  BY <1>1, <1>9 DEF Destroy
<1>10. ASSUME NEW t \in Threads, CallAlloc(t) \/ CallFree(t) \/ InCall(t)
       PROVE  /\ free_list' \in [Classes -> Seq(Nat)]
              /\ free_end' \in Nat /\ free_begin' \in 0..free_end' /\ heap_size' \in Nat
  <2>1. CASE Carve(t)
    BY <1>0, <1>3, <2>1
  <2>2. CASE Grow(t)
    BY <1>4, <2>2
  <2>3. CASE Unlink(t) \/ GrowFails(t) \/ FreeSmall(t)
    BY <1>0, <1>2, <1>5, <1>6, <1>7, <2>3
  <2> QED BY <1>1, <1>8, <1>10, <2>1, <2>2, <2>3 DEF InCall
<1> QED BY <1>9, <1>10 DEF Next

\* The lock is held by the thread inside.
LEMMA StepLock ==
  ASSUME PoolInv, Next
  PROVE  alloc_lock_' \in SUBSET Threads /\ Held'
<1>0. alloc_lock_ \in SUBSET Threads /\ pc \in [Threads -> Pcs] /\ Held
  BY Types DEF PoolInv
<1>1. CASE Destroy
  BY <1>0, <1>1 DEF Destroy, Held, Inside
<1>2. ASSUME NEW t \in Threads, NEW from, NEW to, Goto(t, from, to), UNCHANGED alloc_lock_,
             to \in {"a_unlink", "a_unlock", "f_unlock"} => from \in {"a_unlink", "a_unlock", "f_unlock"}
      PROVE  alloc_lock_' \in SUBSET Threads /\ Held'
  BY <1>0, <1>2 DEF Goto, Held, Inside
<1>3. ASSUME NEW t \in Threads, NEW from, NEW to, Goto(t, from, to), Lock(t)
      PROVE  alloc_lock_' \in SUBSET Threads /\ Held'
  BY <1>0, <1>3 DEF Goto, Held, Inside, Lock, mutex!Lock
<1>4. ASSUME NEW t \in Threads, NEW from, NEW to, Goto(t, from, to), Unlock(t),
             from \in {"a_unlink", "a_unlock", "f_unlock"},
             to \notin {"a_unlink", "a_unlock", "f_unlock"}
      PROVE  alloc_lock_' \in SUBSET Threads /\ Held'
  BY <1>0, <1>4 DEF Goto, Held, Inside, Unlock, mutex!Unlock
<1>5. ASSUME NEW t \in Threads, CallAlloc(t) \/ CallFree(t) \/ InCall(t)
      PROVE  alloc_lock_' \in SUBSET Threads /\ Held'
  <2>1. CASE CallAlloc(t) \/ CallFree(t) \/ PassToMalloc(t) \/ AllocBig(t) \/ AllocBigFails(t)
               \/ Unlink(t) \/ StoreHeader(t)
    BY <1>2, <2>1 DEF CallAlloc, CallFree, PassToMalloc, AllocBig, AllocBigFails, Unlink, StoreHeader
  <2>2. CASE ReadHead(t) \/ Carve(t) \/ Grow(t) \/ GrowFails(t) \/ FreeSmall(t) \/ FreeBig(t)
    BY <1>3, <2>2 DEF ReadHead, Carve, Grow, GrowFails, FreeSmall, FreeBig
  <2>3. CASE AllocUnlock(t) \/ FreeUnlock(t)
    BY <1>4, <2>3 DEF AllocUnlock, FreeUnlock
  <2> QED BY <1>5, <2>1, <2>2, <2>3 DEF InCall
<1> QED BY <1>1, <1>5 DEF Next

\* Nobody takes a block between the two steps of the thread that reads the head.
LEMMA StepHead ==
  ASSUME PoolInv, Next
  PROVE  HeadThere'
<1>0. pc \in [Threads -> Pcs] /\ need \in [Threads -> Nat] /\ TypeOK /\ Held /\ HeadThere
  BY Types DEF PoolInv
<1>1. CASE Destroy
  BY <1>1 DEF Destroy, HeadThere
<1>2. ASSUME NEW t \in Threads, CallAlloc(t) \/ CallFree(t) \/ InCall(t),
             NEW u \in Threads, pc'[u] = "a_unlink"
      PROVE  (free_list[Class(u)] # <<>>)'
  <2>1. CASE u = t
    <3>1. ReadHead(t)
      BY <1>0, <1>2, <2>1 DEF CallAlloc, CallFree, InCall, PassToMalloc, AllocBig, AllocBigFails,
         Unlink, Carve, Grow, GrowFails, AllocUnlock, StoreHeader, FreeSmall, FreeBig, FreeUnlock, Goto
    <3> QED BY <2>1, <3>1 DEF ReadHead, Class, poolVars
  <2>2. CASE u # t
    <3>1. pc[u] = "a_unlink"
      BY <1>0, <1>2, <2>2 DEF CallAlloc, CallFree, InCall, PassToMalloc, AllocBig, AllocBigFails,
         ReadHead, Unlink, Carve, Grow, GrowFails, AllocUnlock, StoreHeader, FreeSmall, FreeBig,
         FreeUnlock, Goto
    <3>2. Inside(u)
      BY <3>1 DEF Inside
    <3>3. ~Lock(t) /\ ~Inside(t)
      BY <1>0, <2>2, <3>2, Alone
    <3>4. free_list' = free_list
      BY <1>2, <3>3 DEF CallAlloc, CallFree, InCall, PassToMalloc, AllocBig, AllocBigFails,
         ReadHead, Unlink, Carve, Grow, GrowFails, AllocUnlock, StoreHeader, FreeSmall, FreeBig,
         FreeUnlock, Goto, Inside, poolVars
    <3>5. need'[u] = need[u]
      BY <1>0, <1>2, <2>2 DEF CallAlloc, CallFree, InCall, PassToMalloc, AllocBig, AllocBigFails,
         ReadHead, Unlink, Carve, Grow, GrowFails, AllocUnlock, StoreHeader, FreeSmall, FreeBig,
         FreeUnlock
    <3>6. free_list[Class(u)] # <<>>
      BY <1>0, <3>1 DEF HeadThere
    <3> QED BY <3>4, <3>5, <3>6 DEF Class
  <2> QED BY <2>1, <2>2
<1> QED BY <1>1, <1>2 DEF Next, HeadThere

LEMMA StepSized ==
  ASSUME PoolInv, Next
  PROVE  Sized'
<1>0. /\ pc \in [Threads -> Pcs] /\ need \in [Threads -> Nat] /\ Sized
      /\ live \subseteq [addr : Nat, real : Nat] /\ HeaderSize \in Nat /\ Requests \subseteq Nat \ {0}
  BY Types, PoolAssumption DEF PoolInv
<1>1. CASE Destroy
  BY <1>0, <1>1 DEF Destroy, Sized
<1>2. ASSUME NEW t \in Threads, CallAlloc(t) PROVE Sized'
  <2>1. PICK n \in Requests : need' = [need EXCEPT ![t] = n + HeaderSize]
    BY <1>2 DEF CallAlloc
  <2>2. n + HeaderSize > 0
    BY <1>0
  <2> QED BY <1>0, <1>2, <2>1, <2>2 DEF CallAlloc, Goto, Sized
<1>3. ASSUME NEW t \in Threads, CallFree(t) PROVE Sized'
  <2>1. PICK b \in live : need' = [need EXCEPT ![t] = b.real] /\ live' = live \ {b}
    BY <1>3 DEF CallFree
  <2>2. b.real > 0
    BY <1>0 DEF Sized
  <2> QED BY <1>0, <1>3, <2>1, <2>2 DEF CallFree, Goto, Sized
<1>4. ASSUME NEW t \in Threads, StoreHeader(t) PROVE Sized'
  <2>1. need[t] > 0
    BY <1>0, <1>4 DEF StoreHeader, Goto, Sized
  <2> QED BY <1>0, <1>4, <2>1 DEF StoreHeader, Goto, Sized
<1>5. ASSUME NEW t \in Threads, InCall(t), ~StoreHeader(t) PROVE Sized'
  <2>1. /\ need' = need /\ live' = live /\ pc[t] \notin {"idle", "exited"}
        /\ \E p \in Pcs : pc' = [pc EXCEPT ![t] = p]
    BY <1>5 DEF InCall, PassToMalloc, AllocBig, AllocBigFails,
         ReadHead, Unlink, Carve, Grow, GrowFails, AllocUnlock, FreeSmall, FreeBig,
         FreeUnlock, Goto, Pcs
  <2> QED BY <1>0, <2>1 DEF Sized
<1> QED BY <1>1, <1>2, <1>3, <1>4, <1>5 DEF Next

LEMMA StepPoolInv == PoolInv /\ [Next]_vars => PoolInv'
<1> SUFFICES ASSUME PoolInv, [Next]_vars PROVE PoolInv'
  OBVIOUS
<1>1. CASE Next
  <2>1. TypeOK'
    BY <1>1, StepThreads, StepSystem, StepLists, StepLock DEF TypeOK, Pcs
  <2> QED BY <1>1, <2>1, StepLock, StepHead, StepSized DEF PoolInv
<1>2. CASE UNCHANGED vars
  BY <1>2 DEF vars, PoolInv, TypeOK, Held, Inside, HeadThere, Class, Sized
<1> QED BY <1>1, <1>2

LEMMA PoolInvariance == Spec => []PoolInv
BY InitPoolInv, StepPoolInv, PTL DEF Spec
-----------------------------------------------------------------------------
\* The owners of blocks above __MAX_BYTES.
BigLive == {b \in live : b.real > MaxBytes}
BigCarried == {t \in Threads : block[t] # Null /\ need[t] > MaxBytes}

\* Where a thread carries a block, and of which sizes.
Where == \A t \in Threads :
  /\ pc[t] \in {"idle", "a_lock", "a_big", "f_unlock", "exited"} => block[t] = Null
  /\ pc[t] \in {"a_unlink", "a_unlock"} => need[t] <= MaxBytes
  /\ pc[t] = "a_big" => need[t] > MaxBytes
  /\ pc[t] \in {"a_header", "f_lock"} /\ need[t] > MaxBytes => block[t] # Null

\* A region of the system is a chunk or a big block, and nothing twice.
Addresses == {r.addr : r \in system}
Chunks == {chunk_list[i] : i \in 1..Len(chunk_list)}
BigAddresses == {b.addr : b \in BigLive} \cup {block[t] : t \in BigCarried}

Known == /\ IsFiniteSet(system)
         /\ \A r \in system : 0 < r.addr /\ r.addr < brk
         /\ \A r, s \in system : r.addr = s.addr => r = s
         /\ 0 < brk
         /\ Addresses = Chunks \cup BigAddresses
OnceEach == /\ \A i, j \in 1..Len(chunk_list) : chunk_list[i] = chunk_list[j] => i = j
            /\ Chunks \cap BigAddresses = {}
            /\ \A b, c \in BigLive : b.addr = c.addr => b = c
            /\ \A t, u \in BigCarried : block[t] = block[u] => t = u
            /\ \A b \in BigLive, t \in BigCarried : b.addr # block[t]

Books == Where /\ Known /\ OnceEach

LEMMA InitBooks == Init => Books
<1> SUFFICES ASSUME Init PROVE Books
  OBVIOUS
<1>1. BigLive = {} /\ BigCarried = {}
  BY DEF Init, BigLive, BigCarried
<1>2. Len(chunk_list) = 0 /\ system = {}
  BY DEF Init
<1>3. Addresses = {} /\ Chunks = {} /\ BigAddresses = {}
  BY <1>1, <1>2 DEF Addresses, Chunks, BigAddresses
<1>4. Where
  BY DEF Init, Where
<1>5. Known
  <2>1. 0 < brk
    BY PoolAssumption DEF Init
  <2> QED BY <1>2, <1>3, <2>1, FS_EmptySet DEF Known
<1>6. OnceEach
  BY <1>1, <1>2, <1>3 DEF OnceEach
<1> QED BY <1>4, <1>5, <1>6 DEF Books

\* Every region has an owner: what Known says of it.
LEMMA Owned ==
  ASSUME Known
  PROVE  /\ \A b \in BigLive : b.addr \in Addresses /\ 0 < b.addr /\ b.addr < brk
         /\ \A t \in BigCarried : block[t] \in Addresses /\ 0 < block[t] /\ block[t] < brk
         /\ \A i \in 1..Len(chunk_list) :
              chunk_list[i] \in Addresses /\ 0 < chunk_list[i] /\ chunk_list[i] < brk
<1>1. \A a \in Addresses : 0 < a /\ a < brk
  BY DEF Known, Addresses
<1> QED BY <1>1 DEF Known, Chunks, BigAddresses

\* A step that concerns neither the system nor a big block.
LEMMA Quiet ==
  ASSUME Known, OnceEach, system' = system, chunk_list' = chunk_list, brk' = brk,
         BigLive' = BigLive, BigCarried' = BigCarried, \A t \in BigCarried : block'[t] = block[t]
  PROVE  Known' /\ OnceEach'
<1>1. Addresses' = Addresses /\ Chunks' = Chunks
  BY DEF Addresses, Chunks
<1>2. BigAddresses' = BigAddresses
  BY DEF BigAddresses
<1> QED BY <1>1, <1>2 DEF Known, OnceEach

\* A new region: its address is above all others.
LEMMA NewRegion ==
  ASSUME TypeOK, Known, NEW size \in Nat \ {0}, Malloc(size)
  PROVE  /\ IsFiniteSet(system') /\ 0 < brk' /\ brk \notin Addresses
         /\ \A r \in system' : 0 < r.addr /\ r.addr < brk'
         /\ \A r, s \in system' : r.addr = s.addr => r = s
         /\ Addresses' = Addresses \cup {brk}
<1> DEFINE new == [addr |-> brk, size |-> size]
<1>0. brk \in Nat /\ \A r \in system : r.addr \in Nat
  BY Types
<1>1. system' = system \cup {new} /\ brk' = brk + size
  BY DEF Malloc
<1>2. new.addr = brk
  OBVIOUS
<1> HIDE DEF new
<1>3. \A r \in system : 0 < r.addr /\ r.addr < brk
  BY DEF Known
<1>4. IsFiniteSet(system')
  BY <1>1, FS_AddElement DEF Known
<1>5. \A r \in system' : 0 < r.addr /\ r.addr < brk'
  BY <1>0, <1>1, <1>2, <1>3 DEF Known
<1>6. \A r, s \in system' : r.addr = s.addr => r = s
  BY <1>0, <1>1, <1>2, <1>3 DEF Known
<1>7. Addresses' = Addresses \cup {brk}
  BY <1>1, <1>2 DEF Addresses
<1>8. brk \notin Addresses
  BY <1>0, <1>3 DEF Addresses
<1>9. 0 < brk'
  BY <1>0, <1>1 DEF Known
<1> QED BY <1>4, <1>5, <1>6, <1>7, <1>8, <1>9

\* A thread goes on, and keeps or gives up what it carries.
LEMMA StepWhere ==
  ASSUME PoolInv, Books, Next
  PROVE  Where'
<1>0. /\ pc \in [Threads -> Pcs] /\ need \in [Threads -> Nat] /\ block \in [Threads -> Nat] /\ Where
      /\ MaxBytes \in Nat /\ brk \in Nat /\ 0 < brk
  BY Types, PoolAssumption DEF PoolInv, Books, Known
<1>1. CASE Destroy
  BY <1>0, <1>1 DEF Destroy, Where
<1>2. ASSUME NEW t \in Threads, CallAlloc(t) \/ CallFree(t) \/ InCall(t)
      PROVE  Where'
  <2>1. ASSUME NEW u \in Threads, u # t PROVE pc'[u] = pc[u] /\ need'[u] = need[u] /\ block'[u] = block[u]
    <3>1. pc'[u] = pc[u]
      BY <1>0, <1>2, <2>1 DEF CallAlloc, CallFree, InCall, PassToMalloc, AllocBig, AllocBigFails,
         ReadHead, Unlink, Carve, Grow, GrowFails, AllocUnlock, StoreHeader, FreeSmall, FreeBig,
         FreeUnlock, Goto
    <3>2. need'[u] = need[u]
      BY <1>0, <1>2, <2>1 DEF CallAlloc, CallFree, InCall, PassToMalloc, AllocBig, AllocBigFails,
         ReadHead, Unlink, Carve, Grow, GrowFails, AllocUnlock, StoreHeader, FreeSmall, FreeBig,
         FreeUnlock
    <3>3. block'[u] = block[u]
      BY <1>0, <1>2, <2>1 DEF CallAlloc, CallFree, InCall, PassToMalloc, AllocBig, AllocBigFails,
         ReadHead, Unlink, Carve, Grow, GrowFails, AllocUnlock, StoreHeader, FreeSmall, FreeBig,
         FreeUnlock, Deliver
    <3> QED BY <3>1, <3>2, <3>3
  <2>2. /\ pc'[t] \in {"idle", "a_lock", "a_big", "f_unlock", "exited"} => block'[t] = Null
        /\ pc'[t] \in {"a_unlink", "a_unlock"} => need'[t] <= MaxBytes
        /\ pc'[t] = "a_big" => need'[t] > MaxBytes
        /\ pc'[t] \in {"a_header", "f_lock"} /\ need'[t] > MaxBytes => block'[t] # Null
    <3>1. CASE CallAlloc(t) \/ PassToMalloc(t) \/ AllocBigFails(t) \/ Unlink(t) \/ AllocUnlock(t)
                 \/ GrowFails(t) \/ FreeUnlock(t)
      BY <1>0, <3>1 DEF CallAlloc, PassToMalloc, AllocBigFails, Unlink, AllocUnlock, GrowFails,
         FreeUnlock, Goto, Where
    <3>2. CASE AllocBig(t)
      BY <1>0, <3>2 DEF AllocBig, Goto, Deliver, Where, Null
    <3>3. CASE ReadHead(t) \/ Carve(t) \/ Grow(t)
      BY <1>0, <3>3 DEF ReadHead, Carve, Grow, Goto, SmallNeed
    <3>4. CASE StoreHeader(t) \/ FreeSmall(t) \/ FreeBig(t)
      BY <1>0, <3>4 DEF StoreHeader, FreeSmall, FreeBig, Goto, Deliver
    <3>5. CASE CallFree(t)
      <4>1. PICK b \in live : /\ need' = [need EXCEPT ![t] = b.real] /\ Deliver(t, b.addr)
                             /\ Goto(t, "idle", "f_lock")
        BY <3>5 DEF CallFree
      <4>2. b.real > MaxBytes => 0 < b.addr
        BY Owned DEF BigLive, Books
      <4> QED BY <1>0, <4>1, <4>2 DEF Goto, Deliver, Null
    <3> QED BY <1>2, <3>1, <3>2, <3>3, <3>4, <3>5 DEF InCall
  <2> QED BY <1>0, <2>1, <2>2 DEF Where
<1> QED BY <1>1, <1>2 DEF Next

LEMMA CallAllocBooks == ASSUME PoolInv, Books, NEW t \in Threads, CallAlloc(t) PROVE Known' /\ OnceEach'
<1>1. block[t] = Null
  BY DEF CallAlloc, Goto, Books, Where
<1>2. need \in [Threads -> Nat]
  BY Types DEF PoolInv
<1>3. \A u \in Threads : u # t => need'[u] = need[u]
  BY <1>2 DEF CallAlloc
<1>4. block' = block /\ live' = live /\ UNCHANGED <<system, chunk_list, brk>>
  BY DEF CallAlloc, poolVars, mallocVars
<1>5. BigLive' = BigLive
  BY <1>4 DEF BigLive
<1>6. BigCarried' = BigCarried
  BY <1>1, <1>3, <1>4 DEF BigCarried
<1> QED BY <1>4, <1>5, <1>6, Quiet DEF Books

\* Steps of a call for a size up to __MAX_BYTES, or that carry nothing on.
LEMMA InCallQuiet ==
  ASSUME PoolInv, Books, NEW t \in Threads,
         \/ PassToMalloc(t) \/ AllocBigFails(t) \/ Unlink(t) \/ GrowFails(t) \/ AllocUnlock(t) \/ FreeUnlock(t)
         \/ ReadHead(t) \/ Carve(t) \/ FreeSmall(t)
         \/ StoreHeader(t) /\ need[t] <= MaxBytes
  PROVE  Known' /\ OnceEach'
<1>0. need \in [Threads -> Nat] /\ block \in [Threads -> Nat] /\ MaxBytes \in Nat
  BY Types, PoolAssumption DEF PoolInv
<1>1. need' = need /\ UNCHANGED <<system, chunk_list, brk>>
  BY DEF PassToMalloc, AllocBigFails, Unlink, GrowFails, AllocUnlock, FreeUnlock, ReadHead, Carve,
     FreeSmall, StoreHeader, poolVars, mallocVars
<1>2. \/ block' = block
      \/ need[t] <= MaxBytes /\ \E a : block' = [block EXCEPT ![t] = a]
  BY DEF PassToMalloc, AllocBigFails, Unlink, GrowFails, AllocUnlock, FreeUnlock, ReadHead, Carve,
     FreeSmall, StoreHeader, Deliver, SmallNeed
<1>3. BigCarried' = BigCarried /\ \A u \in BigCarried : block'[u] = block[u]
  <2>1. CASE block' = block
    BY <1>1, <2>1 DEF BigCarried
  <2>2. CASE need[t] <= MaxBytes /\ \E a : block' = [block EXCEPT ![t] = a]
    <3>1. \A u \in Threads : u # t => block'[u] = block[u]
      BY <1>0, <2>2
    <3>2. ~(need[t] > MaxBytes)
      BY <1>0, <2>2
    <3> QED BY <1>1, <3>1, <3>2 DEF BigCarried
  <2> QED BY <1>2, <2>1, <2>2
<1>4. BigLive' = BigLive
  <2>1. CASE live' = live
    BY <2>1 DEF BigLive
  <2>2. CASE StoreHeader(t) /\ need[t] <= MaxBytes
    <3> DEFINE new == [addr |-> block[t], real |-> need[t]]
    <3>1. live' = live \cup {new}
      BY <2>2 DEF StoreHeader
    <3>2. ~(new.real > MaxBytes)
      BY <1>0, <2>2
    <3> HIDE DEF new
    <3> QED BY <3>1, <3>2 DEF BigLive
  <2> QED BY <2>1, <2>2 DEF PassToMalloc, AllocBigFails, Unlink, GrowFails, AllocUnlock, FreeUnlock,
     ReadHead, Carve, FreeSmall
<1> QED BY <1>1, <1>3, <1>4, Quiet DEF Books

\* A block above __MAX_BYTES comes from malloc to the thread.
LEMMA AllocBigBooks == ASSUME PoolInv, Books, NEW t \in Threads, AllocBig(t) PROVE Known' /\ OnceEach'
<1>0. need \in [Threads -> Nat] /\ block \in [Threads -> Nat] /\ MaxBytes \in Nat /\ brk \in Nat
      /\ TypeOK
  BY Types, PoolAssumption DEF PoolInv
<1>1. block[t] = Null /\ need[t] > MaxBytes /\ 0 < brk
  BY DEF AllocBig, Goto, Books, Where, Known
<1>2. Malloc(need[t]) /\ need[t] \in Nat \ {0}
  BY <1>0, <1>1 DEF AllocBig
<1>3. /\ IsFiniteSet(system') /\ 0 < brk' /\ brk \notin Addresses
      /\ \A r \in system' : 0 < r.addr /\ r.addr < brk'
      /\ \A r, s \in system' : r.addr = s.addr => r = s
      /\ Addresses' = Addresses \cup {brk}
  BY <1>0, <1>2, NewRegion DEF Books
<1>4. /\ block' = [block EXCEPT ![t] = brk] /\ need' = need /\ live' = live /\ chunk_list' = chunk_list
  BY DEF AllocBig, Deliver, poolVars
<1>5. BigLive' = BigLive /\ Chunks' = Chunks
  BY <1>4 DEF BigLive, Chunks
<1>6. /\ BigCarried' = BigCarried \cup {t} /\ t \notin BigCarried /\ block'[t] = brk
      /\ \A u \in BigCarried : block'[u] = block[u]
  BY <1>0, <1>1, <1>4 DEF BigCarried, Null
<1>7. BigAddresses' = BigAddresses \cup {brk}
  BY <1>5, <1>6 DEF BigAddresses
<1>8. Addresses = Chunks \cup BigAddresses
  BY DEF Books, Known
<1>9. Known'
  BY <1>3, <1>5, <1>7, <1>8 DEF Known
<1>10. \A b \in BigLive : b.addr # brk
  BY <1>3, Owned DEF Books
<1>11. \A u \in BigCarried : block[u] # brk
  BY <1>3, Owned DEF Books
<1>12. OnceEach'
  BY <1>3, <1>4, <1>5, <1>6, <1>7, <1>8, <1>10, <1>11 DEF Books, OnceEach
<1> QED BY <1>9, <1>12

\* It goes from the thread to the client,
LEMMA StoreHeaderBooks ==
  ASSUME PoolInv, Books, NEW t \in Threads, StoreHeader(t), need[t] > MaxBytes
  PROVE  Known' /\ OnceEach'
<1> DEFINE new == [addr |-> block[t], real |-> need[t]]
<1>0. need \in [Threads -> Nat] /\ block \in [Threads -> Nat]
  BY Types DEF PoolInv
<1>1. block[t] # Null /\ t \in BigCarried
  BY DEF StoreHeader, Goto, Books, Where, BigCarried
<1>2. /\ live' = live \cup {new} /\ block' = [block EXCEPT ![t] = Null] /\ need' = need
      /\ UNCHANGED <<system, chunk_list, brk>>
  BY DEF StoreHeader, Deliver, poolVars, mallocVars
<1>3. new.addr = block[t] /\ new.real = need[t]
  OBVIOUS
<1> HIDE DEF new
<1>4. BigLive' = BigLive \cup {new}
  BY <1>2, <1>3 DEF BigLive
<1>5. BigCarried' = BigCarried \ {t} /\ \A u \in BigCarried' : block'[u] = block[u]
  BY <1>0, <1>2 DEF BigCarried
<1>6. Addresses' = Addresses /\ Chunks' = Chunks
  BY <1>2 DEF Addresses, Chunks
<1>7. BigAddresses' = BigAddresses
  BY <1>1, <1>3, <1>4, <1>5 DEF BigAddresses
<1>8. Known'
  BY <1>2, <1>6, <1>7 DEF Books, Known
<1>9. OnceEach'
  BY <1>1, <1>2, <1>3, <1>4, <1>5, <1>6, <1>7 DEF Books, OnceEach
<1> QED BY <1>8, <1>9

\* and back when the client frees it.
LEMMA CallFreeBooks == ASSUME PoolInv, Books, NEW t \in Threads, CallFree(t) PROVE Known' /\ OnceEach'
<1>0. need \in [Threads -> Nat] /\ block \in [Threads -> Nat] /\ MaxBytes \in Nat
      /\ live \subseteq [addr : Nat, real : Nat]
  BY Types, PoolAssumption DEF PoolInv
<1>1. PICK b \in live : /\ live' = live \ {b} /\ need' = [need EXCEPT ![t] = b.real]
                       /\ block' = [block EXCEPT ![t] = b.addr]
  BY DEF CallFree, Deliver
<1>2. block[t] = Null /\ t \notin BigCarried /\ UNCHANGED <<system, chunk_list, brk>>
  BY DEF CallFree, Goto, Books, Where, BigCarried, poolVars, mallocVars
<1>3. \A u \in Threads : u # t => need'[u] = need[u] /\ block'[u] = block[u]
  BY <1>0, <1>1
<1>4. need'[t] = b.real /\ block'[t] = b.addr
  BY <1>0, <1>1
<1>5. CASE b.real <= MaxBytes
  <2>1. BigLive' = BigLive
    BY <1>0, <1>1, <1>5 DEF BigLive
  <2>2. BigCarried' = BigCarried /\ \A u \in BigCarried : block'[u] = block[u]
    BY <1>0, <1>2, <1>3, <1>4, <1>5 DEF BigCarried
  <2> QED BY <1>2, <2>1, <2>2, Quiet DEF Books
<1>6. CASE b.real > MaxBytes
  <2>1. b \in BigLive /\ b.addr # Null
    BY <1>6, Owned DEF BigLive, Books, Null
  <2>2. BigLive' = BigLive \ {b}
    BY <1>1 DEF BigLive
  <2>3. BigCarried' = BigCarried \cup {t} /\ \A u \in BigCarried : block'[u] = block[u]
    BY <1>2, <1>3, <1>4, <1>6, <2>1 DEF BigCarried
  <2>4. Addresses' = Addresses /\ Chunks' = Chunks
    BY <1>2 DEF Addresses, Chunks
  <2>5. BigAddresses' = BigAddresses
    BY <1>4, <2>1, <2>2, <2>3 DEF BigAddresses
  <2>6. Known'
    BY <1>2, <2>4, <2>5 DEF Books, Known
  <2>7. OnceEach'
    BY <1>2, <1>4, <2>1, <2>2, <2>3, <2>4, <2>5 DEF Books, OnceEach
  <2> QED BY <2>6, <2>7
<1> QED BY <1>0, <1>5, <1>6

\* The region of the block goes back to the system, and no other.
LEMMA FreeBigBooks == ASSUME PoolInv, Books, NEW t \in Threads, FreeBig(t) PROVE Known' /\ OnceEach'
<1>0. need \in [Threads -> Nat] /\ block \in [Threads -> Nat]
  BY Types DEF PoolInv
<1>1. block[t] # Null /\ t \in BigCarried
  BY DEF FreeBig, Goto, Books, Where, BigCarried
<1>2. /\ system' = {r \in system : r.addr # block[t]} /\ block' = [block EXCEPT ![t] = Null]
      /\ UNCHANGED <<chunk_list, brk, need, live>>
  BY DEF FreeBig, Deliver, poolVars
<1>3. BigLive' = BigLive /\ Chunks' = Chunks
  BY <1>2 DEF BigLive, Chunks
<1>4. BigCarried' = BigCarried \ {t} /\ \A u \in BigCarried' : block'[u] = block[u]
  BY <1>0, <1>2 DEF BigCarried
<1>5. Addresses' = Addresses \ {block[t]}
  BY <1>2 DEF Addresses
<1>6. BigAddresses' = BigAddresses \ {block[t]}
  BY <1>1, <1>3, <1>4 DEF BigAddresses, Books, OnceEach
<1>7. block[t] \notin Chunks
  BY <1>1 DEF Books, OnceEach, BigAddresses
<1>8. IsFiniteSet(system')
  BY <1>2, FS_Subset DEF Books, Known
<1>9. Known'
  BY <1>2, <1>3, <1>5, <1>6, <1>7, <1>8 DEF Books, Known
<1>10. OnceEach'
  BY <1>2, <1>3, <1>4, <1>6 DEF Books, OnceEach
<1> QED BY <1>9, <1>10

\* A new chunk is linked in front of the others.
LEMMA GrowBooks == ASSUME PoolInv, Books, NEW t \in Threads, Grow(t) PROVE Known' /\ OnceEach'
<1>0. /\ need \in [Threads -> Nat] /\ block \in [Threads -> Nat] /\ MaxBytes \in Nat /\ brk \in Nat
      /\ chunk_list \in Seq(Nat) /\ PtrSize \in Nat /\ TypeOK
  BY Types, PoolAssumption DEF PoolInv
<1>1. ROUND_UP(need[t]) \in Nat \ {0}
  BY ClassOf DEF Grow, Goto, PoolInv
<1>2. PICK size \in Nat \ {0} : Malloc(size)
  <2> DEFINE get == BytesToGet(ROUND_UP(need[t]))
  <2>1. get \in Nat \ {0}
    BY <1>0, <1>1, Chunk
  <2>2. Malloc(get + PtrSize)
    BY DEF Grow
  <2> HIDE DEF get
  <2>3. get + PtrSize \in Nat \ {0}
    BY <1>0, <2>1
  <2> QED BY <2>2, <2>3
<1>3. /\ IsFiniteSet(system') /\ 0 < brk' /\ brk \notin Addresses
      /\ \A r \in system' : 0 < r.addr /\ r.addr < brk'
      /\ \A r, s \in system' : r.addr = s.addr => r = s
      /\ Addresses' = Addresses \cup {brk}
  BY <1>0, <1>2, NewRegion DEF Books
<1>4. /\ chunk_list' = <<brk>> \o chunk_list /\ live' = live /\ need' = need
      /\ need[t] <= MaxBytes /\ \E a : block' = [block EXCEPT ![t] = a]
  BY DEF Grow, LinkChunk, Deliver, SmallNeed
<1>5. /\ Len(chunk_list') = Len(chunk_list) + 1 /\ Len(chunk_list) \in Nat /\ chunk_list'[1] = brk
      /\ \A i \in 1..Len(chunk_list) : chunk_list'[i + 1] = chunk_list[i]
  BY <1>0, <1>4
<1>6. \A i \in 1..Len(chunk_list') : i = 1 \/ (i - 1 \in 1..Len(chunk_list) /\ chunk_list'[i] = chunk_list[i - 1])
  <2>1. ASSUME NEW i \in 1..Len(chunk_list'), i # 1
        PROVE  i - 1 \in 1..Len(chunk_list) /\ chunk_list'[i] = chunk_list[i - 1]
    <3>1. i - 1 \in 1..Len(chunk_list) /\ (i - 1) + 1 = i
      BY <1>5, <2>1
    <3>2. chunk_list'[(i - 1) + 1] = chunk_list[i - 1]
      BY <1>5, <3>1
    <3> QED BY <3>1, <3>2
  <2> QED BY <2>1
<1>7. Chunks' = Chunks \cup {brk}
  <2>1. \A i \in 1..Len(chunk_list') : chunk_list'[i] \in Chunks \cup {brk}
    BY <1>5, <1>6 DEF Chunks
  <2>2. brk \in Chunks'
    BY <1>5 DEF Chunks
  <2>3. \A i \in 1..Len(chunk_list) : chunk_list[i] \in Chunks'
    <3>1. \A i \in 1..Len(chunk_list) : i + 1 \in 1..Len(chunk_list')
      BY <1>5
    <3> QED BY <1>5, <3>1 DEF Chunks
  <2> QED BY <2>1, <2>2, <2>3 DEF Chunks
<1>8. BigLive' = BigLive
  BY <1>4 DEF BigLive
<1>9. BigCarried' = BigCarried /\ \A u \in BigCarried : block'[u] = block[u]
  <2>1. \A u \in Threads : u # t => block'[u] = block[u]
    BY <1>0, <1>4
  <2>2. ~(need[t] > MaxBytes)
    BY <1>0, <1>4
  <2> QED BY <1>4, <2>1, <2>2 DEF BigCarried
<1>10. BigAddresses' = BigAddresses
  BY <1>8, <1>9 DEF BigAddresses
<1>11. Addresses = Chunks \cup BigAddresses
  BY DEF Books, Known
<1>12. Known'
  BY <1>3, <1>7, <1>10, <1>11 DEF Known
<1>13. \A i \in 1..Len(chunk_list) : chunk_list[i] # brk
  BY <1>3, Owned DEF Books
<1>14. \A i, j \in 1..Len(chunk_list') : chunk_list'[i] = chunk_list'[j] => i = j
  <2>1. ASSUME NEW i \in 1..Len(chunk_list'), NEW j \in 1..Len(chunk_list'),
               i # 1, j # 1, chunk_list'[i] = chunk_list'[j]
        PROVE  i = j
    <3>1. i - 1 = j - 1
      BY <1>6, <2>1 DEF Books, OnceEach
    <3> QED BY <3>1
  <2> QED BY <1>5, <1>6, <1>13, <2>1
<1>15. OnceEach'
  BY <1>3, <1>7, <1>8, <1>9, <1>10, <1>11, <1>14 DEF Books, OnceEach
<1> QED BY <1>12, <1>15

\* The destructor frees the chunks, the blocks of clients stay.
LEMMA DestroyBooks == ASSUME PoolInv, Books, Destroy PROVE Known' /\ OnceEach'
<1>1. /\ system' = {r \in system : r.addr \notin Chunks} /\ chunk_list' = <<>>
      /\ UNCHANGED <<brk, need, live, block>>
  BY DEF Destroy, Chunks
<1>2. BigLive' = BigLive /\ BigCarried' = BigCarried
  BY <1>1 DEF BigLive, BigCarried
<1>3. BigAddresses' = BigAddresses
  BY <1>1, <1>2 DEF BigAddresses
<1>4. Len(chunk_list') = 0
  BY <1>1
<1>5. Chunks' = {}
  BY <1>4 DEF Chunks
<1>6. Addresses' = Addresses \ Chunks
  BY <1>1 DEF Addresses
<1>7. IsFiniteSet(system')
  BY <1>1, FS_Subset DEF Books, Known
<1>8. Known'
  BY <1>1, <1>3, <1>5, <1>6, <1>7 DEF Books, Known, OnceEach
<1>9. OnceEach'
  BY <1>1, <1>2, <1>3, <1>4, <1>5 DEF Books, OnceEach
<1> QED BY <1>8, <1>9

LEMMA StepBooks == PoolInv /\ Books /\ [Next]_vars => Books'
<1> SUFFICES ASSUME PoolInv, Books, [Next]_vars PROVE Books'
  OBVIOUS
<1>1. CASE Next
  <2>1. CASE Destroy
    BY <2>1, DestroyBooks, StepWhere, <1>1 DEF Books
  <2>2. ASSUME NEW t \in Threads, CallAlloc(t) \/ CallFree(t) \/ InCall(t) PROVE Known' /\ OnceEach'
    <3>1. need[t] <= MaxBytes \/ need[t] > MaxBytes
      BY Types, PoolAssumption DEF PoolInv
    <3> QED BY <2>2, <3>1, CallAllocBooks, CallFreeBooks, InCallQuiet, AllocBigBooks,
            StoreHeaderBooks, FreeBigBooks, GrowBooks DEF InCall
  <2> QED BY <1>1, <2>1, <2>2, StepWhere DEF Next, Books
<1>2. CASE UNCHANGED vars
  <2>1. UNCHANGED <<system, chunk_list, brk, live, need, block, pc>>
    BY <1>2 DEF vars
  <2>2. Where'
    BY <2>1 DEF Books, Where
  <2>3. BigLive' = BigLive /\ BigCarried' = BigCarried
    BY <2>1 DEF BigLive, BigCarried
  <2> QED BY <2>1, <2>2, <2>3, Quiet DEF Books
<1> QED BY <1>1, <1>2

LEMMA BooksInvariance == Spec => []Books
<1>1. PoolInv /\ PoolInv' /\ Books /\ [Next]_vars => Books'
  BY StepBooks
<1> QED BY <1>1, InitBooks, PoolInvariance, PTL DEF Spec

\* The numbers agree, since nothing is counted twice.
LEMMA Counted == PoolInv /\ Books => SystemAccounted
<1> SUFFICES ASSUME PoolInv, Books PROVE SystemAccounted
  OBVIOUS
<1>0. chunk_list \in Seq(Nat) /\ Len(chunk_list) \in Nat /\ DOMAIN chunk_list = 1..Len(chunk_list)
  BY Types DEF PoolInv
<1>1. Range(chunk_list) = Chunks
  BY <1>0 DEF Range, Chunks
<1>2. BigBlocks = BigAddresses
  <2>1. \A t \in Threads : pc[t] = "a_unlink" => ~(need[t] > MaxBytes)
    BY Types, PoolAssumption DEF Books, Where, PoolInv
  <2>2. {x \in Carriers : need[x] > MaxBytes} = BigCarried
    BY <2>1 DEF Carriers, BigCarried
  <2> QED BY <2>2 DEF BigBlocks, BigAddresses, BigLive
<1>3. IsFiniteSet(Addresses) /\ Cardinality(Addresses) = Cardinality(system)
  <2> DEFINE f == [r \in system |-> r.addr]
  <2>1. f \in Surjection(system, Addresses)
    BY DEF Surjection, Addresses
  <2>2. f \in Injection(system, Addresses)
    BY DEF Injection, IsInjective, Addresses, Books, Known
  <2> QED BY <2>1, <2>2, FS_Surjection DEF Books, Known
<1>4. IsFiniteSet(Chunks) /\ Cardinality(Chunks) = Len(chunk_list)
  <2> DEFINE g == [i \in 1..Len(chunk_list) |-> chunk_list[i]]
  <2>1. g \in Surjection(1..Len(chunk_list), Chunks)
    BY DEF Surjection, Chunks
  <2>2. g \in Injection(1..Len(chunk_list), Chunks)
    BY DEF Injection, IsInjective, Chunks, Books, OnceEach
  <2>3. IsFiniteSet(1..Len(chunk_list)) /\ Cardinality(1..Len(chunk_list)) = Len(chunk_list)
    <3>1. ASSUME NEW n \in Nat PROVE IsFiniteSet(1..n) /\ Cardinality(1..n) = n
      BY FS_Interval
    <3> QED BY <1>0, <3>1
  <2> HIDE DEF g
  <2>4. IsFiniteSet(Chunks) /\ Cardinality(Chunks) = Cardinality(1..Len(chunk_list))
    BY <2>1, <2>2, <2>3, FS_Surjection
  <2> QED BY <2>3, <2>4
<1>5. Addresses = Chunks \cup BigAddresses /\ Chunks \cap BigAddresses = {}
  BY DEF Books, Known, OnceEach
<1>6. IsFiniteSet(BigAddresses)
  BY <1>3, <1>5, FS_Subset
<1>7. Cardinality(Addresses) = Cardinality(Chunks) + Cardinality(BigAddresses)
  <2>1. Cardinality(Chunks) \in Nat /\ Cardinality(BigAddresses) \in Nat
    BY <1>4, <1>6, FS_CardinalityType
  <2>2. Cardinality(Addresses) = Cardinality(Chunks) + Cardinality(BigAddresses) - Cardinality({})
    BY <1>4, <1>5, <1>6, FS_Union
  <2> QED BY <2>1, <2>2, FS_EmptySet
<1> QED BY <1>1, <1>2, <1>3, <1>4, <1>5, <1>7 DEF SystemAccounted, Addresses
-----------------------------------------------------------------------------
\* The pool keeps its types, with a lock or with one thread: the reserve never
\* runs past its end, and a head that was read is there to be unlinked.
THEOREM TypeCorrect == Spec => []TypeOK
<1>1. PoolInv => TypeOK
  BY DEF PoolInv
<1> QED BY <1>1, PoolInvariance, PTL

\* ~__min_allocator and free give back what chunk_alloc and allocate took: no
\* region of the system leaks, none is freed twice or while a client has it,
\* also when malloc fails and when a refill has thrown.
THEOREM SystemBooks == Spec => []SystemAccounted
BY BooksInvariance, Counted, PoolInvariance, PTL
-----------------------------------------------------------------------------
(***************************************************************************)
(* No byte has two owners.  The memory below brk is covered by pieces with *)
(* an owner each, and a step hands a piece on, divides one, gives one up   *)
(* or adds pieces above brk.  Two things are needed besides: the head that *)
(* a thread has read stays the head until it is unlinked, and the reserve  *)
(* stays a multiple of __ALIGN, or its rest would not be a block of a      *)
(* class when the pool grows.                                              *)
(*                                                                         *)
(* A refill that throws leaves the rest of the reserve on a free list and  *)
(* in the reserve.  It also leaves the lock taken, so that nobody works on *)
(* the lists of a locked pool after it, and clients are safe.              *)
(***************************************************************************)
\* A piece of memory with its owner, told apart by owner and place: an address is
\* on a free list once, so its position there does not matter.
Piece(own, lo, hi) == [own |-> own, lo |-> lo, hi |-> hi]
FreePiece(k, addr) == Piece(<<"free", k>>, addr, addr + ClassSize(k))
ThreadPiece(t, addr, size) == Piece(<<"thread", t>>, addr, addr + Capacity(size))
ClientPiece(b) == Piece(<<"client", 0>>, b.addr, b.addr + Capacity(b.real))
LinkPiece(addr) == Piece(<<"link", 0>>, addr, addr + PtrSize)
ReservePiece(lo, hi) == Piece(<<"reserve", 0>>, lo, hi)

FreeOf(lists) == UNION {{FreePiece(k, lists[k][i]) : i \in 1..Len(lists[k])} : k \in Classes}
Reserve == IF free_begin = free_end THEN {} ELSE {ReservePiece(free_begin, free_end)}
Links == {LinkPiece(addr) : addr \in Chunks}
Carried == {ThreadPiece(t, block[t], need[t]) : t \in Carriers}
Clients == {ClientPiece(b) : b \in live}

\* After a refill that threw only what threads and clients have is looked at.
Owners == Carried \cup Clients
Pool == FreeOf(free_list) \cup Reserve \cup Links
Tiles == Owners \cup (IF thrown THEN {} ELSE Pool)

AllApart(P) == \A p, q \in P : p # q => Disjoint(p, q)
Bounded(P, top) == \A p \in P : /\ p.lo \in Nat /\ p.hi \in Nat
                                /\ 0 < p.lo /\ p.lo <= p.hi /\ p.hi <= top
                                /\ p.own # <<"link", 0>> => p.lo < p.hi

NoDuplicates(lists) == \A k \in Classes : \A i, j \in 1..Len(lists[k]) :
                         lists[k][i] = lists[k][j] => i = j
ClientsUnique == \A b, c \in live : b.addr = c.addr => b = c
CarriersCarry == \A t \in Threads :
  pc[t] \in {"a_unlock", "a_header", "f_lock"} => block[t] # Null
HeadRead == \A t \in Threads : pc[t] = "a_unlink" => block[t] = Head(free_list[Class(t)])
Aligned(x) == \E m \in Nat : x = m * Align
ReserveAligned == Aligned(BytesLeft)
Tiled == /\ AllApart(Tiles) /\ Bounded(Tiles, brk)
         /\ ClientsUnique /\ CarriersCarry
         /\ ~thrown => (NoDuplicates(free_list) /\ HeadRead /\ ReserveAligned)
         /\ thrown => LockedUp

\* An unlocked pool is given up once a refill has thrown.
Sound == Locked \/ ~thrown
TilesInv == Sound => Tiled
-----------------------------------------------------------------------------
\* A piece is given up, and what takes its place lies within it.
LEMMA Replace ==
  ASSUME NEW P, AllApart(P), NEW new, NEW gone \in P, NEW Q, NEW top, Bounded(P, top),
         Q \subseteq (P \ {gone}) \cup new, AllApart(new), Bounded(new, top),
         \A p \in new : gone.lo <= p.lo /\ p.hi <= gone.hi
  PROVE  AllApart(Q) /\ Bounded(Q, top)
<1>1. Bounded(Q, top)
  BY DEF Bounded
<1>2. ASSUME NEW p \in P \ {gone}, NEW q \in new PROVE Disjoint(p, q) /\ Disjoint(q, p)
  <2>1. Disjoint(p, gone)
    BY DEF AllApart
  <2>2. /\ p.lo \in Nat /\ p.hi \in Nat /\ q.lo \in Nat /\ q.hi \in Nat
        /\ gone.lo \in Nat /\ gone.hi \in Nat /\ gone.lo <= q.lo /\ q.hi <= gone.hi
    BY DEF Bounded
  <2> QED BY <2>1, <2>2 DEF Disjoint
<1>3. AllApart(Q)
  BY <1>2 DEF AllApart
<1> QED BY <1>1, <1>3

\* What malloc adds lies above all pieces.
LEMMA AddAbove ==
  ASSUME NEW P, AllApart(P), NEW new, NEW Q, NEW top \in Nat, Bounded(P, top), NEW top2 \in Nat, top <= top2,
         Q \subseteq P \cup new, AllApart(new), Bounded(new, top2), \A p \in new : top <= p.lo
  PROVE  AllApart(Q) /\ Bounded(Q, top2)
<1>1. Bounded(Q, top2)
  <2>1. \A p \in P : p.hi <= top2
    BY DEF Bounded
  <2> QED BY <2>1 DEF Bounded
<1>2. ASSUME NEW p \in P, NEW q \in new PROVE Disjoint(p, q) /\ Disjoint(q, p)
  BY DEF Bounded, Disjoint
<1>3. AllApart(Q)
  BY <1>2 DEF AllApart
<1> QED BY <1>1, <1>3

\* Giving a piece up disturbs nobody.
LEMMA Fewer ==
  ASSUME NEW P, AllApart(P), NEW Q, NEW top, Bounded(P, top), Q \subseteq P
  PROVE  AllApart(Q) /\ Bounded(Q, top)
BY DEF AllApart, Bounded

\* Two owners cannot have the same first byte.
LEMMA SameStart ==
  ASSUME NEW P, AllApart(P), NEW top, Bounded(P, top), NEW p \in P, NEW q \in P, p.lo = q.lo,
         p.own # <<"link", 0>>, q.own # <<"link", 0>>
  PROVE  p = q
<1>1. p.lo \in Nat /\ p.hi \in Nat /\ q.hi \in Nat /\ p.lo < p.hi /\ q.lo < q.hi
  BY DEF Bounded
<1> QED BY <1>1 DEF AllApart, Disjoint

\* The parts of a piece.
LEMMA PieceParts ==
  ASSUME NEW own, NEW lo, NEW hi
  PROVE  Piece(own, lo, hi).own = own /\ Piece(own, lo, hi).lo = lo /\ Piece(own, lo, hi).hi = hi
BY DEF Piece
-----------------------------------------------------------------------------
\* The free lists as sets.
LEMMA FreeMember ==
  ASSUME NEW lists, NEW p
  PROVE  p \in FreeOf(lists) <=> \E k \in Classes : \E i \in 1..Len(lists[k]) : p = FreePiece(k, lists[k][i])
BY DEF FreeOf

LEMMA SameFree ==
  ASSUME NEW k, NEW a, NEW l, NEW b, FreePiece(k, a) = FreePiece(l, b)
  PROVE  k = l /\ a = b
<1>1. <<"free", k>> = <<"free", l>> /\ a = b
  BY PieceParts DEF FreePiece
<1> QED BY <1>1

\* A block put in front of a list, and taken from there.
LEMMA Pushed ==
  ASSUME NEW lists \in [Classes -> Seq(Nat)], NEW k \in Classes, NEW a \in Nat
  PROVE  /\ FreeOf(Push(lists, k, a)) = FreeOf(lists) \cup {FreePiece(k, a)}
         /\ NoDuplicates(lists) /\ FreePiece(k, a) \notin FreeOf(lists) => NoDuplicates(Push(lists, k, a))
<1> DEFINE new == Push(lists, k, a)
<1>1. \A l \in Classes : l # k => new[l] = lists[l]
  BY DEF Push
<1>2. new[k] = <<a>> \o lists[k] /\ lists[k] \in Seq(Nat)
  BY DEF Push
<1> HIDE DEF new
<1>3. /\ Len(new[k]) = Len(lists[k]) + 1 /\ Len(lists[k]) \in Nat /\ new[k][1] = a
      /\ \A i \in 1..Len(lists[k]) : new[k][i + 1] = lists[k][i]
  BY <1>2
<1>4. \A i \in 1..Len(new[k]) : i = 1 \/ (i - 1 \in 1..Len(lists[k]) /\ new[k][i] = lists[k][i - 1])
  <2>1. ASSUME NEW i \in 1..Len(new[k]), i # 1
        PROVE  i - 1 \in 1..Len(lists[k]) /\ new[k][i] = lists[k][i - 1]
    <3>1. i - 1 \in 1..Len(lists[k]) /\ (i - 1) + 1 = i
      BY <1>3, <2>1
    <3>2. new[k][(i - 1) + 1] = lists[k][i - 1]
      BY <1>3, <3>1
    <3> QED BY <3>1, <3>2
  <2> QED BY <2>1
<1>5. ASSUME NEW p \in FreeOf(new) PROVE p \in FreeOf(lists) \cup {FreePiece(k, a)}
  <2>1. PICK l \in Classes : \E i \in 1..Len(new[l]) : p = FreePiece(l, new[l][i])
    BY <1>5, FreeMember
  <2>2. PICK i \in 1..Len(new[l]) : p = FreePiece(l, new[l][i])
    BY <2>1
  <2>3. CASE l # k
    BY <1>1, <2>2, <2>3, FreeMember
  <2>4. CASE l = k
    BY <1>3, <1>4, <2>2, <2>4, FreeMember
  <2> QED BY <2>3, <2>4
<1>6. ASSUME NEW p \in FreeOf(lists) PROVE p \in FreeOf(new)
  <2>1. PICK l \in Classes : \E i \in 1..Len(lists[l]) : p = FreePiece(l, lists[l][i])
    BY <1>6, FreeMember
  <2>2. PICK i \in 1..Len(lists[l]) : p = FreePiece(l, lists[l][i])
    BY <2>1
  <2>3. CASE l # k
    BY <1>1, <2>2, <2>3, FreeMember
  <2>4. CASE l = k
    <3>1. i + 1 \in 1..Len(new[k]) /\ new[k][i + 1] = lists[k][i]
      BY <1>3, <2>2, <2>4
    <3> QED BY <2>2, <2>4, <3>1, FreeMember
  <2> QED BY <2>3, <2>4
<1>7. FreePiece(k, a) \in FreeOf(new)
  BY <1>3, FreeMember
<1>8. ASSUME NoDuplicates(lists), FreePiece(k, a) \notin FreeOf(lists) PROVE NoDuplicates(new)
  <2>1. \A i \in 1..Len(lists[k]) : lists[k][i] # a
    BY <1>8, FreeMember
  <2>2. ASSUME NEW i \in 1..Len(new[k]), NEW j \in 1..Len(new[k]), new[k][i] = new[k][j] PROVE i = j
    <3>1. CASE i = 1 \/ j = 1
      BY <1>3, <1>4, <2>1, <2>2, <3>1
    <3>2. CASE i # 1 /\ j # 1
      <4>1. i - 1 = j - 1
        BY <1>4, <1>8, <2>2, <3>2 DEF NoDuplicates
      <4> QED BY <4>1
    <3> QED BY <3>1, <3>2
  <2> QED BY <1>1, <1>8, <2>2 DEF NoDuplicates
<1>9. FreeOf(new) = FreeOf(lists) \cup {FreePiece(k, a)}
  BY <1>5, <1>6, <1>7
<1> QED BY <1>8, <1>9 DEF new

LEMMA Popped ==
  ASSUME NEW lists \in [Classes -> Seq(Nat)], NEW k \in Classes, lists[k] # <<>>, NoDuplicates(lists)
  PROVE  LET new == [lists EXCEPT ![k] = Tail(@)] IN
         /\ FreeOf(new) = FreeOf(lists) \ {FreePiece(k, Head(lists[k]))}
         /\ FreePiece(k, Head(lists[k])) \in FreeOf(lists)
         /\ NoDuplicates(new)
<1> DEFINE new == [lists EXCEPT ![k] = Tail(@)]
           a == Head(lists[k])
<1>1. \A l \in Classes : l # k => new[l] = lists[l]
  OBVIOUS
<1>2. new[k] = Tail(lists[k]) /\ lists[k] \in Seq(Nat) /\ lists[k] # <<>>
  OBVIOUS
<1> HIDE DEF new
<1>3. /\ Len(new[k]) = Len(lists[k]) - 1 /\ Len(lists[k]) \in Nat \ {0} /\ lists[k][1] = a
      /\ \A i \in 1..Len(new[k]) : new[k][i] = lists[k][i + 1] /\ i + 1 \in 1..Len(lists[k])
  BY <1>2
<1> HIDE DEF a
<1>4. ASSUME NEW p \in FreeOf(new) PROVE p \in FreeOf(lists) /\ p # FreePiece(k, a)
  <2>1. PICK l \in Classes : \E i \in 1..Len(new[l]) : p = FreePiece(l, new[l][i])
    BY <1>4, FreeMember
  <2>2. PICK i \in 1..Len(new[l]) : p = FreePiece(l, new[l][i])
    BY <2>1
  <2>3. CASE l # k
    BY <1>1, <2>2, <2>3, FreeMember, SameFree
  <2>4. CASE l = k
    <3>1. new[k][i] = lists[k][i + 1] /\ i + 1 \in 1..Len(lists[k]) /\ 1 \in 1..Len(lists[k]) /\ i + 1 # 1
      BY <1>3, <2>2, <2>4
    <3>2. new[k][i] # a
      BY <1>3, <3>1 DEF NoDuplicates
    <3>3. p \in FreeOf(lists)
      BY <2>2, <2>4, <3>1, FreeMember
    <3> QED BY <2>2, <2>4, <3>2, <3>3, SameFree
  <2> QED BY <2>3, <2>4
<1>5. ASSUME NEW p \in FreeOf(lists), p # FreePiece(k, a) PROVE p \in FreeOf(new)
  <2>1. PICK l \in Classes : \E i \in 1..Len(lists[l]) : p = FreePiece(l, lists[l][i])
    BY FreeMember
  <2>2. PICK i \in 1..Len(lists[l]) : p = FreePiece(l, lists[l][i])
    BY <2>1
  <2>3. CASE l # k
    BY <1>1, <2>2, <2>3, FreeMember
  <2>4. CASE l = k
    <3>1. i # 1
      BY <1>3, <1>5, <2>2, <2>4
    <3>2. i - 1 \in 1..Len(new[k]) /\ (i - 1) + 1 = i
      BY <1>3, <2>2, <2>4, <3>1
    <3>3. new[k][i - 1] = lists[k][i]
      BY <1>3, <3>2
    <3> QED BY <2>2, <2>4, <3>2, <3>3, FreeMember
  <2> QED BY <2>3, <2>4
<1>6. FreePiece(k, a) \in FreeOf(lists)
  <2>1. 1 \in 1..Len(lists[k])
    BY <1>3
  <2> QED BY <1>3, <2>1, FreeMember
<1>7. NoDuplicates(new)
  <2>1. ASSUME NEW i \in 1..Len(new[k]), NEW j \in 1..Len(new[k]), new[k][i] = new[k][j] PROVE i = j
    <3>1. /\ i + 1 \in 1..Len(lists[k]) /\ j + 1 \in 1..Len(lists[k])
          /\ lists[k][i + 1] = lists[k][j + 1]
      BY <1>3, <2>1
    <3>2. i + 1 = j + 1
      BY <3>1 DEF NoDuplicates
    <3> QED BY <3>2
  <2> QED BY <1>1, <2>1 DEF NoDuplicates
<1>8. FreeOf(new) = FreeOf(lists) \ {FreePiece(k, a)}
  BY <1>4, <1>5
<1> QED BY <1>6, <1>7, <1>8 DEF new, a

\* The blocks cut from addr on, without the first, which is handed out.
Cut(k, addr, n) == {FreePiece(k, addr + i * ClassSize(k)) : i \in 1..n - 1}

LEMMA ClassSizes ==
  ASSUME NEW k \in Classes
  PROVE  k \in Nat /\ ClassSize(k) \in Nat \ {0}
<1>1. k \in Nat /\ Align \in Nat \ {0}
  BY PoolAssumption DEF Classes
<1> QED BY <1>1, ProductPositive DEF ClassSize

LEMMA Multiples ==
  ASSUME NEW c \in Nat \ {0}, NEW i \in Nat, NEW j \in Nat, i < j
  PROVE  i * c \in Nat /\ j * c \in Nat /\ i * c + c <= j * c
<1>1. j = i + 1 + (j - i - 1) /\ j - i - 1 \in Nat
  OBVIOUS
<1>2. j * c = i * c + c + (j - i - 1) * c
  BY <1>1
<1>3. (j - i - 1) * c \in Nat /\ i * c \in Nat /\ j * c \in Nat
  BY <1>1
<1> QED BY <1>2, <1>3

LEMMA Refilled ==
  ASSUME NEW lists \in [Classes -> Seq(Nat)], NEW k \in Classes, NEW addr \in Nat, NEW n \in Nat \ {0},
         lists[k] = <<>>
  PROVE  /\ FreeOf(Refill(lists, k, addr, n)) = FreeOf(lists) \cup Cut(k, addr, n)
         /\ NoDuplicates(lists) => NoDuplicates(Refill(lists, k, addr, n))
<1> DEFINE new == Refill(lists, k, addr, n)
           c == ClassSize(k)
<1>1. \A l \in Classes : l # k => new[l] = lists[l]
  BY DEF Refill
<1>2. new[k] = [i \in 1..n - 1 |-> addr + i * c]
  <2>1. CASE n = 1
    <3>1. new[k] = <<>>
      BY <2>1 DEF Refill
    <3>2. 1..n - 1 = {}
      BY <2>1
    <3>3. [i \in {} |-> addr + i * c] = <<>>
      OBVIOUS
    <3> QED BY <3>1, <3>2, <3>3
  <2>2. CASE n # 1
    BY <2>2 DEF Refill
  <2> QED BY <2>1, <2>2
<1>3. c \in Nat \ {0}
  BY ClassSizes
<1> HIDE DEF new, c
<1>4. \A i \in 1..n - 1 : addr + i * c \in Nat
  <2>1. ASSUME NEW i \in 1..n - 1 PROVE addr + i * c \in Nat
    <3>1. i * c \in Nat \ {0}
      BY <1>3, ProductPositive
    <3> QED BY <3>1
  <2> QED BY <2>1
<1>5. Len(new[k]) = n - 1 /\ \A i \in 1..n - 1 : new[k][i] = addr + i * c
  <2>1. n - 1 \in Nat /\ DOMAIN new[k] = 1..n - 1
    BY <1>2
  <2>2. new[k] \in Seq(Nat)
    BY <1>2, <1>4, <2>1
  <2>3. Len(new[k]) = n - 1
    BY <2>1, <2>2
  <2> QED BY <1>2, <2>3
<1>6. Len(lists[k]) = 0
  OBVIOUS
<1>7. FreeOf(new) = FreeOf(lists) \cup {FreePiece(k, addr + i * c) : i \in 1..n - 1}
  <2>1. ASSUME NEW p \in FreeOf(new)
        PROVE  p \in FreeOf(lists) \cup {FreePiece(k, addr + i * c) : i \in 1..n - 1}
    <3>1. PICK l \in Classes : \E i \in 1..Len(new[l]) : p = FreePiece(l, new[l][i])
      BY FreeMember
    <3>2. PICK i \in 1..Len(new[l]) : p = FreePiece(l, new[l][i])
      BY <3>1
    <3>3. CASE l # k
      BY <1>1, <3>2, <3>3, FreeMember
    <3>4. CASE l = k
      BY <1>5, <3>2, <3>4
    <3> QED BY <3>3, <3>4
  <2>2. ASSUME NEW p \in FreeOf(lists) PROVE p \in FreeOf(new)
    <3>1. PICK l \in Classes : \E i \in 1..Len(lists[l]) : p = FreePiece(l, lists[l][i])
      BY FreeMember
    <3>2. PICK i \in 1..Len(lists[l]) : p = FreePiece(l, lists[l][i])
      BY <3>1
    <3>3. l # k
      BY <1>6, <3>2
    <3> QED BY <1>1, <3>2, <3>3, FreeMember
  <2>3. ASSUME NEW i \in 1..n - 1 PROVE FreePiece(k, addr + i * c) \in FreeOf(new)
    BY <1>5, FreeMember
  <2> QED BY <2>1, <2>2, <2>3
<1>8. ASSUME NoDuplicates(lists) PROVE NoDuplicates(new)
  <2>1. ASSUME NEW i \in 1..n - 1, NEW j \in 1..n - 1, addr + i * c = addr + j * c, i < j PROVE FALSE
    <3>1. i * c \in Nat /\ j * c \in Nat /\ i * c + c <= j * c
      BY <1>3, <2>1, Multiples
    <3> QED BY <1>3, <2>1, <3>1
  <2>2. ASSUME NEW i \in 1..Len(new[k]), NEW j \in 1..Len(new[k]), new[k][i] = new[k][j] PROVE i = j
    <3>1. ~(i < j) /\ ~(j < i)
      BY <1>5, <2>1, <2>2
    <3> QED BY <1>5, <3>1
  <2> QED BY <1>1, <1>8, <2>2 DEF NoDuplicates
<1> QED BY <1>7, <1>8 DEF new, c, Cut
-----------------------------------------------------------------------------
\* A block of a class is as large as the rounded size, which holds the size.
LEMMA RoundsUp ==
  ASSUME NEW n \in Nat \ {0}
  PROVE  ClassSize(GET_FREELIST_IDX(n)) = ROUND_UP(n) /\ n <= ROUND_UP(n)
<1> DEFINE q == (n + Align - 1) \div Align
<1>1. Align \in Nat \ {0} /\ n + Align - 1 \in Nat
  BY PoolAssumption
<1>2. q \in Nat /\ n + Align - 1 < (q + 1) * Align
  BY <1>1, Quotient
<1>3. ROUND_UP(n) = q * Align /\ GET_FREELIST_IDX(n) = q - 1
  BY DEF ROUND_UP, GET_FREELIST_IDX
<1> HIDE DEF q
<1>4. (q - 1) + 1 = q
  BY <1>2
<1>5. (q + 1) * Align = q * Align + Align /\ q * Align \in Nat
  BY <1>1, <1>2
<1>6. n <= q * Align
  BY <1>1, <1>2, <1>5
<1> QED BY <1>3, <1>4, <1>6 DEF ClassSize

LEMMA AtLeast ==
  ASSUME NEW n \in Nat \ {0}
  PROVE  Capacity(n) \in Nat /\ n <= Capacity(n)
<1>1. ROUND_UP(n) \in Nat /\ n <= ROUND_UP(n)
  BY Rounded, RoundsUp
<1> QED BY <1>1 DEF Capacity

\* A size that is a multiple already is not rounded.
LEMMA RoundedAlready ==
  ASSUME NEW m \in Nat
  PROVE  ROUND_UP(m * Align) = m * Align
<1> DEFINE x == m * Align + Align - 1
           q == x \div Align
<1>1. Align \in Nat \ {0} /\ m * Align \in Nat
  BY PoolAssumption
<1>2. x \in Nat
  BY <1>1
<1>3. q \in Nat /\ q * Align <= x /\ x < (q + 1) * Align
  BY <1>1, <1>2, Quotient
<1>4. ROUND_UP(m * Align) = q * Align
  BY DEF ROUND_UP
<1> HIDE DEF q
<1>5. ASSUME q < m PROVE FALSE
  <2>1. q * Align + Align <= m * Align
    BY <1>1, <1>3, <1>5, Multiples
  <2>2. (q + 1) * Align = q * Align + Align
    BY <1>1, <1>3
  <2> QED BY <1>1, <1>2, <1>3, <2>1, <2>2
<1>6. ASSUME m < q PROVE FALSE
  <2>1. m * Align + Align <= q * Align /\ q * Align \in Nat
    BY <1>1, <1>3, <1>6, Multiples
  <2> QED BY <1>1, <1>3, <2>1
<1>7. q = m
  BY <1>3, <1>5, <1>6
<1> QED BY <1>4, <1>7

\* A rounded small size does not pass __MAX_BYTES.
LEMMA ClassFits ==
  ASSUME NEW k \in Classes
  PROVE  ClassSize(k) \in Nat /\ ClassSize(k) <= MaxBytes
<1> DEFINE q == MaxBytes \div Align
<1>1. Align \in Nat \ {0} /\ MaxBytes \in Nat
  BY PoolAssumption
<1>2. q \in Nat /\ q * Align <= MaxBytes
  BY <1>1, Quotient
<1>3. k \in 0..(q - 1)
  BY DEF Classes
<1> HIDE DEF q
<1>4. ASSUME NEW a \in Nat, NEW b \in Nat, a <= b PROVE a * Align <= b * Align /\ a * Align \in Nat /\ b * Align \in Nat
  <2>1. CASE a = b
    BY <1>1, <2>1
  <2>2. CASE a < b
    <3>1. a * Align + Align <= b * Align /\ a * Align \in Nat /\ b * Align \in Nat
      BY <1>1, <2>2, Multiples
    <3> QED BY <1>1, <3>1
  <2> QED BY <1>4, <2>1, <2>2
<1>5. k + 1 \in Nat /\ k + 1 <= q
  BY <1>2, <1>3
<1>6. (k + 1) * Align <= q * Align /\ (k + 1) * Align \in Nat /\ q * Align \in Nat
  BY <1>2, <1>4, <1>5
<1> QED BY <1>1, <1>2, <1>6 DEF ClassSize

\* The rest of a reserve that cannot serve a call is a block of a smaller class.
LEMMA Leftover ==
  ASSUME PoolInv, ReserveAligned, NEW t \in Threads, pc[t] \notin {"idle", "exited"}, SmallNeed(t),
         BytesLeft < ROUND_UP(need[t]), BytesLeft > 0
  PROVE  LET k == GET_FREELIST_IDX(BytesLeft) IN k \in Classes /\ k # Class(t) /\ ClassSize(k) = BytesLeft
<1>1. need[t] \in Nat \ {0} /\ Class(t) \in Classes
  BY ClassOf DEF PoolInv
<1>2. ClassSize(Class(t)) = ROUND_UP(need[t])
  BY <1>1, RoundsUp DEF Class
<1>3. PICK m \in Nat : BytesLeft = m * Align
  BY DEF ReserveAligned, Aligned
<1>4. BytesLeft \in Nat
  BY <1>3, PoolAssumption
<1>5. ROUND_UP(BytesLeft) = BytesLeft
  BY <1>3, RoundedAlready
<1>6. BytesLeft <= MaxBytes
  BY <1>1, <1>2, <1>4, ClassFits, PoolAssumption
<1>7. BytesLeft \in Nat \ {0}
  BY <1>4
<1>8. ClassSize(GET_FREELIST_IDX(BytesLeft)) = BytesLeft /\ GET_FREELIST_IDX(BytesLeft) \in Classes
  BY <1>5, <1>6, <1>7, RoundsUp, HasClass
<1>9. ROUND_UP(need[t]) \in Nat
  BY <1>1, Rounded
<1> QED BY <1>2, <1>4, <1>8, <1>9
-----------------------------------------------------------------------------
\* n blocks of one class cut from addr on, the first handed out, and what is left
\* up to top.
Divides(new, k, addr, n, end, top, first, rest) ==
  /\ k \in Classes /\ addr \in Nat \ {0} /\ n \in Nat \ {0} /\ top \in Nat
  /\ end \in Nat /\ end = addr + n * ClassSize(k) /\ end <= top
  /\ first.own # <<"link", 0>> /\ first.lo = addr /\ first.hi = addr + ClassSize(k)
  /\ \A p, q \in rest : p = q
  /\ \A p \in rest : p.lo = end /\ p.hi = top /\ p.lo < p.hi
  /\ new = Cut(k, addr, n) \cup {first} \cup rest

LEMMA CutApart ==
  ASSUME NEW new, NEW k, NEW addr, NEW n, NEW end, NEW top, NEW first, NEW rest,
         Divides(new, k, addr, n, end, top, first, rest)
  PROVE  AllApart(new) /\ Bounded(new, top) /\ \A p \in new : addr <= p.lo
<1> USE DEF Divides
<1> DEFINE c == ClassSize(k)
           At(p, i) == p.own # <<"link", 0>> /\ p.lo = addr + i * c /\ p.hi = addr + i * c + c
           cut == Cut(k, addr, n) \cup {first}
<1>0. c \in Nat \ {0} /\ n * c \in Nat
  BY ClassSizes, ProductPositive
<1>1. \A p \in cut : \E i \in 0..n - 1 : At(p, i)
  <2>1. At(first, 0) /\ 0 \in 0..n - 1
    BY <1>0
  <2>2. ASSUME NEW i \in 1..n - 1 PROVE At(FreePiece(k, addr + i * c), i) /\ i \in 0..n - 1
    <3>1. <<"free", k>> # <<"link", 0>>
      OBVIOUS
    <3> QED BY <3>1, PieceParts DEF FreePiece
  <2> QED BY <2>1, <2>2 DEF Cut
<1>2. \A p, q \in cut : \A i \in 0..n - 1 : At(p, i) /\ At(q, i) /\ p # q => FALSE
  <2>1. ASSUME NEW p \in cut, NEW i \in 0..n - 1, At(p, i)
        PROVE  p = IF i = 0 THEN first ELSE FreePiece(k, addr + i * c)
    <3>1. CASE p = first
      <4>1. i = 0
        <5>1. i * c = 0
          <6>1. i * c \in Nat
            BY <1>0
          <6> QED BY <1>0, <2>1, <3>1, <6>1
        <5>2. i # 0 => i * c \in Nat \ {0}
          BY <1>0, ProductPositive
        <5> QED BY <5>1, <5>2
      <4> QED BY <3>1, <4>1
    <3>2. CASE p # first
      <4>1. PICK j \in 1..n - 1 : p = FreePiece(k, addr + j * c)
        BY <3>2 DEF Cut
      <4>2. p.lo = addr + j * c
        BY <4>1, PieceParts DEF FreePiece
      <4>3. i * c \in Nat /\ j * c \in Nat
        BY <1>0
      <4>4. i * c = j * c
        BY <2>1, <4>2, <4>3
      <4>5. ~(i < j) /\ ~(j < i)
        <5>1. ASSUME i < j PROVE FALSE
          BY <1>0, <4>3, <4>4, <5>1, Multiples
        <5>2. ASSUME j < i PROVE FALSE
          BY <1>0, <4>3, <4>4, <5>2, Multiples
        <5> QED BY <5>1, <5>2
      <4>6. i = j
        BY <4>5
      <4> QED BY <4>1, <4>6
    <3> QED BY <3>1, <3>2
  <2> QED BY <2>1
<1>3. ASSUME NEW p, NEW q, NEW i \in 0..n - 1, NEW j \in 0..n - 1, At(p, i), At(q, j), i < j PROVE p.hi <= q.lo
  <2>1. i * c \in Nat /\ j * c \in Nat /\ i * c + c <= j * c
    BY <1>0, <1>3, Multiples
  <2> HIDE DEF c
  <2> QED BY <1>0, <1>3, <2>1
<1>4. ASSUME NEW p, NEW i \in 0..n - 1, At(p, i)
      PROVE  /\ p.own # <<"link", 0>> /\ p.lo \in Nat /\ p.hi \in Nat /\ addr <= p.lo /\ p.lo < p.hi
             /\ p.hi <= addr + n * c
  <2>0. i \in Nat /\ n \in Nat /\ i < n
    OBVIOUS
  <2>1. i * c \in Nat /\ i * c + c <= n * c
    BY <1>0, <2>0, Multiples
  <2> HIDE DEF c
  <2> QED BY <1>0, <1>4, <2>1
<1> HIDE DEF cut, c, At
<1>5. ASSUME NEW p \in cut, NEW q \in cut, p # q PROVE Disjoint(p, q)
  <2>1. PICK i \in 0..n - 1 : At(p, i)
    BY <1>1
  <2>2. PICK j \in 0..n - 1 : At(q, j)
    BY <1>1
  <2>3. i < j \/ j < i
    <3>1. i # j
      BY <1>2, <1>5, <2>1, <2>2
    <3> QED BY <3>1
  <2> QED BY <1>3, <2>1, <2>2, <2>3 DEF Disjoint
<1>6. ASSUME NEW p \in cut, NEW q \in rest PROVE Disjoint(p, q) /\ Disjoint(q, p)
  <2>1. p.hi <= addr + n * c
    BY <1>1, <1>4
  <2>2. q.lo = addr + n * c
    BY DEF c
  <2> QED BY <2>1, <2>2 DEF Disjoint
<1>7. AllApart(cut \cup rest)
  BY <1>5, <1>6 DEF AllApart
<1>8. addr + n * c \in Nat /\ addr <= addr + n * c /\ addr + n * c <= top
  BY <1>0 DEF c
<1>9. ASSUME NEW p \in cut \cup rest
      PROVE  /\ p.lo \in Nat /\ p.hi \in Nat /\ 0 < p.lo /\ p.lo < p.hi /\ p.hi <= top /\ addr <= p.lo
  <2>1. CASE p \in cut
    <3>1. p.lo \in Nat /\ p.hi \in Nat /\ addr <= p.lo /\ p.lo < p.hi /\ p.hi <= addr + n * c
      BY <1>1, <1>4, <2>1
    <3> QED BY <1>8, <3>1
  <2>2. CASE p \in rest
    <3>1. p.lo = addr + n * c /\ p.hi = top /\ p.lo < p.hi
      BY <2>2 DEF c
    <3> QED BY <1>8, <3>1
  <2> QED BY <2>1, <2>2
<1>10. Bounded(cut \cup rest, top)
  <2>1. \A p \in cut \cup rest : p.lo \in Nat /\ p.hi \in Nat /\ 0 < p.lo /\ p.lo < p.hi /\ p.hi <= top
    BY <1>9
  <2> QED BY <2>1 DEF Bounded
<1> QED BY <1>7, <1>9, <1>10 DEF cut
-----------------------------------------------------------------------------
\* What one thread carries, and what the others do.
Mine(t) == {ThreadPiece(u, block[u], need[u]) : u \in Carriers \cap {t}}
Others(t) == {ThreadPiece(u, block[u], need[u]) : u \in Carriers \ {t}}

LEMMA OthersStay ==
  ASSUME PoolInv, NEW t \in Threads, CallAlloc(t) \/ CallFree(t) \/ InCall(t)
  PROVE  \A u \in Threads : u # t => pc'[u] = pc[u] /\ need'[u] = need[u] /\ block'[u] = block[u]
<1>0. pc \in [Threads -> Pcs] /\ need \in [Threads -> Nat] /\ block \in [Threads -> Nat]
  BY Types DEF PoolInv
<1>1. \A u \in Threads : u # t => pc'[u] = pc[u]
  BY <1>0 DEF CallAlloc, CallFree, InCall, PassToMalloc, AllocBig, AllocBigFails,
         ReadHead, Unlink, Carve, Grow, GrowFails, AllocUnlock, StoreHeader, FreeSmall, FreeBig,
         FreeUnlock, Goto
<1>2. \A u \in Threads : u # t => need'[u] = need[u]
  BY <1>0 DEF CallAlloc, CallFree, InCall, PassToMalloc, AllocBig, AllocBigFails,
         ReadHead, Unlink, Carve, Grow, GrowFails, AllocUnlock, StoreHeader, FreeSmall, FreeBig,
         FreeUnlock
<1>3. \A u \in Threads : u # t => block'[u] = block[u]
  BY <1>0 DEF CallAlloc, CallFree, InCall, PassToMalloc, AllocBig, AllocBigFails,
         ReadHead, Unlink, Carve, Grow, GrowFails, AllocUnlock, StoreHeader, FreeSmall, FreeBig,
         FreeUnlock, Deliver
<1> QED BY <1>1, <1>2, <1>3

\* A thread that carries nothing, and one that carries its block.
LEMMA MineNow ==
  ASSUME NEW t \in Threads
  PROVE  /\ block[t] = Null \/ pc[t] = "a_unlink" => Mine(t) = {}
         /\ block[t] # Null /\ pc[t] # "a_unlink" => Mine(t) = {ThreadPiece(t, block[t], need[t])}
         /\ block'[t] = Null \/ pc'[t] = "a_unlink" => Mine(t)' = {}
         /\ block'[t] # Null /\ pc'[t] # "a_unlink" => Mine(t)' = {ThreadPiece(t, block'[t], need'[t])}
BY DEF Mine, Carriers, Null

\* The pieces, before and after a step of a thread.
LEMMA Parted ==
  ASSUME PoolInv, NEW t \in Threads, CallAlloc(t) \/ CallFree(t) \/ InCall(t)
  PROVE  /\ Tiles = Others(t) \cup Mine(t) \cup Clients
                    \cup (IF thrown THEN {} ELSE FreeOf(free_list) \cup Reserve \cup Links)
         /\ Tiles' = Others(t) \cup Mine(t)' \cup Clients'
                    \cup (IF thrown' THEN {} ELSE FreeOf(free_list') \cup Reserve' \cup Links')
<1>1. Carried = Others(t) \cup Mine(t) /\ Carried' = Others(t)' \cup Mine(t)'
  BY DEF Carried, Others, Mine
<1>2. Carriers \ {t} = (Carriers \ {t})'
  BY OthersStay DEF Carriers
<1>3. Others(t)' = Others(t)
  <2>1. \A u \in Carriers \ {t} : u \in Threads
    BY DEF Carriers
  <2>2. \A u \in Carriers \ {t} :
           ThreadPiece(u, block'[u], need'[u]) = ThreadPiece(u, block[u], need[u])
    BY <2>1, OthersStay
  <2>3. Others(t)' = {ThreadPiece(u, block'[u], need'[u]) : u \in (Carriers \ {t})'}
    BY DEF Others
  <2> QED BY <1>2, <2>2, <2>3 DEF Others
<1>4. Tiles = Carried \cup Clients
              \cup (IF thrown THEN {} ELSE FreeOf(free_list) \cup Reserve \cup Links)
  BY DEF Tiles, Owners, Pool
<1>5. Tiles' = Carried' \cup Clients'
              \cup (IF thrown' THEN {} ELSE FreeOf(free_list') \cup Reserve' \cup Links')
  BY DEF Tiles, Owners, Pool
<1> QED BY <1>1, <1>3, <1>4, <1>5

Fit(P, top) == AllApart(P) /\ Bounded(P, top)

\* Steps that move no memory.
LEMMA StillFits ==
  ASSUME PoolInv, Books, Tiled, NEW t \in Threads,
         \/ CallAlloc(t) \/ PassToMalloc(t) \/ AllocBigFails(t) \/ ReadHead(t) \/ AllocUnlock(t) \/ FreeUnlock(t)
  PROVE  Tiles' = Tiles /\ Fit(Tiles', brk')
<1>0. pc \in [Threads -> Pcs] /\ need \in [Threads -> Nat] /\ block \in [Threads -> Nat] /\ Where
  BY Types DEF PoolInv, Books
<1>1. UNCHANGED <<live, brk, thrown, free_list, free_begin, free_end, chunk_list>>
  BY DEF CallAlloc, PassToMalloc, AllocBigFails, ReadHead, AllocUnlock, FreeUnlock, poolVars, mallocVars
<1>2. Clients' = Clients /\ Reserve' = Reserve /\ Links' = Links
  BY <1>1 DEF Clients, Reserve, Links, Chunks
<1>3. Mine(t)' = Mine(t)
  <2>1. CASE CallAlloc(t) \/ PassToMalloc(t) \/ AllocBigFails(t) \/ FreeUnlock(t)
    <3>1. block[t] = Null /\ block' = block
      BY <1>0, <2>1 DEF CallAlloc, PassToMalloc, AllocBigFails, FreeUnlock, Goto, Where
    <3> QED BY <3>1, MineNow
  <2>2. CASE ReadHead(t)
    <3>1. block[t] = Null /\ pc'[t] = "a_unlink"
      BY <1>0, <2>2 DEF ReadHead, Goto, Where
    <3> QED BY <3>1, MineNow
  <2>3. CASE AllocUnlock(t)
    <3>1. block' = block /\ need' = need /\ pc[t] # "a_unlink" /\ pc'[t] # "a_unlink"
      BY <1>0, <2>3 DEF AllocUnlock, Goto
    <3> QED BY <3>1, MineNow
  <2> QED BY <2>1, <2>2, <2>3
<1>4. Tiles' = Tiles
  BY <1>1, <1>2, <1>3, Parted DEF InCall
<1> QED BY <1>1, <1>4 DEF Fit, Tiled

\* Who owns the pieces of each kind.
LEMMA OtherKinds ==
  ASSUME NEW lists
  PROVE  /\ \A p \in FreeOf(lists) : p.own[1] = "free"
         /\ \A p \in Reserve : p.own[1] = "reserve"
         /\ \A p \in Links : p.own[1] = "link"
         /\ \A p \in Clients : p.own[1] = "client"
<1>1. \A p \in FreeOf(lists) : p.own[1] = "free"
  <2>1. ASSUME NEW p \in FreeOf(lists) PROVE p.own[1] = "free"
    <3>1. PICK k \in Classes : \E i \in 1..Len(lists[k]) : p = FreePiece(k, lists[k][i])
      BY FreeMember
    <3>2. p.own = <<"free", k>>
      BY <3>1, PieceParts DEF FreePiece
    <3> QED BY <3>2
  <2> QED BY <2>1
<1>2. \A p \in Reserve : p.own[1] = "reserve"
  BY PieceParts DEF Reserve, ReservePiece
<1>3. \A p \in Links : p.own[1] = "link"
  BY PieceParts DEF Links, LinkPiece
<1>4. \A p \in Clients : p.own[1] = "client"
  BY PieceParts DEF Clients, ClientPiece
<1> QED BY <1>1, <1>2, <1>3, <1>4

LEMMA Kinds ==
  ASSUME NEW t \in Threads, NEW lists
  PROVE  /\ \A p \in Others(t) : p.own # <<"thread", t>> /\ p.own[1] = "thread"
         /\ \A p \in FreeOf(lists) : p.own[1] = "free"
         /\ \A p \in Reserve : p.own[1] = "reserve"
         /\ \A p \in Links : p.own[1] = "link"
         /\ \A p \in Clients : p.own[1] = "client"
<1>1. ASSUME NEW p \in Others(t) PROVE p.own # <<"thread", t>> /\ p.own[1] = "thread"
  <2>1. PICK u \in Carriers \ {t} : p = ThreadPiece(u, block[u], need[u])
    BY DEF Others
  <2>2. p.own = <<"thread", u>>
    BY <2>1, PieceParts DEF ThreadPiece
  <2> QED BY <2>2
<1> QED BY <1>1, OtherKinds

\* The places of pieces.
LEMMA ThreadParts ==
  ASSUME NEW t, NEW addr, NEW size
  PROVE  LET p == ThreadPiece(t, addr, size) IN
         /\ p.lo = addr /\ p.hi = addr + Capacity(size)
         /\ p.own = <<"thread", t>> /\ p.own[1] = "thread" /\ p.own # <<"link", 0>>
BY PieceParts DEF ThreadPiece

LEMMA FreeParts ==
  ASSUME NEW k, NEW addr
  PROVE  LET p == FreePiece(k, addr) IN
         p.lo = addr /\ p.hi = addr + ClassSize(k) /\ p.own[1] = "free" /\ p.own # <<"link", 0>>
BY PieceParts DEF FreePiece

LEMMA ClientParts ==
  ASSUME NEW b
  PROVE  LET p == ClientPiece(b) IN
         /\ p.lo = b.addr /\ p.hi = b.addr + Capacity(b.real)
         /\ p.own[1] = "client" /\ p.own # <<"link", 0>>
BY PieceParts DEF ClientPiece

\* What a call of a thread needs: a block of its class when it is small.
LEMMA SmallCapacity ==
  ASSUME PoolInv, NEW t \in Threads, pc[t] \notin {"idle", "exited"}
  PROVE  /\ Capacity(need[t]) \in Nat \ {0}
         /\ SmallNeed(t) => Capacity(need[t]) = ClassSize(Class(t)) /\ Class(t) \in Classes
<1>1. need[t] \in Nat \ {0} /\ ROUND_UP(need[t]) \in Nat \ {0} /\ MaxBytes \in Nat
  BY ClassOf, PoolAssumption DEF PoolInv
<1>2. Capacity(need[t]) \in Nat \ {0}
  BY <1>1 DEF Capacity
<1>3. ASSUME SmallNeed(t) PROVE Capacity(need[t]) = ClassSize(Class(t)) /\ Class(t) \in Classes
  <2>1. Capacity(need[t]) = ROUND_UP(need[t])
    BY <1>1, <1>3 DEF Capacity, SmallNeed
  <2>2. ClassSize(Class(t)) = ROUND_UP(need[t])
    BY <1>1, RoundsUp DEF Class
  <2>3. Class(t) \in Classes
    BY <1>1, <1>3, HasClass DEF Class, SmallNeed
  <2> QED BY <2>1, <2>2, <2>3
<1> QED BY <1>2, <1>3

\* One piece is a tiling of itself.
LEMMA Single ==
  ASSUME NEW p, NEW top, p.lo \in Nat, p.hi \in Nat, 0 < p.lo, p.lo < p.hi, p.hi <= top
  PROVE  AllApart({p}) /\ Bounded({p}, top)
<1>1. AllApart({p})
  BY DEF AllApart
<1>2. Bounded({p}, top)
  BY DEF Bounded
<1> QED BY <1>1, <1>2

\* A piece changes hands.
LEMMA ChangesHands ==
  ASSUME NEW P, NEW Q, NEW top, Fit(P, top), NEW old \in P, NEW p, old.own # <<"link", 0>>,
         p.lo = old.lo, p.hi = old.hi, Q \subseteq (P \ {old}) \cup {p}
  PROVE  Fit(Q, top)
<1>1. old.lo \in Nat /\ old.hi \in Nat /\ 0 < old.lo /\ old.lo < old.hi /\ old.hi <= top
  BY DEF Fit, Bounded
<1>2. AllApart({p}) /\ Bounded({p}, top)
  BY <1>1, Single
<1>3. \A q \in {p} : old.lo <= q.lo /\ q.hi <= old.hi
  BY <1>1
<1> HIDE DEF AllApart, Bounded
<1> QED BY <1>2, <1>3, Replace DEF Fit
-----------------------------------------------------------------------------
\* Nobody is inside a pool whose refill has thrown, so nobody works on its lists.
LEMMA Intact ==
  ASSUME PoolInv, Tiled, Sound, NEW t \in Threads, Lock(t) \/ Inside(t)
  PROVE  ~thrown
<1> SUFFICES ASSUME thrown PROVE FALSE
  OBVIOUS
<1>1. Locked /\ LockedUp
  BY DEF Sound, Tiled
<1> QED BY <1>1 DEF Lock, mutex!Lock, LockedUp

\* The free list of the thread that unlinks.
LEMMA HeadOf ==
  ASSUME PoolInv, Books, Tiled, Sound, NEW t \in Threads, Unlink(t)
  PROVE  /\ ~thrown /\ Class(t) \in Classes /\ free_list[Class(t)] # <<>> /\ NoDuplicates(free_list)
         /\ block[t] = Head(free_list[Class(t)]) /\ block[t] \in Nat
         /\ FreePiece(Class(t), block[t]) \in FreeOf(free_list)
         /\ FreeOf(free_list') = FreeOf(free_list) \ {FreePiece(Class(t), block[t])}
         /\ NoDuplicates(free_list')
<1>1. pc[t] = "a_unlink" /\ Inside(t)
  BY DEF Unlink, Goto, Inside
<1>2. ~thrown
  BY <1>1, Intact
<1>3. SmallNeed(t)
  BY <1>1 DEF Books, Where, SmallNeed
<1>4. Class(t) \in Classes
  BY <1>1, <1>3, SmallCapacity
<1>5. /\ free_list[Class(t)] # <<>> /\ block[t] = Head(free_list[Class(t)]) /\ NoDuplicates(free_list)
  BY <1>1, <1>2 DEF PoolInv, HeadThere, Tiled, HeadRead
<1>6. free_list \in [Classes -> Seq(Nat)] /\ block[t] \in Nat
  BY Types DEF PoolInv
<1>7. free_list' = [free_list EXCEPT ![Class(t)] = Tail(@)]
  BY DEF Unlink
<1> QED BY <1>2, <1>4, <1>5, <1>6, <1>7, Popped

LEMMA UnlinkFits ==
  ASSUME PoolInv, Books, Tiled, Sound, NEW t \in Threads, Unlink(t)
  PROVE  Fit(Tiles', brk') /\ block'[t] # Null
<1> DEFINE old == FreePiece(Class(t), block[t])
           new == ThreadPiece(t, block[t], need[t])
<1>0. pc \in [Threads -> Pcs] /\ Goto(t, "a_unlink", "a_unlock")
  BY Types DEF PoolInv, Unlink
<1>1. /\ ~thrown /\ old \in FreeOf(free_list) /\ FreeOf(free_list') = FreeOf(free_list) \ {old}
  BY HeadOf
<1>2. UNCHANGED <<live, brk, thrown, free_begin, free_end, chunk_list, block, need>>
  BY DEF Unlink, poolVars, mallocVars
<1>3. Clients' = Clients /\ Reserve' = Reserve /\ Links' = Links
  BY <1>2 DEF Clients, Reserve, Links, Chunks
<1>4. old \in Tiles
  BY <1>1 DEF Tiles, Pool
<1>5. block[t] # Null
  <2>1. 0 < old.lo
    BY <1>4 DEF Tiled, Bounded
  <2> QED BY <2>1, FreeParts DEF Null
<1>6. Mine(t)' = {new}
  BY <1>0, <1>2, <1>5, MineNow DEF Goto
<1>7. Mine(t) = {}
  BY <1>0, MineNow DEF Goto
<1>8. old \notin Others(t) \cup Clients \cup Reserve \cup Links
  BY Kinds, FreeParts
<1>9. Tiles' \subseteq (Tiles \ {old}) \cup {new}
  <2>1. Tiles = Others(t) \cup Mine(t) \cup Clients \cup (FreeOf(free_list) \cup Reserve \cup Links)
    BY <1>1, Parted DEF InCall
  <2>2. Tiles' = Others(t) \cup {new} \cup Clients \cup (FreeOf(free_list') \cup Reserve \cup Links)
    BY <1>1, <1>2, <1>3, <1>6, Parted DEF InCall
  <2> HIDE DEF old, new
  <2> QED BY <1>1, <1>8, <2>1, <2>2
<1>10. new.lo = old.lo /\ new.hi = old.hi /\ old.own # <<"link", 0>>
  <2>1. Capacity(need[t]) = ClassSize(Class(t))
    <3>1. SmallNeed(t) /\ pc[t] = "a_unlink"
      BY <1>0 DEF Books, Where, SmallNeed, Goto
    <3> QED BY <3>1, SmallCapacity
  <2> QED BY <2>1, FreeParts, ThreadParts
<1> HIDE DEF old, new
<1>11. Fit(Tiles, brk)
  BY DEF Tiled, Fit
<1>12. Fit(Tiles', brk)
  BY <1>4, <1>9, <1>10, <1>11, ChangesHands
<1> QED BY <1>2, <1>5, <1>12

LEMMA FreeSmallFits ==
  ASSUME PoolInv, Books, Tiled, Sound, NEW t \in Threads, FreeSmall(t)
  PROVE  Fit(Tiles', brk') /\ NoDuplicates(free_list')
<1> DEFINE old == ThreadPiece(t, block[t], need[t])
           new == FreePiece(Class(t), block[t])
<1>0. pc \in [Threads -> Pcs] /\ Goto(t, "f_lock", "f_unlock") /\ block \in [Threads -> Nat]
  BY Types DEF PoolInv, FreeSmall
<1>1. ~thrown
  BY Intact DEF FreeSmall
<1>2. UNCHANGED <<live, brk, thrown, free_begin, free_end, chunk_list, need>>
  BY DEF FreeSmall, poolVars, mallocVars
<1>3. Clients' = Clients /\ Reserve' = Reserve /\ Links' = Links
  BY <1>2 DEF Clients, Reserve, Links, Chunks
<1>4. Mine(t) = {old} /\ block[t] # Null
  BY <1>0, MineNow DEF Goto, Tiled, CarriersCarry
<1>5. Mine(t)' = {}
  <2>1. block'[t] = Null
    BY <1>0 DEF FreeSmall, Deliver
  <2> QED BY <2>1, MineNow
<1>6. Class(t) \in Classes /\ Capacity(need[t]) = ClassSize(Class(t))
  BY <1>0, SmallCapacity DEF FreeSmall, Goto
<1>7. old.own # <<"link", 0>> /\ new.lo = old.lo /\ new.hi = old.hi /\ new.own # <<"link", 0>>
      /\ old.own = <<"thread", t>> /\ old.own[1] = "thread" /\ new.own[1] = "free"
  BY <1>6, FreeParts, ThreadParts
<1>8. /\ FreeOf(free_list') = FreeOf(free_list) \cup {new}
      /\ NoDuplicates(free_list) /\ new \notin FreeOf(free_list) => NoDuplicates(free_list')
  <2>1. free_list' = Push(free_list, Class(t), block[t]) /\ free_list \in [Classes -> Seq(Nat)]
    BY Types DEF FreeSmall, PoolInv
  <2> QED BY <1>0, <1>6, <2>1, Pushed
<1>9. Tiles = Others(t) \cup {old} \cup Clients \cup (FreeOf(free_list) \cup Reserve \cup Links)
  BY <1>1, <1>4, Parted DEF InCall
<1>10. Tiles' = Others(t) \cup Clients \cup (FreeOf(free_list') \cup Reserve \cup Links)
  BY <1>1, <1>2, <1>3, <1>5, Parted DEF InCall
<1> HIDE DEF old, new
<1>11. old \notin Others(t) \cup Clients \cup FreeOf(free_list) \cup Reserve \cup Links
  BY <1>7, Kinds
<1>12. Fit(Tiles, brk) /\ old \in Tiles
  BY <1>9 DEF Tiled, Fit
<1>13. Tiles' \subseteq (Tiles \ {old}) \cup {new}
  BY <1>8, <1>9, <1>10, <1>11
<1>14. Fit(Tiles', brk)
  BY <1>7, <1>12, <1>13, ChangesHands
<1>15. new \notin FreeOf(free_list)
  <2>1. ASSUME new \in FreeOf(free_list) PROVE FALSE
    <3>1. new \in Tiles
      BY <1>9, <2>1
    <3>2. new = old
      BY <1>7, <1>12, <3>1, SameStart DEF Fit
    <3> QED BY <1>7, <3>2
  <2> QED BY <2>1
<1>16. NoDuplicates(free_list)
  BY <1>1 DEF Tiled
<1> QED BY <1>2, <1>8, <1>14, <1>15, <1>16
-----------------------------------------------------------------------------
LEMMA AllocBigFits ==
  ASSUME PoolInv, Books, Tiled, NEW t \in Threads, AllocBig(t)
  PROVE  Fit(Tiles', brk') /\ block'[t] # Null
<1> DEFINE new == ThreadPiece(t, brk, need[t])
<1>0. /\ pc \in [Threads -> Pcs] /\ Goto(t, "a_big", "a_header") /\ block \in [Threads -> Nat]
      /\ brk \in Nat /\ 0 < brk /\ MaxBytes \in Nat /\ need[t] \in Nat
  BY Types, PoolAssumption DEF PoolInv, AllocBig, Books, Known
<1>1. /\ UNCHANGED <<live, need, thrown, free_list, free_begin, free_end, chunk_list>>
      /\ brk' = brk + need[t] /\ block'[t] = brk
  BY <1>0 DEF AllocBig, poolVars, Malloc, Deliver
<1>2. Clients' = Clients /\ Reserve' = Reserve /\ Links' = Links
  BY <1>1 DEF Clients, Reserve, Links, Chunks
<1>3. Capacity(need[t]) = need[t] /\ 0 < need[t]
  BY <1>0 DEF Books, Where, Goto, Capacity
<1>4. Mine(t) = {} /\ Mine(t)' = {new}
  BY <1>0, <1>1, MineNow DEF Goto, Books, Where, Null
<1>5. Tiles' \subseteq Tiles \cup {new}
  BY <1>1, <1>2, <1>4, Parted DEF InCall
<1>6. new.lo = brk /\ new.hi = brk' /\ brk' \in Nat /\ brk <= brk' /\ new.lo < new.hi
  BY <1>0, <1>1, <1>3, ThreadParts
<1> HIDE DEF new
<1>7. AllApart({new}) /\ Bounded({new}, brk')
  BY <1>0, <1>6, Single
<1>8. AllApart(Tiles) /\ Bounded(Tiles, brk) /\ \A p \in {new} : brk <= p.lo
  BY <1>0, <1>6 DEF Tiled
<1>9. Fit(Tiles', brk')
  BY <1>0, <1>5, <1>6, <1>7, <1>8, AddAbove DEF Fit
<1> QED BY <1>0, <1>1, <1>9 DEF Null

LEMMA StoreHeaderFits ==
  ASSUME PoolInv, Books, Tiled, NEW t \in Threads, StoreHeader(t)
  PROVE  Fit(Tiles', brk') /\ ClientsUnique'
<1> DEFINE b == [addr |-> block[t], real |-> need[t]]
           old == ThreadPiece(t, block[t], need[t])
           new == ClientPiece(b)
<1>0. pc \in [Threads -> Pcs] /\ Goto(t, "a_header", "idle") /\ block \in [Threads -> Nat]
  BY Types DEF PoolInv, StoreHeader
<1>1. /\ UNCHANGED <<brk, thrown, free_list, free_begin, free_end, chunk_list>>
      /\ live' = live \cup {b} /\ block'[t] = Null
  BY <1>0 DEF StoreHeader, poolVars, mallocVars, Deliver
<1>2. Clients' = Clients \cup {new} /\ Reserve' = Reserve /\ Links' = Links
  BY <1>1 DEF Clients, Reserve, Links, Chunks
<1>3. Mine(t) = {old} /\ Mine(t)' = {}
  BY <1>0, <1>1, MineNow DEF Goto, Tiled, CarriersCarry
<1>4. old.own # <<"link", 0>> /\ new.lo = old.lo /\ new.hi = old.hi
      /\ old.own = <<"thread", t>> /\ old.own[1] = "thread" /\ old.lo = b.addr
  BY ThreadParts, ClientParts
<1> DEFINE pool == IF thrown THEN {} ELSE FreeOf(free_list) \cup Reserve \cup Links
<1>5. Tiles = Others(t) \cup {old} \cup Clients \cup pool
  BY <1>3, Parted DEF InCall
<1>6. Tiles' = Others(t) \cup Clients \cup {new} \cup pool
  BY <1>1, <1>2, <1>3, Parted DEF InCall
<1>7. old \notin Others(t) \cup Clients \cup pool
  <2>1. old \notin FreeOf(free_list) \cup Reserve \cup Links
    BY <1>4, Kinds
  <2>2. old \notin Others(t) \cup Clients
    BY <1>4, Kinds
  <2> QED BY <2>1, <2>2
<1> HIDE DEF old, new, pool
<1>8. Fit(Tiles, brk) /\ old \in Tiles
  BY <1>5 DEF Tiled, Fit
<1>9. Tiles' \subseteq (Tiles \ {old}) \cup {new}
  BY <1>5, <1>6, <1>7
<1>10. Fit(Tiles', brk)
  BY <1>4, <1>8, <1>9, ChangesHands
<1>11. ASSUME NEW c \in live, c.addr = b.addr PROVE FALSE
  <2>1. ClientPiece(c) \in Clients
    BY DEF Clients
  <2>2. ClientPiece(c).lo = old.lo /\ ClientPiece(c).own # <<"link", 0>>
    BY <1>4, <1>11, ClientParts
  <2>3. ClientPiece(c) \in Tiles
    BY <1>5, <2>1
  <2>4. ClientPiece(c) = old
    BY <1>4, <1>8, <2>2, <2>3, SameStart DEF Fit
  <2> QED BY <1>7, <2>1, <2>4
<1>12. ClientsUnique'
  BY <1>1, <1>11 DEF Tiled, ClientsUnique
<1> QED BY <1>1, <1>10, <1>12

LEMMA CallFreeFits ==
  ASSUME PoolInv, Books, Tiled, NEW t \in Threads, CallFree(t)
  PROVE  Fit(Tiles', brk') /\ ClientsUnique' /\ block'[t] # Null
<1>0. pc \in [Threads -> Pcs] /\ Goto(t, "idle", "f_lock") /\ block \in [Threads -> Nat]
      /\ need \in [Threads -> Nat]
  BY Types DEF PoolInv, CallFree
<1>1. PICK b \in live : live' = live \ {b} /\ need'[t] = b.real /\ block'[t] = b.addr
  BY <1>0 DEF CallFree, Deliver
<1> DEFINE old == ClientPiece(b)
           new == ThreadPiece(t, b.addr, b.real)
<1>2. UNCHANGED <<brk, thrown, free_list, free_begin, free_end, chunk_list>>
  BY DEF CallFree, poolVars, mallocVars
<1>3. Reserve' = Reserve /\ Links' = Links
  BY <1>2 DEF Reserve, Links, Chunks
<1>4. old.own # <<"link", 0>> /\ new.lo = old.lo /\ new.hi = old.hi /\ old.own[1] = "client" /\ old.lo = b.addr
  BY ThreadParts, ClientParts
<1>5. ASSUME NEW c \in live, c # b PROVE ClientPiece(c) # old
  <2>1. c.addr # b.addr
    BY <1>5 DEF Tiled, ClientsUnique
  <2> QED BY <2>1, ClientParts
<1>6. Clients' = Clients \ {old} /\ old \in Clients
  <2>1. Clients' = {ClientPiece(c) : c \in live \ {b}}
    BY <1>1 DEF Clients
  <2> QED BY <1>5, <2>1 DEF Clients
<1> HIDE DEF old, new
<1>7. Fit(Tiles, brk)
  BY DEF Tiled, Fit
<1>8. old \in Tiles
  BY <1>6 DEF Tiles, Owners
<1>9. block'[t] # Null
  <2>1. 0 < old.lo
    BY <1>7, <1>8 DEF Fit, Bounded
  <2> QED BY <1>1, <1>4, <2>1 DEF Null
<1>10. Mine(t) = {} /\ Mine(t)' = {new}
  <2>1. pc'[t] = "f_lock" /\ block[t] = Null
    BY <1>0 DEF Goto, Books, Where
  <2> QED BY <1>1, <1>9, <2>1, MineNow DEF new
<1> DEFINE pool == IF thrown THEN {} ELSE FreeOf(free_list) \cup Reserve \cup Links
<1>11. Tiles = Others(t) \cup Clients \cup pool
  BY <1>10, Parted
<1>12. Tiles' = Others(t) \cup {new} \cup (Clients \ {old}) \cup pool
  BY <1>2, <1>3, <1>6, <1>10, Parted
<1>13. old \notin Others(t) \cup pool
  <2>1. old \notin FreeOf(free_list) \cup Reserve \cup Links
    BY <1>4, Kinds
  <2>2. old \notin Others(t)
    BY <1>4, Kinds
  <2> QED BY <2>1, <2>2
<1> HIDE DEF pool
<1>14. Tiles' \subseteq (Tiles \ {old}) \cup {new}
  BY <1>11, <1>12, <1>13
<1>15. Fit(Tiles', brk)
  BY <1>4, <1>7, <1>8, <1>14, ChangesHands
<1>16. ClientsUnique'
  BY <1>1 DEF Tiled, ClientsUnique
<1> QED BY <1>2, <1>9, <1>15, <1>16

\* Steps after which less is owned.
LEMMA FreeBigFits ==
  ASSUME PoolInv, Books, Tiled, NEW t \in Threads, FreeBig(t)
  PROVE  Fit(Tiles', brk')
<1>0. block \in [Threads -> Nat]
  BY Types DEF PoolInv
<1>1. /\ UNCHANGED <<live, brk, thrown, free_list, free_begin, free_end, chunk_list>>
      /\ block'[t] = Null
  BY <1>0 DEF FreeBig, poolVars, Deliver
<1>2. Clients' = Clients /\ Reserve' = Reserve /\ Links' = Links /\ Mine(t)' = {}
  BY <1>1, MineNow DEF Clients, Reserve, Links, Chunks
<1>3. Tiles' \subseteq Tiles
  BY <1>1, <1>2, Parted DEF InCall
<1> QED BY <1>1, <1>3, Fewer DEF Tiled, Fit

LEMMA GrowFailsFits ==
  ASSUME PoolInv, Books, Tiled, NEW t \in Threads, GrowFails(t)
  PROVE  Fit(Tiles', brk') /\ (Locked => LockedUp')
<1>0. pc \in [Threads -> Pcs] /\ Goto(t, "a_lock", "idle") /\ Lock(t)
  BY Types DEF PoolInv, GrowFails
<1>1. UNCHANGED <<live, brk, block>> /\ thrown'
  BY DEF GrowFails, mallocVars
<1>2. Clients' = Clients /\ Mine(t)' = {}
  BY <1>0, <1>1, MineNow DEF Clients, Goto, Books, Where
<1>3. Tiles' \subseteq Tiles
  BY <1>1, <1>2, Parted DEF InCall
<1>4. ASSUME Locked PROVE LockedUp'
  <2>1. alloc_lock_' = {t} /\ alloc_lock_ = {}
    BY <1>0, <1>4 DEF Lock, mutex!Lock
  <2>2. \A u \in Threads : ~Inside(u)
    BY <1>4, <2>1 DEF PoolInv, Held
  <2>3. \A u \in Threads : ~Inside(u)'
    BY <1>0, <2>2 DEF Inside, Goto
  <2> QED BY <2>1, <2>3 DEF LockedUp
<1> QED BY <1>1, <1>3, <1>4, Fewer DEF Tiled, Fit

LEMMA DestroyFits ==
  ASSUME PoolInv, Tiled, Destroy
  PROVE  Fit(Tiles', brk')
<1>1. UNCHANGED <<live, brk, thrown, free_list, free_begin, free_end, need, block>> /\ chunk_list' = <<>>
  BY DEF Destroy
<1>2. Clients' = Clients /\ Reserve' = Reserve /\ FreeOf(free_list') = FreeOf(free_list)
  BY <1>1 DEF Clients, Reserve
<1>3. Links' = {}
  <2>1. Len(chunk_list') = 0
    BY <1>1
  <2> QED BY <2>1 DEF Links, Chunks
<1>4. Carriers' = Carriers
  <2>1. \A t \in Threads : pc[t] # "a_unlink" /\ pc'[t] # "a_unlink"
    BY DEF Destroy
  <2> QED BY <1>1, <2>1 DEF Carriers
<1>5. Carried' = Carried
  BY <1>1, <1>4 DEF Carried
<1>6. Tiles' = Carried' \cup Clients' \cup (IF thrown' THEN {} ELSE FreeOf(free_list') \cup Reserve' \cup Links')
  BY DEF Tiles, Owners, Pool
<1>7. Tiles' \subseteq Tiles
  BY <1>1, <1>2, <1>3, <1>5, <1>6 DEF Tiles, Owners, Pool
<1> QED BY <1>1, <1>7, Fewer DEF Tiled, Fit
-----------------------------------------------------------------------------
\* Multiples of the alignment.
LEMMA AlignedDifference ==
  ASSUME NEW x \in Nat, NEW y \in Nat, Aligned(x), Aligned(y), y <= x
  PROVE  Aligned(x - y)
<1>1. Align \in Nat \ {0}
  BY PoolAssumption
<1>2. PICK m \in Nat : x = m * Align
  BY DEF Aligned
<1>3. PICK j \in Nat : y = j * Align
  BY DEF Aligned
<1>4. ASSUME m < j PROVE FALSE
  <2>1. m * Align + Align <= j * Align /\ m * Align \in Nat /\ j * Align \in Nat
    BY <1>1, <1>4, Multiples
  <2> QED BY <1>1, <1>2, <1>3, <2>1
<1>5. m - j \in Nat
  BY <1>4
<1>6. x - y = (m - j) * Align
  BY <1>1, <1>2, <1>3
<1> QED BY <1>5, <1>6 DEF Aligned

LEMMA AlignedSum ==
  ASSUME NEW x, NEW y, Aligned(x), Aligned(y)
  PROVE  Aligned(x + y)
<1>1. Align \in Nat \ {0}
  BY PoolAssumption
<1>2. PICK m \in Nat : x = m * Align
  BY DEF Aligned
<1>3. PICK j \in Nat : y = j * Align
  BY DEF Aligned
<1>4. x + y = (m + j) * Align /\ m + j \in Nat
  BY <1>1, <1>2, <1>3
<1> QED BY <1>4 DEF Aligned

LEMMA AlignedProduct ==
  ASSUME NEW x, NEW n \in Nat, Aligned(x)
  PROVE  Aligned(x * n)
<1>1. Align \in Nat \ {0}
  BY PoolAssumption
<1>2. PICK m \in Nat : x = m * Align
  BY DEF Aligned
<1>3. x * n = (m * n) * Align /\ m * n \in Nat
  BY <1>1, <1>2
<1> QED BY <1>3 DEF Aligned

LEMMA AlignedRound ==
  ASSUME NEW n \in Nat
  PROVE  Aligned(ROUND_UP(n))
<1>1. Align \in Nat \ {0} /\ n + Align - 1 \in Nat
  BY PoolAssumption
<1>2. (n + Align - 1) \div Align \in Nat
  BY <1>1, Quotient
<1> QED BY <1>2 DEF Aligned, ROUND_UP

\* A bound may be raised.
LEMMA Higher ==
  ASSUME NEW P, NEW top \in Nat, NEW top2 \in Nat, top <= top2, Bounded(P, top)
  PROVE  Bounded(P, top2)
BY DEF Bounded

\* The reserve, when there is one.
LEMMA ReserveNow ==
  ASSUME PoolInv
  PROVE  /\ free_begin \in Nat /\ free_end \in Nat /\ BytesLeft \in Nat
         /\ BytesLeft > 0 => Reserve = {ReservePiece(free_begin, free_end)} /\ free_begin < free_end
         /\ ~(BytesLeft > 0) => Reserve = {}
BY DEF PoolInv, TypeOK, BytesLeft, Reserve

\* Where blocks are cut from.
LEMMA CarveFits ==
  ASSUME PoolInv, Books, Tiled, Sound, NEW t \in Threads, Carve(t)
  PROVE  Fit(Tiles', brk') /\ block'[t] # Null /\ NoDuplicates(free_list') /\ ReserveAligned'
<1> DEFINE k == Class(t)
           n == ObjectsFromReserve(ROUND_UP(need[t]))
           old == ReservePiece(free_begin, free_end)
           first == ThreadPiece(t, free_begin, need[t])
           new == Cut(k, free_begin, n) \cup {first} \cup Reserve'
<1>0. /\ pc \in [Threads -> Pcs] /\ Goto(t, "a_lock", "a_unlock") /\ block \in [Threads -> Nat]
      /\ free_list \in [Classes -> Seq(Nat)] /\ brk \in Nat /\ SmallNeed(t) /\ free_list[k] = <<>>
      /\ BytesLeft >= ROUND_UP(need[t])
  BY Types DEF PoolInv, Carve
<1>1. ~thrown
  BY Intact DEF Carve
<1>2. /\ k \in Classes /\ Capacity(need[t]) = ClassSize(k) /\ need[t] \in Nat \ {0}
      /\ ROUND_UP(need[t]) = ClassSize(k) /\ ClassSize(k) \in Nat \ {0}
  <2>1. k \in Classes /\ Capacity(need[t]) = ClassSize(k)
    BY <1>0, SmallCapacity DEF Goto
  <2>2. need[t] \in Nat \ {0}
    BY <1>0, ClassOf DEF Goto, PoolInv
  <2>3. ROUND_UP(need[t]) = ClassSize(k)
    BY <2>2, RoundsUp DEF Class
  <2> QED BY <2>1, <2>2, <2>3, ClassSizes
<1>3. /\ n \in Nat \ {0} /\ ClassSize(k) * n \in Nat /\ free_begin + ClassSize(k) * n <= free_end
  BY <1>0, <1>2, FromReserve DEF PoolInv
<1>4. /\ UNCHANGED <<live, brk, thrown, free_end, chunk_list, need>>
      /\ free_begin' = free_begin + ClassSize(k) * n /\ block'[t] = free_begin
      /\ free_list' = Refill(free_list, k, free_begin, n)
  BY <1>0, <1>2 DEF Carve, mallocVars, Deliver
<1>5. free_begin \in Nat /\ free_end \in Nat /\ Reserve = {old} /\ free_begin < free_end
  BY <1>0, <1>2, ReserveNow
<1>6. old.lo = free_begin /\ old.hi = free_end /\ old.own[1] = "reserve"
  BY PieceParts DEF ReservePiece
<1>7. first.lo = free_begin /\ first.hi = free_begin + ClassSize(k) /\ first.own # <<"link", 0>>
  BY <1>2, ThreadParts
<1> HIDE DEF old, first, k, n
<1>8. ReserveAligned'
  <2>1. Aligned(ClassSize(k) * n)
    <3>1. Aligned(ClassSize(k))
      BY <1>2, AlignedRound
    <3> QED BY <1>3, <3>1, AlignedProduct
  <2>2. Aligned(BytesLeft) /\ BytesLeft \in Nat /\ ClassSize(k) * n <= BytesLeft
    BY <1>1, <1>3, <1>5 DEF Tiled, ReserveAligned, BytesLeft
  <2>3. Aligned(BytesLeft - ClassSize(k) * n)
    BY <1>3, <2>1, <2>2, AlignedDifference
  <2>4. BytesLeft' = BytesLeft - ClassSize(k) * n
    BY <1>3, <1>4, <1>5 DEF BytesLeft
  <2> QED BY <2>3, <2>4 DEF ReserveAligned
<1>9. FreeOf(free_list') = FreeOf(free_list) \cup Cut(k, free_begin, n) /\ NoDuplicates(free_list')
  <2>1. NoDuplicates(free_list)
    BY <1>1 DEF Tiled
  <2> QED BY <1>0, <1>2, <1>3, <1>4, <1>5, <2>1, Refilled
<1>10. Fit(Tiles, brk) /\ old \in Tiles
  BY <1>1, <1>5 DEF Tiled, Fit, Tiles, Pool
<1>11. free_begin \in Nat \ {0} /\ free_end <= brk
  BY <1>5, <1>6, <1>10 DEF Fit, Bounded
<1>12. free_begin' \in Nat /\ free_begin' = free_begin + n * ClassSize(k) /\ free_begin' <= free_end
  <2>1. n * ClassSize(k) = ClassSize(k) * n
    BY <1>2, <1>3
  <2> QED BY <1>3, <1>4, <1>5, <2>1
<1>13. /\ \A p, q \in Reserve' : p = q
       /\ \A p \in Reserve' : p.lo = free_begin' /\ p.hi = free_end /\ p.lo < p.hi
  <2>1. Reserve' \subseteq {ReservePiece(free_begin', free_end)} /\ (free_begin' = free_end => Reserve' = {})
    BY <1>4 DEF Reserve
  <2>2. ReservePiece(free_begin', free_end).lo = free_begin' /\ ReservePiece(free_begin', free_end).hi = free_end
    BY PieceParts DEF ReservePiece
  <2> QED BY <1>5, <1>12, <2>1, <2>2
<1>14. AllApart(new) /\ Bounded(new, free_end) /\ \A p \in new : free_begin <= p.lo
  <2>1. k \in Classes /\ free_begin \in Nat \ {0} /\ n \in Nat \ {0} /\ free_end \in Nat
    BY <1>2, <1>3, <1>5, <1>11
  <2> HIDE DEF new
  <2>2. new = Cut(k, free_begin, n) \cup {first} \cup Reserve'
    BY DEF new
  <2>3. Divides(new, k, free_begin, n, free_begin', free_end, first, Reserve')
    BY <1>7, <1>12, <1>13, <2>1, <2>2 DEF Divides
  <2> QED BY <2>3, CutApart
<1>15. Bounded(new, brk) /\ \A p \in new : old.lo <= p.lo /\ p.hi <= old.hi
  <2>1. \A p \in new : p.hi <= free_end
    BY <1>14 DEF Bounded
  <2> QED BY <1>0, <1>5, <1>6, <1>11, <1>14, <2>1, Higher
<1>16. Mine(t) = {} /\ Mine(t)' = {first} /\ block'[t] # Null
  BY <1>0, <1>4, <1>11, MineNow DEF Goto, Books, Where, first, Null
<1>17. Clients' = Clients /\ Links' = Links
  BY <1>4 DEF Clients, Links, Chunks
<1>18. old \notin Others(t) \cup Clients \cup FreeOf(free_list) \cup Links
  BY <1>6, Kinds
<1>19. Tiles' \subseteq (Tiles \ {old}) \cup new
  <2>1. Tiles = Others(t) \cup Clients \cup (FreeOf(free_list) \cup Reserve \cup Links)
    BY <1>1, <1>16, Parted DEF InCall
  <2>2. Tiles' = Others(t) \cup {first} \cup Clients \cup (FreeOf(free_list') \cup Reserve' \cup Links)
    BY <1>1, <1>4, <1>16, <1>17, Parted DEF InCall
  <2> QED BY <1>9, <1>18, <2>1, <2>2
<1> HIDE DEF new
<1>20. Fit(Tiles', brk)
  BY <1>10, <1>14, <1>15, <1>19, Replace DEF Fit
<1> QED BY <1>4, <1>8, <1>9, <1>16, <1>20
-----------------------------------------------------------------------------
\* chunk_alloc gives the rest of the reserve to a free list.
LEMMA LeftoverFits ==
  ASSUME PoolInv, Books, Tiled, ~thrown, NEW t \in Threads, pc[t] = "a_lock", SmallNeed(t),
         free_list[Class(t)] = <<>>, BytesLeft < ROUND_UP(need[t])
  PROVE  LET lists == PushLeftover(free_list) IN
         /\ lists \in [Classes -> Seq(Nat)] /\ lists[Class(t)] = <<>> /\ NoDuplicates(lists)
         /\ Fit(Others(t) \cup Clients \cup FreeOf(lists) \cup Links, brk)
         /\ Tiles = Others(t) \cup Clients \cup FreeOf(free_list) \cup Reserve \cup Links
<1> DEFINE lists == PushLeftover(free_list)
           rest == Others(t) \cup Clients \cup FreeOf(lists) \cup Links
<1>1. free_list \in [Classes -> Seq(Nat)] /\ lists \in [Classes -> Seq(Nat)] /\ NoDuplicates(free_list)
  BY Types, LeftoverTyped DEF PoolInv, Tiled
<1>2. Mine(t) = {}
  BY MineNow DEF Books, Where
<1>3. Tiles = Others(t) \cup Clients \cup FreeOf(free_list) \cup Reserve \cup Links
  <2>1. Carried = Others(t) \cup Mine(t)
    BY DEF Carried, Others, Mine
  <2> QED BY <1>2, <2>1 DEF Tiles, Owners, Pool
<1>4. Fit(Tiles, brk)
  BY DEF Tiled, Fit
<1>5. CASE ~(BytesLeft > 0)
  <2>1. lists = free_list
    BY <1>5 DEF PushLeftover
  <2>2. rest \subseteq Tiles
    BY <1>3, <2>1
  <2>3. Fit(rest, brk)
    BY <1>4, <2>2, Fewer DEF Fit
  <2> QED BY <1>1, <1>3, <2>1, <2>3
<1>6. CASE BytesLeft > 0
  <2> DEFINE k == GET_FREELIST_IDX(BytesLeft)
             old == ReservePiece(free_begin, free_end)
             new == FreePiece(k, free_begin)
  <2>1. k \in Classes /\ k # Class(t) /\ ClassSize(k) = BytesLeft
    BY <1>6, Leftover DEF Tiled
  <2>2. free_begin \in Nat /\ free_end \in Nat /\ Reserve = {old} /\ free_begin < free_end
    BY <1>6, ReserveNow
  <2>3. lists = Push(free_list, k, free_begin)
    BY <1>6 DEF PushLeftover
  <2>4. lists[Class(t)] = <<>>
    BY <1>1, <2>1, <2>3 DEF Push
  <2>5. /\ FreeOf(lists) = FreeOf(free_list) \cup {new}
        /\ new \notin FreeOf(free_list) => NoDuplicates(lists)
    <3> HIDE DEF lists, k
    <3> QED BY <1>1, <2>1, <2>2, <2>3, Pushed
  <2>6. /\ old.lo = free_begin /\ old.hi = free_end /\ old.own[1] = "reserve" /\ old.own # <<"link", 0>>
        /\ new.lo = old.lo /\ new.hi = old.hi /\ new.own[1] = "free" /\ new.own # <<"link", 0>>
    <3>1. free_begin + BytesLeft = free_end
      BY <2>2 DEF BytesLeft
    <3>2. old.lo = free_begin /\ old.hi = free_end /\ old.own = <<"reserve", 0>>
      BY PieceParts DEF ReservePiece
    <3>3. new.lo = free_begin /\ new.hi = free_end
      BY <2>1, <3>1, FreeParts
    <3> QED BY <3>2, <3>3, FreeParts
  <2> HIDE DEF lists, k, old, new
  <2>7. old \in Tiles /\ old \notin Others(t) \cup Clients \cup FreeOf(free_list) \cup Links
    <3>1. old \notin Others(t) \cup Clients \cup FreeOf(free_list) \cup Links
      BY <2>6, Kinds
    <3> QED BY <1>3, <2>2, <3>1
  <2>8. rest \subseteq (Tiles \ {old}) \cup {new}
    BY <1>3, <2>5, <2>7
  <2> HIDE DEF rest
  <2>9. Fit(rest, brk)
    BY <1>4, <2>6, <2>7, <2>8, ChangesHands
  <2>10. new \notin FreeOf(free_list)
    <3>1. ASSUME new \in FreeOf(free_list) PROVE FALSE
      <4>1. new \in Tiles
        BY <1>3, <3>1
      <4>2. new = old
        BY <1>4, <2>6, <2>7, <4>1, SameStart DEF Fit
      <4> QED BY <2>6, <4>2
    <3> QED BY <3>1
  <2> QED BY <1>1, <1>3, <2>4, <2>5, <2>9, <2>10 DEF lists, rest
<1> QED BY <1>5, <1>6

\* A new chunk: its link, the blocks cut from it, and the new reserve.
LEMMA GrowFits ==
  ASSUME PoolInv, Books, Tiled, Sound, NEW t \in Threads, Grow(t)
  PROVE  Fit(Tiles', brk') /\ block'[t] # Null /\ NoDuplicates(free_list') /\ ReserveAligned'
<1> DEFINE k == Class(t)
           n == OnceFillNum
           get == BytesToGet(ROUND_UP(need[t]))
           begin == brk + PtrSize
           lists == PushLeftover(free_list)
           rest == Others(t) \cup Clients \cup FreeOf(lists) \cup Links
           link == LinkPiece(brk)
           first == ThreadPiece(t, begin, need[t])
           cut == Cut(k, begin, n) \cup {first} \cup Reserve'
           new == {link} \cup cut
<1>0. /\ pc \in [Threads -> Pcs] /\ Goto(t, "a_lock", "a_unlock") /\ block \in [Threads -> Nat]
      /\ free_list \in [Classes -> Seq(Nat)] /\ brk \in Nat /\ SmallNeed(t) /\ free_list[k] = <<>>
      /\ BytesLeft < ROUND_UP(need[t]) /\ PtrSize \in Nat /\ n \in Nat \ {0} /\ chunk_list \in Seq(Nat)
      /\ 0 < brk
  BY Types, PoolAssumption DEF PoolInv, Grow, Books, Known
<1>1. ~thrown
  BY Intact DEF Grow
<1>2. /\ k \in Classes /\ Capacity(need[t]) = ClassSize(k)
      /\ ROUND_UP(need[t]) = ClassSize(k) /\ ClassSize(k) \in Nat \ {0}
  <2>1. k \in Classes /\ Capacity(need[t]) = ClassSize(k)
    BY <1>0, SmallCapacity DEF Goto
  <2>2. need[t] \in Nat \ {0}
    BY <1>0, ClassOf DEF Goto, PoolInv
  <2>3. ROUND_UP(need[t]) = ClassSize(k)
    BY <2>2, RoundsUp DEF Class
  <2> QED BY <2>1, <2>2, <2>3, ClassSizes
<1>3. get \in Nat /\ ClassSize(k) * n \in Nat /\ ClassSize(k) * n <= get
  BY <1>2, Chunk DEF PoolInv
<1>4. /\ UNCHANGED <<live, thrown, need>>
      /\ free_begin' = begin + ClassSize(k) * n /\ free_end' = begin + get /\ brk' = brk + (get + PtrSize)
      /\ block'[t] = begin /\ free_list' = Refill(lists, k, begin, n)
      /\ chunk_list' = <<brk>> \o chunk_list
  BY <1>0, <1>2 DEF Grow, Malloc, Deliver, LinkChunk
<1>5. /\ lists \in [Classes -> Seq(Nat)] /\ lists[k] = <<>> /\ NoDuplicates(lists) /\ Fit(rest, brk)
  BY <1>0, <1>1, LeftoverFits DEF Goto
<1>6. ReserveAligned'
  <2>1. Aligned(get - ClassSize(k) * n)
    <3>1. get = 2 * ClassSize(k) * n + ROUND_UP(heap_size \div 16)
      BY <1>2 DEF BytesToGet
    <3>2. heap_size \div 16 \in Nat
      BY Types, Quotient DEF PoolInv
    <3>3. Aligned(ROUND_UP(heap_size \div 16)) /\ ROUND_UP(heap_size \div 16) \in Nat
      BY <3>2, AlignedRound, Rounded
    <3>4. Aligned(ClassSize(k) * n)
      <4>1. Aligned(ClassSize(k))
        <5>1. need[t] \in Nat
          BY Types DEF PoolInv
        <5> QED BY <1>2, <5>1, AlignedRound
      <4> QED BY <1>0, <4>1, AlignedProduct
    <3> DEFINE c == ClassSize(k) * n
               r == ROUND_UP(heap_size \div 16)
    <3>5. get - c = c + r
      <4>1. 2 * ClassSize(k) * n = 2 * c
        BY <1>0, <1>2
      <4>2. get = 2 * c + r /\ c \in Nat /\ r \in Nat
        BY <1>3, <3>1, <3>3, <4>1
      <4> HIDE DEF c, r, get
      <4> QED BY <4>2
    <3> HIDE DEF c, r
    <3>6. Aligned(c + r)
      BY <3>3, <3>4, AlignedSum DEF c, r
    <3> QED BY <3>5, <3>6 DEF c
  <2>2. BytesLeft' = get - ClassSize(k) * n
    <3> DEFINE c == ClassSize(k) * n
    <3>1. BytesLeft' = (begin + get) - (begin + c) /\ get \in Nat /\ c \in Nat
      BY <1>3, <1>4 DEF BytesLeft
    <3> HIDE DEF c, get
    <3>2. BytesLeft' = get - c
      BY <1>0, <3>1
    <3> QED BY <3>2 DEF c
  <2> QED BY <2>1, <2>2 DEF ReserveAligned
<1>7. /\ begin \in Nat \ {0} /\ free_end' = brk' /\ brk' \in Nat /\ brk <= brk' /\ begin <= brk'
      /\ free_begin' \in Nat /\ free_begin' = begin + n * ClassSize(k) /\ free_begin' <= free_end'
  <2> DEFINE c == ClassSize(k) * n
  <2>1. n * ClassSize(k) = c
    BY <1>0, <1>2
  <2>2. get \in Nat /\ c \in Nat /\ c <= get /\ free_begin' = begin + c
    BY <1>3, <1>4
  <2>3. begin \in Nat /\ 0 < begin /\ brk <= begin
    BY <1>0
  <2> HIDE DEF c, get
  <2>4. brk' = begin + get
    BY <1>0, <1>4, <2>2
  <2>5. free_end' = begin + get
    BY <1>4
  <2> HIDE DEF begin
  <2> QED BY <1>0, <2>1, <2>2, <2>3, <2>4, <2>5
<1> HIDE DEF k, get, lists
<1>8. FreeOf(free_list') = FreeOf(lists) \cup Cut(k, begin, n) /\ NoDuplicates(free_list')
  <2> HIDE DEF begin, n
  <2>1. begin \in Nat /\ n \in Nat \ {0} /\ k \in Classes
    BY <1>0, <1>2, <1>7
  <2>2. /\ FreeOf(Refill(lists, k, begin, n)) = FreeOf(lists) \cup Cut(k, begin, n)
        /\ NoDuplicates(Refill(lists, k, begin, n))
    BY <1>5, <2>1, Refilled
  <2>3. free_list' = Refill(lists, k, begin, n)
    BY <1>4
  <2> QED BY <2>2, <2>3
<1>9. first.lo = begin /\ first.hi = begin + ClassSize(k) /\ first.own # <<"link", 0>>
  BY <1>2, ThreadParts
<1> HIDE DEF begin, n, first
<1>10. /\ \A p, q \in Reserve' : p = q
       /\ \A p \in Reserve' : p.lo = free_begin' /\ p.hi = brk' /\ p.lo < p.hi
  <2>1. Reserve' \subseteq {ReservePiece(free_begin', brk')} /\ (free_begin' = brk' => Reserve' = {})
    BY <1>7 DEF Reserve
  <2>2. ReservePiece(free_begin', brk').lo = free_begin' /\ ReservePiece(free_begin', brk').hi = brk'
    BY PieceParts DEF ReservePiece
  <2> QED BY <1>7, <2>1, <2>2
<1>11. AllApart(cut) /\ Bounded(cut, brk') /\ \A p \in cut : begin <= p.lo
  <2> HIDE DEF cut
  <2>1. cut = Cut(k, begin, n) \cup {first} \cup Reserve'
    BY DEF cut
  <2>2. Divides(cut, k, begin, n, free_begin', brk', first, Reserve')
    BY <1>0, <1>2, <1>7, <1>9, <1>10, <2>1 DEF Divides
  <2> QED BY <2>2, CutApart
<1>12. link.lo = brk /\ link.hi = begin /\ link.own = <<"link", 0>>
  BY PieceParts DEF LinkPiece, begin
<1>13. AllApart({link}) /\ Bounded({link}, begin)
  <2>1. AllApart({link})
    BY DEF AllApart
  <2>2. brk \in Nat /\ begin \in Nat /\ 0 < brk /\ brk <= begin
    BY <1>0 DEF begin
  <2>3. Bounded({link}, begin)
    BY <1>12, <2>2 DEF Bounded
  <2> QED BY <2>1, <2>3
<1> HIDE DEF link, cut
<1>14. AllApart(new) /\ Bounded(new, brk') /\ \A p \in new : brk <= p.lo
  <2>1. begin \in Nat /\ brk <= begin /\ brk' \in Nat /\ begin <= brk'
    BY <1>0, <1>7 DEF begin
  <2>2. new \subseteq {link} \cup cut
    OBVIOUS
  <2> HIDE DEF new
  <2>3. AllApart(new) /\ Bounded(new, brk')
    BY <1>11, <1>13, <2>1, <2>2, AddAbove
  <2>4. \A p \in cut : p.lo \in Nat
    BY <1>11 DEF Bounded
  <2>5. \A p \in new : brk <= p.lo
    BY <1>0, <1>11, <1>12, <2>1, <2>2, <2>4
  <2> QED BY <2>3, <2>5
<1>15. Mine(t)' = {first} /\ block'[t] # Null
  <2>1. pc'[t] = "a_unlock" /\ block'[t] = begin /\ need' = need
    BY <1>0, <1>4 DEF Goto, begin
  <2> QED BY <1>7, <2>1, MineNow DEF first, Null
<1>16. Clients' = Clients
  BY <1>4 DEF Clients
<1>17. Links' \subseteq Links \cup {link}
  <2>1. ASSUME NEW i \in 1..Len(chunk_list') PROVE chunk_list'[i] \in Chunks \cup {brk}
    <3>1. CASE i = 1
      BY <1>0, <1>4, <3>1
    <3>2. CASE i # 1
      <4>1. i - 1 \in 1..Len(chunk_list) /\ chunk_list'[i] = chunk_list[i - 1]
        BY <1>0, <1>4, <3>2
      <4> QED BY <4>1 DEF Chunks
    <3> QED BY <3>1, <3>2
  <2>2. Chunks' \subseteq Chunks \cup {brk}
    BY <2>1 DEF Chunks
  <2> QED BY <2>2 DEF Links, link
<1>18. Tiles' \subseteq rest \cup new
  <2>1. Tiles' = Others(t) \cup {first} \cup Clients \cup (FreeOf(free_list') \cup Reserve' \cup Links')
    BY <1>1, <1>4, <1>15, <1>16, Parted DEF InCall
  <2> QED BY <1>8, <1>17, <2>1 DEF cut
<1> HIDE DEF rest, new
<1>19. Fit(Tiles', brk')
  <2>1. AllApart(rest) /\ Bounded(rest, brk)
    BY <1>5 DEF Fit
  <2>2. brk' \in Nat /\ brk <= brk'
    BY <1>7
  <2>3. AllApart(Tiles') /\ Bounded(Tiles', brk')
    BY <1>0, <1>14, <1>18, <2>1, <2>2, AddAbove
  <2> QED BY <2>3 DEF Fit
<1> QED BY <1>6, <1>8, <1>15, <1>19
-----------------------------------------------------------------------------
LEMMA InitTiled == Init => TilesInv
<1> SUFFICES ASSUME Init PROVE Tiled
  BY DEF TilesInv
<1>1. Tiles = {}
  <2>1. Carried = {} /\ Clients = {} /\ Reserve = {}
    BY DEF Init, Carried, Carriers, Clients, Reserve
  <2>2. \A k \in Classes : Len(free_list[k]) = 0
    BY DEF Init
  <2>3. FreeOf(free_list) = {}
    BY <2>2, FreeMember
  <2>4. Links = {}
    <3>1. Len(chunk_list) = 0
      BY DEF Init
    <3> QED BY <3>1 DEF Links, Chunks
  <2> QED BY <2>1, <2>3, <2>4 DEF Tiles, Owners, Pool
<1>2. AllApart(Tiles) /\ Bounded(Tiles, brk)
  BY <1>1 DEF AllApart, Bounded
<1>3. ClientsUnique /\ CarriersCarry /\ HeadRead /\ ~thrown
  BY DEF Init, ClientsUnique, CarriersCarry, HeadRead
<1>4. NoDuplicates(free_list)
  <2>1. \A k \in Classes : Len(free_list[k]) = 0
    BY DEF Init
  <2> QED BY <2>1 DEF NoDuplicates
<1>5. ReserveAligned
  <2>1. BytesLeft = 0 * Align
    BY PoolAssumption DEF Init, BytesLeft, Null
  <2> QED BY <2>1 DEF ReserveAligned, Aligned
<1> QED BY <1>2, <1>3, <1>4, <1>5 DEF Tiled

\* Every step of a thread leaves the pieces apart.
LEMMA StepFits ==
  ASSUME PoolInv, Books, Tiled, Sound, NEW t \in Threads, CallAlloc(t) \/ CallFree(t) \/ InCall(t)
  PROVE  Fit(Tiles', brk')
<1>1. CASE CallAlloc(t) \/ PassToMalloc(t) \/ AllocBigFails(t) \/ ReadHead(t) \/ AllocUnlock(t) \/ FreeUnlock(t)
  BY <1>1, StillFits
<1>2. CASE AllocBig(t) \/ StoreHeader(t) \/ CallFree(t) \/ FreeBig(t) \/ GrowFails(t)
  BY <1>2, AllocBigFits, StoreHeaderFits, CallFreeFits, FreeBigFits, GrowFailsFits
<1>3. CASE Unlink(t) \/ FreeSmall(t) \/ Carve(t) \/ Grow(t)
  BY <1>3, UnlinkFits, FreeSmallFits, CarveFits, GrowFits
<1> QED BY <1>1, <1>2, <1>3 DEF InCall

\* Clients own different blocks, threads under way to or from them have one.
LEMMA StepHands ==
  ASSUME PoolInv, Books, Tiled, Sound, NEW t \in Threads, CallAlloc(t) \/ CallFree(t) \/ InCall(t)
  PROVE  ClientsUnique' /\ CarriersCarry'
<1>0. pc \in [Threads -> Pcs] /\ block \in [Threads -> Nat]
  BY Types DEF PoolInv
<1>1. ClientsUnique'
  <2>1. CASE StoreHeader(t) \/ CallFree(t)
    BY <2>1, StoreHeaderFits, CallFreeFits
  <2>2. CASE ~(StoreHeader(t) \/ CallFree(t))
    <3>1. live' = live
      BY <2>2 DEF InCall, CallAlloc, PassToMalloc, AllocBig, AllocBigFails,
         ReadHead, Unlink, Carve, Grow, GrowFails, AllocUnlock, FreeSmall, FreeBig, FreeUnlock
    <3> QED BY <3>1 DEF Tiled, ClientsUnique
  <2> QED BY <2>1, <2>2
<1>2. pc'[t] \in {"a_unlock", "a_header", "f_lock"} => block'[t] # Null
  <2>1. CASE Unlink(t) \/ Carve(t) \/ Grow(t) \/ AllocBig(t) \/ CallFree(t)
    BY <2>1, UnlinkFits, CarveFits, GrowFits, AllocBigFits, CallFreeFits
  <2>2. CASE AllocUnlock(t)
    <3>1. block' = block /\ pc[t] = "a_unlock"
      BY <2>2 DEF AllocUnlock, Goto
    <3> QED BY <3>1 DEF Tiled, CarriersCarry
  <2>3. CASE ~(Unlink(t) \/ Carve(t) \/ Grow(t) \/ AllocBig(t) \/ CallFree(t) \/ AllocUnlock(t))
    BY <1>0, <2>3 DEF InCall, CallAlloc, PassToMalloc, AllocBigFails,
       ReadHead, GrowFails, StoreHeader, FreeSmall, FreeBig, FreeUnlock, Goto
  <2> QED BY <2>1, <2>2, <2>3
<1>3. CarriersCarry'
  <2>1. \A u \in Threads : u # t => pc'[u] = pc[u] /\ block'[u] = block[u]
    BY OthersStay
  <2> QED BY <1>2, <2>1 DEF Tiled, CarriersCarry
<1> QED BY <1>1, <1>3

\* The lists as long as no refill has thrown.
LEMMA StepIntact ==
  ASSUME PoolInv, Books, Tiled, Sound, NEW t \in Threads, CallAlloc(t) \/ CallFree(t) \/ InCall(t),
         ~thrown'
  PROVE  NoDuplicates(free_list') /\ HeadRead' /\ ReserveAligned'
<1>0. /\ pc \in [Threads -> Pcs] /\ need \in [Threads -> Nat] /\ block \in [Threads -> Nat]
      /\ TypeOK /\ Held
  BY Types DEF PoolInv
<1>1. ~thrown /\ ~GrowFails(t)
  BY DEF CallAlloc, CallFree, InCall, PassToMalloc, AllocBig, AllocBigFails,
         ReadHead, Unlink, Carve, Grow, GrowFails, AllocUnlock, StoreHeader, FreeSmall, FreeBig,
         FreeUnlock
<1>2. NoDuplicates(free_list')
  <2>1. CASE Unlink(t) \/ Carve(t) \/ Grow(t) \/ FreeSmall(t)
    BY <2>1, HeadOf, CarveFits, GrowFits, FreeSmallFits
  <2>2. CASE ~(Unlink(t) \/ Carve(t) \/ Grow(t) \/ FreeSmall(t))
    <3>1. free_list' = free_list
      BY <1>1, <2>2 DEF InCall, CallAlloc, CallFree, PassToMalloc, AllocBig, AllocBigFails,
         ReadHead, AllocUnlock, StoreHeader, FreeBig, FreeUnlock, poolVars
    <3> QED BY <1>1, <3>1 DEF Tiled
  <2> QED BY <2>1, <2>2
<1>3. ReserveAligned'
  <2>1. CASE Carve(t) \/ Grow(t)
    BY <2>1, CarveFits, GrowFits
  <2>2. CASE ~(Carve(t) \/ Grow(t))
    <3>1. free_begin' = free_begin /\ free_end' = free_end
      BY <1>1, <2>2 DEF InCall, CallAlloc, CallFree, PassToMalloc, AllocBig, AllocBigFails,
         ReadHead, Unlink, AllocUnlock, StoreHeader, FreeSmall, FreeBig, FreeUnlock, poolVars
    <3> QED BY <1>1, <3>1 DEF Tiled, ReserveAligned, BytesLeft
  <2> QED BY <2>1, <2>2
<1>4. ASSUME NEW u \in Threads, pc'[u] = "a_unlink" PROVE (block[u] = Head(free_list[Class(u)]))'
  <2>1. CASE u = t
    <3>1. ReadHead(t)
      BY <1>0, <1>4, <2>1 DEF CallAlloc, CallFree, InCall, PassToMalloc, AllocBig, AllocBigFails,
         Unlink, Carve, Grow, GrowFails, AllocUnlock, StoreHeader, FreeSmall, FreeBig, FreeUnlock, Goto
    <3> QED BY <1>0, <2>1, <3>1 DEF ReadHead, Class, poolVars, Deliver
  <2>2. CASE u # t
    <3>1. pc[u] = "a_unlink" /\ need'[u] = need[u] /\ block'[u] = block[u]
      BY <1>4, <2>2, OthersStay
    <3>2. ~Lock(t) /\ ~Inside(t)
      BY <1>0, <2>2, <3>1, Alone DEF Inside
    <3>3. free_list' = free_list
      BY <3>2 DEF CallAlloc, CallFree, InCall, PassToMalloc, AllocBig, AllocBigFails,
         ReadHead, Unlink, Carve, Grow, GrowFails, AllocUnlock, StoreHeader, FreeSmall, FreeBig,
         FreeUnlock, Goto, Inside, poolVars
    <3>4. block[u] = Head(free_list[Class(u)])
      BY <1>1, <3>1 DEF Tiled, HeadRead
    <3> QED BY <3>1, <3>3, <3>4 DEF Class
  <2> QED BY <2>1, <2>2
<1>5. HeadRead'
  BY <1>4 DEF HeadRead
<1> QED BY <1>2, <1>3, <1>5

\* After a refill that threw the lock stays taken, with nobody inside.
LEMMA StepLockedUp ==
  ASSUME PoolInv, Books, Tiled, Sound', NEW t \in Threads, CallAlloc(t) \/ CallFree(t) \/ InCall(t), thrown'
  PROVE  LockedUp'
<1>0. pc \in [Threads -> Pcs]
  BY Types DEF PoolInv
<1>1. Locked
  BY DEF Sound
<1>2. CASE GrowFails(t)
  BY <1>1, <1>2, GrowFailsFits
<1>3. CASE ~GrowFails(t)
  <2>1. thrown
    BY <1>3 DEF CallAlloc, CallFree, InCall, PassToMalloc, AllocBig, AllocBigFails,
         ReadHead, Unlink, Carve, Grow, AllocUnlock, StoreHeader, FreeSmall, FreeBig, FreeUnlock
  <2>2. alloc_lock_ # {} /\ \A u \in Threads : ~Inside(u)
    BY <2>1 DEF Tiled, LockedUp
  <2>3. ~Lock(t) /\ ~CanLock
    BY <1>1, <2>2 DEF Lock, mutex!Lock, CanLock
  <2>4. CallAlloc(t) \/ CallFree(t) \/ AllocBig(t) \/ AllocBigFails(t) \/ StoreHeader(t)
    BY <2>2, <2>3 DEF InCall, PassToMalloc, ReadHead, Unlink, Carve, Grow, GrowFails, AllocUnlock,
         FreeSmall, FreeBig, FreeUnlock, Goto, Inside
  <2>5. alloc_lock_' = alloc_lock_ /\ pc'[t] \notin {"a_unlink", "a_unlock", "f_unlock"}
    BY <1>0, <2>4 DEF CallAlloc, CallFree, AllocBig, AllocBigFails, StoreHeader, Goto
  <2>6. \A u \in Threads : u # t => pc'[u] = pc[u]
    BY OthersStay
  <2> QED BY <2>2, <2>5, <2>6 DEF LockedUp, Inside
<1> QED BY <1>2, <1>3

LEMMA StepTiled == PoolInv /\ Books /\ TilesInv /\ [Next]_vars => TilesInv'
<1> SUFFICES ASSUME PoolInv, Books, TilesInv, [Next]_vars, Sound' PROVE Tiled'
  BY DEF TilesInv
<1>1. Sound
  <2>1. thrown => thrown'
    BY DEF Next, Destroy, CallAlloc, CallFree, InCall, PassToMalloc, AllocBig, AllocBigFails,
         ReadHead, Unlink, Carve, Grow, GrowFails, AllocUnlock, StoreHeader, FreeSmall, FreeBig,
         FreeUnlock, vars
  <2> QED BY <2>1 DEF Sound
<1>2. Tiled
  BY <1>1 DEF TilesInv
<1>3. ASSUME NEW t \in Threads, CallAlloc(t) \/ CallFree(t) \/ InCall(t) PROVE Tiled'
  <2>1. Fit(Tiles', brk')
    BY <1>1, <1>2, <1>3, StepFits
  <2>2. ClientsUnique' /\ CarriersCarry'
    BY <1>1, <1>2, <1>3, StepHands
  <2>3. ~thrown' => NoDuplicates(free_list') /\ HeadRead' /\ ReserveAligned'
    BY <1>1, <1>2, <1>3, StepIntact
  <2>4. thrown' => LockedUp'
    BY <1>2, <1>3, StepLockedUp
  <2> QED BY <2>1, <2>2, <2>3, <2>4 DEF Tiled, Fit
<1>4. CASE Destroy
  <2>1. Fit(Tiles', brk')
    BY <1>2, <1>4, DestroyFits
  <2>2. UNCHANGED <<live, thrown, free_list, free_begin, free_end, alloc_lock_>>
        /\ \A t \in Threads : pc'[t] = "exited"
    BY <1>4 DEF Destroy
  <2>3. ClientsUnique' /\ CarriersCarry' /\ HeadRead'
    BY <1>2, <2>2 DEF Tiled, ClientsUnique, CarriersCarry, HeadRead
  <2>4. ~thrown' => NoDuplicates(free_list') /\ ReserveAligned'
    BY <1>2, <2>2 DEF Tiled, ReserveAligned, BytesLeft
  <2>5. thrown' => LockedUp'
    BY <1>2, <2>2 DEF Tiled, LockedUp, Inside
  <2> QED BY <2>1, <2>3, <2>4, <2>5 DEF Tiled, Fit
<1>5. CASE UNCHANGED vars
  <2>1. UNCHANGED <<live, thrown, free_list, free_begin, free_end, alloc_lock_, pc, block, need,
                   chunk_list, brk>>
    BY <1>5 DEF vars
  <2>2. Tiles' = Tiles
    BY <2>1 DEF Tiles, Owners, Pool, Carried, Carriers, Clients, Reserve, Links, Chunks
  <2>3. ClientsUnique' /\ CarriersCarry'
    BY <1>2, <2>1 DEF Tiled, ClientsUnique, CarriersCarry
  <2>4. ~thrown' => NoDuplicates(free_list') /\ HeadRead' /\ ReserveAligned'
    BY <1>2, <2>1 DEF Tiled, ReserveAligned, BytesLeft, HeadRead, Class
  <2>5. thrown' => LockedUp'
    BY <1>2, <2>1 DEF Tiled, LockedUp, Inside
  <2> QED BY <1>2, <2>1, <2>2, <2>3, <2>4, <2>5 DEF Tiled
<1> QED BY <1>3, <1>4, <1>5 DEF Next
-----------------------------------------------------------------------------
\* The pieces of the model, named by their place on a list, and the pieces here.
LEMMA Standing ==
         /\ \A p \in FreePieces : \E q \in FreeOf(free_list) : q.lo = p.lo /\ q.hi = p.hi /\ p.owner[1] = "free"
         /\ \A p \in ReservePieces : \E q \in Reserve : q.lo = p.lo /\ q.hi = p.hi /\ p.owner[1] = "reserve"
         /\ \A p \in LinkPieces : \E q \in Links : q.lo = p.lo /\ q.hi = p.hi /\ p.owner[1] = "link"
         /\ \A p \in CarriedPieces : \E q \in Carried : q.lo = p.lo /\ q.hi = p.hi /\ p.owner[1] = "thread"
         /\ \A p \in LivePieces : \E q \in Clients : q.lo = p.lo /\ q.hi = p.hi /\ p.owner[1] = "client"
<1>1. ASSUME NEW p \in FreePieces
      PROVE  \E q \in FreeOf(free_list) : q.lo = p.lo /\ q.hi = p.hi /\ p.owner[1] = "free"
  <2>1. PICK k \in Classes : p \in {[owner |-> <<"free", k, i>>, lo |-> free_list[k][i],
                       hi |-> free_list[k][i] + ClassSize(k)] : i \in 1..Len(free_list[k])}
    BY DEF FreePieces
  <2>2. PICK i \in 1..Len(free_list[k]) :
           p = [owner |-> <<"free", k, i>>, lo |-> free_list[k][i], hi |-> free_list[k][i] + ClassSize(k)]
    BY <2>1
  <2>3. FreePiece(k, free_list[k][i]) \in FreeOf(free_list)
    BY FreeMember
  <2> QED BY <2>2, <2>3, FreeParts
<1>2. ASSUME NEW p \in ReservePieces
      PROVE  \E q \in Reserve : q.lo = p.lo /\ q.hi = p.hi /\ p.owner[1] = "reserve"
  BY PieceParts DEF ReservePieces, Reserve, ReservePiece
<1>3. ASSUME NEW p \in LinkPieces
      PROVE  \E q \in Links : q.lo = p.lo /\ q.hi = p.hi /\ p.owner[1] = "link"
  <2>1. PICK i \in 1..Len(chunk_list) :
           p = [owner |-> <<"link", i>>, lo |-> chunk_list[i], hi |-> chunk_list[i] + PtrSize]
    BY DEF LinkPieces
  <2>2. LinkPiece(chunk_list[i]) \in Links
    BY DEF Links, Chunks
  <2> QED BY <2>1, <2>2, PieceParts DEF LinkPiece
<1>4. ASSUME NEW p \in CarriedPieces
      PROVE  \E q \in Carried : q.lo = p.lo /\ q.hi = p.hi /\ p.owner[1] = "thread"
  <2>1. PICK t \in Carriers :
           p = [owner |-> <<"thread", t>>, lo |-> block[t], hi |-> block[t] + Capacity(need[t])]
    BY DEF CarriedPieces
  <2>2. ThreadPiece(t, block[t], need[t]) \in Carried
    BY DEF Carried
  <2> QED BY <2>1, <2>2, ThreadParts
<1>5. ASSUME NEW p \in LivePieces
      PROVE  \E q \in Clients : q.lo = p.lo /\ q.hi = p.hi /\ p.owner[1] = "client"
  <2>1. PICK b \in live : p = [owner |-> <<"client">>, lo |-> b.addr, hi |-> b.addr + Capacity(b.real)]
    BY DEF LivePieces
  <2>2. ClientPiece(b) \in Clients
    BY DEF Clients
  <2> QED BY <2>1, <2>2, ClientParts
<1> QED BY <1>1, <1>2, <1>3, <1>4, <1>5

\* Two pieces of one kind are two pieces here as well.
LEMMA SameKind ==
  ASSUME Books, Tiled, ~thrown, NEW p \in Pieces, NEW q \in Pieces, p # q, p.owner[1] = q.owner[1]
  PROVE  Disjoint(p, q)
<1>0. \A P, Q \in Tiles : P # Q => Disjoint(P, Q)
  BY DEF Tiled, AllApart
<1>1. CASE p \in FreePieces /\ q \in FreePieces
  <2>1. PICK k \in Classes : \E i \in 1..Len(free_list[k]) :
           p = [owner |-> <<"free", k, i>>, lo |-> free_list[k][i], hi |-> free_list[k][i] + ClassSize(k)]
    BY <1>1 DEF FreePieces
  <2>2. PICK i \in 1..Len(free_list[k]) :
           p = [owner |-> <<"free", k, i>>, lo |-> free_list[k][i], hi |-> free_list[k][i] + ClassSize(k)]
    BY <2>1
  <2>3. PICK l \in Classes : \E j \in 1..Len(free_list[l]) :
           q = [owner |-> <<"free", l, j>>, lo |-> free_list[l][j], hi |-> free_list[l][j] + ClassSize(l)]
    BY <1>1 DEF FreePieces
  <2>4. PICK j \in 1..Len(free_list[l]) :
           q = [owner |-> <<"free", l, j>>, lo |-> free_list[l][j], hi |-> free_list[l][j] + ClassSize(l)]
    BY <2>3
  <2> DEFINE P == FreePiece(k, free_list[k][i])
             Q == FreePiece(l, free_list[l][j])
  <2>5. P \in Tiles /\ Q \in Tiles
    BY FreeMember DEF Tiles, Pool
  <2>6. P # Q
    <3>1. ASSUME P = Q PROVE FALSE
      <4>1. k = l /\ free_list[k][i] = free_list[l][j]
        BY <3>1, SameFree
      <4>2. i = j
        BY <4>1 DEF Tiled, NoDuplicates
      <4> QED BY <2>2, <2>4, <4>1, <4>2
    <3> QED BY <3>1
  <2>7. P.lo = p.lo /\ P.hi = p.hi /\ Q.lo = q.lo /\ Q.hi = q.hi
    BY <2>2, <2>4, FreeParts
  <2> QED BY <1>0, <2>5, <2>6, <2>7 DEF Disjoint
<1>2. CASE p \in ReservePieces /\ q \in ReservePieces
  BY <1>2 DEF ReservePieces
<1>3. CASE p \in LinkPieces /\ q \in LinkPieces
  <2>1. PICK i \in 1..Len(chunk_list) :
           p = [owner |-> <<"link", i>>, lo |-> chunk_list[i], hi |-> chunk_list[i] + PtrSize]
    BY <1>3 DEF LinkPieces
  <2>2. PICK j \in 1..Len(chunk_list) :
           q = [owner |-> <<"link", j>>, lo |-> chunk_list[j], hi |-> chunk_list[j] + PtrSize]
    BY <1>3 DEF LinkPieces
  <2> DEFINE P == LinkPiece(chunk_list[i])
             Q == LinkPiece(chunk_list[j])
  <2>3. P.lo = p.lo /\ P.hi = p.hi /\ Q.lo = q.lo /\ Q.hi = q.hi
    BY <2>1, <2>2, PieceParts DEF LinkPiece
  <2>4. P # Q
    <3>1. chunk_list[i] # chunk_list[j]
      BY <2>1, <2>2 DEF Books, OnceEach
    <3> QED BY <2>1, <2>2, <2>3, <3>1
  <2>5. P \in Tiles /\ Q \in Tiles
    BY DEF Tiles, Pool, Links, Chunks
  <2> QED BY <1>0, <2>3, <2>4, <2>5 DEF Disjoint
<1>4. CASE p \in CarriedPieces /\ q \in CarriedPieces
  <2>1. PICK t \in Carriers :
           p = [owner |-> <<"thread", t>>, lo |-> block[t], hi |-> block[t] + Capacity(need[t])]
    BY <1>4 DEF CarriedPieces
  <2>2. PICK u \in Carriers :
           q = [owner |-> <<"thread", u>>, lo |-> block[u], hi |-> block[u] + Capacity(need[u])]
    BY <1>4 DEF CarriedPieces
  <2> DEFINE P == ThreadPiece(t, block[t], need[t])
             Q == ThreadPiece(u, block[u], need[u])
  <2>3. P.lo = p.lo /\ P.hi = p.hi /\ Q.lo = q.lo /\ Q.hi = q.hi
    BY <2>1, <2>2, ThreadParts
  <2>4. P # Q
    <3>1. t # u
      BY <2>1, <2>2
    <3>2. P.own = <<"thread", t>> /\ Q.own = <<"thread", u>>
      BY ThreadParts
    <3> QED BY <3>1, <3>2
  <2>5. P \in Tiles /\ Q \in Tiles
    BY DEF Tiles, Owners, Carried
  <2> QED BY <1>0, <2>3, <2>4, <2>5 DEF Disjoint
<1>5. CASE p \in LivePieces /\ q \in LivePieces
  <2>1. PICK b \in live : p = [owner |-> <<"client">>, lo |-> b.addr, hi |-> b.addr + Capacity(b.real)]
    BY <1>5 DEF LivePieces
  <2>2. PICK c \in live : q = [owner |-> <<"client">>, lo |-> c.addr, hi |-> c.addr + Capacity(c.real)]
    BY <1>5 DEF LivePieces
  <2> DEFINE P == ClientPiece(b)
             Q == ClientPiece(c)
  <2>3. P.lo = p.lo /\ P.hi = p.hi /\ Q.lo = q.lo /\ Q.hi = q.hi
    BY <2>1, <2>2, ClientParts
  <2>4. P # Q
    BY <2>1, <2>2, <2>3
  <2>5. P \in Tiles /\ Q \in Tiles
    BY DEF Tiles, Owners, Clients
  <2> QED BY <1>0, <2>3, <2>4, <2>5 DEF Disjoint
<1> QED BY <1>1, <1>2, <1>3, <1>4, <1>5, Standing DEF Pieces

LEMMA Apart == Books /\ TilesInv => NoOverlap
<1> SUFFICES ASSUME Books, TilesInv, ~thrown, NEW p \in Pieces, NEW q \in Pieces, p # q
             PROVE  Disjoint(p, q)
  BY DEF NoOverlap
<1>1. Tiled
  BY DEF TilesInv, Sound
<1>2. CASE p.owner[1] = q.owner[1]
  BY <1>1, <1>2, SameKind
<1>3. CASE p.owner[1] # q.owner[1]
  <2>1. ASSUME NEW r \in Pieces
        PROVE  \E R \in Tiles : R.lo = r.lo /\ R.hi = r.hi /\ R.own[1] = r.owner[1]
    <3>1. /\ FreeOf(free_list) \subseteq Tiles /\ Reserve \subseteq Tiles /\ Links \subseteq Tiles
          /\ Carried \subseteq Tiles /\ Clients \subseteq Tiles
      BY DEF Tiles, Owners, Pool
    <3>2. \A R \in Carried : R.own[1] = "thread"
      BY ThreadParts DEF Carried
    <3>3. /\ \A R \in FreeOf(free_list) : R.own[1] = "free"
          /\ \A R \in Reserve : R.own[1] = "reserve"
          /\ \A R \in Links : R.own[1] = "link"
          /\ \A R \in Clients : R.own[1] = "client"
      BY OtherKinds
    <3> QED BY <3>1, <3>2, <3>3, Standing DEF Pieces
  <2>2. PICK P \in Tiles : P.lo = p.lo /\ P.hi = p.hi /\ P.own[1] = p.owner[1]
    BY <2>1
  <2>3. PICK Q \in Tiles : Q.lo = q.lo /\ Q.hi = q.hi /\ Q.own[1] = q.owner[1]
    BY <2>1
  <2>4. P # Q
    BY <1>3, <2>2, <2>3
  <2>5. Disjoint(P, Q)
    BY <1>1, <2>4 DEF Tiled, AllApart
  <2> QED BY <2>2, <2>3, <2>5 DEF Disjoint
<1> QED BY <1>2, <1>3

LEMMA Tiling == Spec => []TilesInv
<1>1. PoolInv /\ Books /\ TilesInv /\ [Next]_vars => TilesInv'
  BY StepTiled
<1> QED BY <1>1, InitTiled, PoolInvariance, BooksInvariance, PTL DEF Spec

\* No byte has two owners, whatever sizes are asked for and however many threads
\* share a locked pool, until a refill throws.
THEOREM NoSharedByte == Spec => []NoOverlap
BY Tiling, BooksInvariance, Apart, PTL
-----------------------------------------------------------------------------
\* Until a refill throws whoever has locked the pool is inside.
HolderInside == ~thrown /\ alloc_lock_ # {} => \E t \in Threads : Inside(t)

LEMMA StepHolderInside ==
  ASSUME Locked
  PROVE  PoolInv /\ HolderInside /\ [Next]_vars => HolderInside'
<1> SUFFICES ASSUME PoolInv, HolderInside, [Next]_vars, ~thrown', alloc_lock_' # {}
             PROVE  \E t \in Threads : Inside(t)'
  BY DEF HolderInside
<1>0. pc \in [Threads -> Pcs]
  BY Types DEF PoolInv
<1>1. ASSUME NEW t \in Threads, ReadHead(t) \/ Carve(t) \/ Grow(t) \/ FreeSmall(t) \/ FreeBig(t)
      PROVE  Inside(t)'
  BY <1>0, <1>1 DEF ReadHead, Carve, Grow, FreeSmall, FreeBig, Goto, Inside
<1>2. ASSUME NEW t \in Threads, Unlink(t)
      PROVE  Inside(t)'
  BY <1>0, <1>2 DEF Unlink, Goto, Inside
<1>3. ASSUME NEW t \in Threads, GrowFails(t) \/ AllocUnlock(t) \/ FreeUnlock(t)
      PROVE  FALSE
  BY <1>3 DEF GrowFails, AllocUnlock, FreeUnlock, Unlock, mutex!Unlock
<1>4. ASSUME NEW t \in Threads,
             \/ CallAlloc(t) \/ CallFree(t) \/ PassToMalloc(t) \/ AllocBig(t)
             \/ AllocBigFails(t) \/ StoreHeader(t)
      PROVE  \E u \in Threads : Inside(u)'
  <2>1. alloc_lock_' = alloc_lock_ /\ thrown' = thrown /\ ~Inside(t)
    BY <1>4 DEF CallAlloc, CallFree, PassToMalloc, AllocBig, AllocBigFails, StoreHeader, Goto, Inside
  <2>2. PICK u \in Threads : Inside(u)
    BY <2>1 DEF HolderInside
  <2>3. pc'[u] = pc[u]
    BY <1>4, <2>1, <2>2, OthersStay DEF InCall
  <2> QED BY <2>2, <2>3 DEF Inside
<1>5. CASE UNCHANGED vars
  BY <1>5 DEF vars, HolderInside, Inside
<1>6. CASE Destroy
  <2>1. alloc_lock_' = alloc_lock_ /\ thrown' = thrown /\ \A t \in Threads : ~Inside(t)
    BY <1>6 DEF Destroy, Inside
  <2> QED BY <2>1 DEF HolderInside
<1> QED BY <1>1, <1>2, <1>3, <1>4, <1>5, <1>6 DEF Next, InCall

\* A refill that throws past the Unlock of allocate (memallocator.cc:98), and
\* nothing else that happens to a locked pool, leaves it locked for ever.
THEOREM LostLock == Spec => []LeftLocked
<1>1. CASE Locked
  <2>1. PoolInv /\ TilesInv /\ HolderInside => LeftLocked
    BY <1>1 DEF TilesInv, Sound, Tiled, HolderInside, LeftLocked, LockedUp
  <2>2. Init => HolderInside
    BY DEF Init, mutex!Init, HolderInside
  <2>3. PoolInv /\ HolderInside /\ [Next]_vars => HolderInside'
    BY <1>1, StepHolderInside
  <2> QED BY <2>1, <2>2, <2>3, Tiling, PoolInvariance, PTL DEF Spec
<1>2. CASE ~Locked
  <2>1. LeftLocked
    BY <1>2 DEF LeftLocked
  <2> QED BY <2>1, PTL
<1> QED BY <1>1, <1>2
-----------------------------------------------------------------------------
\* What clients see of a step.
LEMMA Given ==
  ASSUME PoolInv, Books, Tiled, NEW t \in Threads, StoreHeader(t)
  PROVE  ClientHeap!Give
<1> DEFINE r == [lo |-> block[t], hi |-> block[t] + need[t]]
           old == ThreadPiece(t, block[t], need[t])
<1>0. /\ pc[t] = "a_header" /\ live' = live \cup {[addr |-> block[t], real |-> need[t]]}
      /\ block[t] \in Nat
  BY Types DEF StoreHeader, Goto, PoolInv
<1>1. need[t] \in Nat \ {0}
  BY <1>0, ClassOf DEF PoolInv
<1>2. ClientRegions' = ClientRegions \cup {r}
  <2> DEFINE b == [addr |-> block[t], real |-> need[t]]
  <2>1. [lo |-> b.addr, hi |-> b.addr + b.real] = r
    OBVIOUS
  <2> HIDE DEF r
  <2>2. live' = live \cup {b}
    BY <1>0
  <2> HIDE DEF b
  <2>3. ClientRegions' = {[lo |-> c.addr, hi |-> c.addr + c.real] : c \in live \cup {b}}
    BY <2>2 DEF ClientRegions
  <2> QED BY <2>1, <2>3 DEF ClientRegions
<1>3. old \in Carried
  BY <1>0 DEF Carried, Carriers, Tiled, CarriersCarry
<1>4. ASSUME NEW s \in ClientRegions PROVE ClientHeap!Apart(r, s) /\ s # r
  <2>1. PICK b \in live : s = [lo |-> b.addr, hi |-> b.addr + b.real]
    BY DEF ClientRegions
  <2>2. b.addr \in Nat /\ b.real \in Nat \ {0}
    BY Types DEF PoolInv, Sized
  <2>3. ClientPiece(b) \in Clients /\ ClientPiece(b).own[1] = "client" /\ old.own[1] = "thread"
    BY ClientParts, ThreadParts DEF Clients
  <2>4. Disjoint(old, ClientPiece(b))
    BY <1>3, <2>3 DEF Tiled, AllApart, Tiles, Owners
  <2>5. /\ Capacity(need[t]) \in Nat /\ need[t] <= Capacity(need[t])
        /\ Capacity(b.real) \in Nat /\ b.real <= Capacity(b.real)
    BY <1>1, <2>2, AtLeast
  <2>6. block[t] + Capacity(need[t]) <= b.addr \/ b.addr + Capacity(b.real) <= block[t]
    BY <2>4, ClientParts, ThreadParts DEF Disjoint
  <2>7. block[t] + need[t] <= b.addr \/ b.addr + b.real <= block[t]
    BY <1>0, <1>1, <2>2, <2>5, <2>6
  <2>8. b.addr # block[t]
    BY <1>0, <1>1, <2>2, <2>7
  <2> QED BY <2>1, <2>7, <2>8 DEF ClientHeap!Apart
<1>5. r.lo < r.hi
  BY <1>0, <1>1
<1> HIDE DEF r
<1> QED BY <1>2, <1>4, <1>5 DEF ClientHeap!Give

LEMMA TakenBack ==
  ASSUME PoolInv, Books, Tiled, NEW t \in Threads, CallFree(t)
  PROVE  ClientHeap!TakeBack
<1>1. PICK b \in live : live' = live \ {b}
  BY DEF CallFree
<1> DEFINE r == [lo |-> b.addr, hi |-> b.addr + b.real]
<1>2. r \in ClientRegions
  BY DEF ClientRegions
<1>3. ASSUME NEW c \in live, c # b PROVE [lo |-> c.addr, hi |-> c.addr + c.real] # r
  <2>1. c.addr # b.addr
    BY <1>3 DEF Tiled, ClientsUnique
  <2> QED BY <2>1
<1>4. ClientRegions' = ClientRegions \ {r}
  BY <1>1, <1>3 DEF ClientRegions
<1> QED BY <1>2, <1>4 DEF ClientHeap!TakeBack

LEMMA StepHeap ==
  ASSUME Locked
  PROVE  PoolInv /\ Books /\ TilesInv /\ [Next]_vars => [ClientHeap!Next]_ClientRegions
<1> SUFFICES ASSUME PoolInv, Books, TilesInv, [Next]_vars
             PROVE  ClientHeap!Next \/ ClientRegions' = ClientRegions
  OBVIOUS
<1>1. Tiled
  BY DEF TilesInv, Sound
<1>2. ASSUME NEW t \in Threads, StoreHeader(t) \/ CallFree(t) PROVE ClientHeap!Next
  BY <1>1, <1>2, Given, TakenBack DEF ClientHeap!Next
<1>3. ASSUME NEW t \in Threads, CallAlloc(t) \/ InCall(t), ~StoreHeader(t) PROVE live' = live
  BY <1>3 DEF InCall, CallAlloc, PassToMalloc, AllocBig, AllocBigFails,
     ReadHead, Unlink, Carve, Grow, GrowFails, AllocUnlock, FreeSmall, FreeBig, FreeUnlock
<1>4. CASE Destroy \/ UNCHANGED vars
  BY <1>4 DEF Destroy, vars, ClientRegions
<1> QED BY <1>2, <1>3, <1>4 DEF Next, ClientRegions

\* A locked pool is a heap to its clients, also when malloc fails: what it gives
\* out never shares a byte with what they have.
THEOREM LockedPoolIsHeap == Locked => (Spec => ImplementsHeap)
<1> SUFFICES ASSUME Locked PROVE Spec => ImplementsHeap
  OBVIOUS
<1>1. Init => ClientHeap!Init
  BY DEF Init, ClientHeap!Init, ClientRegions
<1>2. PoolInv /\ Books /\ TilesInv /\ [Next]_vars => [ClientHeap!Next]_ClientRegions
  BY StepHeap
<1> QED BY <1>1, <1>2, PoolInvariance, BooksInvariance, Tiling, PTL
        DEF Spec, ImplementsHeap, ClientHeap!Spec
=============================================================================
