---------------------------- MODULE MinAllocator ----------------------------
(***************************************************************************)
(* The memory pool, __min_allocator (components/system/memallocator.h,     *)
(* memallocator.cc:67-224): segregated free lists of blocks that are       *)
(* multiples of __ALIGN up to __MAX_BYTES, refilled from a reserve         *)
(* [free_begin, free_end) cut from chunks that malloc supplies.            *)
(*                                                                         *)
(* Threads call alloc and free on one pool.  Reading the head of a free    *)
(* list (with Lock before it) and unlinking the block are two steps; the   *)
(* other work under alloc_lock_ is one step with Lock, since it touches    *)
(* nothing that is not under the lock; Unlock is a step, and so is what    *)
(* the code does outside the lock.  chunk_alloc calls itself after it has  *)
(* grown the reserve; the second call always takes its first branch and is *)
(* part of the same step.  Its branch for a null free_begin cannot be      *)
(* taken, __block_allocator::allocate returns memory or throws (module     *)
(* BlockAllocator).                                                        *)
(***************************************************************************)
EXTENDS Integers, Sequences, FiniteSets, Functions, FiniteSetsExt

CONSTANTS Threads,
          Align, MaxBytes, OnceFillNum,   \* __ALIGN, __MAX_BYTES, ONCE_FILL_NUM
          HeaderSize,                     \* sizeof(int32_t), the size kept before the data
          PtrSize,                        \* sizeof(char*), the link that starts a chunk
          Requests,                       \* sizes clients ask for
          MaxCalls,                       \* bound on the alloc calls of a thread
          Locked,                         \* __MULTI_THREAD_MEM_SHARE__ is defined
          MallocMayFail                   \* malloc may run out of memory

ASSUME PoolAssumption ==
  /\ Align \in Nat \ {0} /\ OnceFillNum \in Nat \ {0}
  /\ MaxBytes \in Nat /\ MaxBytes % Align = 0
  /\ HeaderSize \in Nat /\ PtrSize \in Nat
  /\ Requests \subseteq Nat \ {0}
  /\ MaxCalls \in Nat
  /\ IsFiniteSet(Threads) /\ Locked \in BOOLEAN /\ MallocMayFail \in BOOLEAN
  /\ ~Locked => Cardinality(Threads) <= 1

VARIABLES free_list,    \* one stack of block addresses per size class
          free_begin, free_end, heap_size,
          chunk_list,   \* addresses of the chunks, the latest first
          alloc_lock_,
          brk,          \* malloc: the lowest address not handed out yet
          system,       \* malloc: the regions handed out and not freed
          live,         \* blocks clients own: address and the size in the header
          pc, need,     \* where each thread is, and n_realsize of its call
          block,        \* the block a thread carries between two steps
          calls,        \* alloc calls made by each thread
          thrown        \* history: a refill of the pool has thrown bad_alloc

poolVars == <<free_list, free_begin, free_end, heap_size, chunk_list>>
mallocVars == <<brk, system>>
vars == <<free_list, free_begin, free_end, heap_size, chunk_list, alloc_lock_,
          brk, system, live, pc, need, block, calls, thrown>>

Null == 0
mutex == INSTANCE Mutex WITH holder <- alloc_lock_
-----------------------------------------------------------------------------
(* Sizes and size classes, and mutants of them.                            *)

GET_FREELIST_IDX_Truncates(bytes) == IF bytes < Align THEN 0 ELSE bytes \div Align - 1
PushLeftover_Dropped(lists) == lists
ObjectsFromReserve_Always(nsize) == OnceFillNum
LinkChunk_Overwrites(addr) == <<addr>>
Lock_NotWaiting(t) == alloc_lock_' = {t}
Unlock_Forgotten(t) == UNCHANGED alloc_lock_

ROUND_UP(bytes) == ((bytes + Align - 1) \div Align) * Align
GET_FREELIST_IDX(bytes) == (bytes + Align - 1) \div Align - 1

Classes == 0 .. (MaxBytes \div Align - 1)
ClassSize(k) == (k + 1) * Align

BytesLeft == free_end - free_begin

Push(lists, k, addr) == [lists EXCEPT ![k] = <<addr>> \o @]

\* fill_list: the first of n blocks from addr is returned, the others form
\* the free list in address order.
Refill(lists, k, addr, n) ==
  IF n = 1 THEN lists
  ELSE [lists EXCEPT ![k] = [i \in 1..n - 1 |-> addr + i * ClassSize(k)]]

\* chunk_alloc before it grows: what is left of the reserve becomes a block
\* of the class it fits exactly.
PushLeftover(lists) ==
  IF BytesLeft > 0 THEN Push(lists, GET_FREELIST_IDX(BytesLeft), free_begin) ELSE lists

\* chunk_alloc's nobjs: ONCE_FILL_NUM blocks, or as many as the reserve holds.
ObjectsFromReserve(nsize) ==
  IF BytesLeft >= nsize * OnceFillNum THEN OnceFillNum ELSE BytesLeft \div nsize

\* The new chunk starts with a link to the others.
LinkChunk(addr) == <<addr>> \o chunk_list

BytesToGet(nsize) == 2 * nsize * OnceFillNum + ROUND_UP(heap_size \div 16)
-----------------------------------------------------------------------------
\* The constructor has run; malloc has given nothing yet.
Init == /\ free_list = [k \in Classes |-> <<>>]
        /\ free_begin = Null /\ free_end = Null /\ heap_size = 0
        /\ chunk_list = <<>>
        /\ mutex!Init
        /\ brk = Align /\ system = {}
        /\ live = {}
        /\ pc = [t \in Threads |-> "idle"]
        /\ need = [t \in Threads |-> 0]
        /\ block = [t \in Threads |-> Null]
        /\ calls = [t \in Threads |-> 0]
        /\ thrown = FALSE

Goto(t, from, to) == /\ pc[t] = from
                     /\ pc' = [pc EXCEPT ![t] = to]

\* alloc_lock_.Lock() and Unlock(), compiled in with __MULTI_THREAD_MEM_SHARE__ only.
Lock(t) == IF Locked THEN mutex!Lock(t) ELSE UNCHANGED alloc_lock_
Unlock(t) == IF Locked THEN mutex!Unlock(t) ELSE UNCHANGED alloc_lock_
CanLock == Locked => alloc_lock_ = {}

Malloc(size) == /\ brk' = brk + size
                /\ system' = system \cup {[addr |-> brk, size |-> size]}

Deliver(t, addr) == block' = [block EXCEPT ![t] = addr]
-----------------------------------------------------------------------------
(* alloc and allocate.                                                     *)

\* The sizes asked for fit n_realsize, an int32_t.  alloc(0) returns NULL at once,
\* as free(NULL) returns: neither changes anything, and neither is shown.
CallAlloc(t) == \E n \in Requests :
  /\ calls[t] < MaxCalls
  /\ calls' = [calls EXCEPT ![t] = @ + 1]
  /\ Goto(t, "idle", "a_lock")
  /\ need' = [need EXCEPT ![t] = n + HeaderSize]
  /\ UNCHANGED <<poolVars, mallocVars, alloc_lock_, live, block, thrown>>

\* More than __MAX_BYTES: Lock, compare, Unlock, and malloc outside the lock.
PassToMalloc(t) ==
  /\ Goto(t, "a_lock", "a_big") /\ CanLock
  /\ need[t] > MaxBytes
  /\ UNCHANGED <<poolVars, mallocVars, alloc_lock_, live, need, block, calls, thrown>>

AllocBig(t) ==
  /\ Goto(t, "a_big", "a_header")
  /\ Malloc(need[t])
  /\ Deliver(t, brk)
  /\ UNCHANGED <<poolVars, alloc_lock_, live, need, calls, thrown>>

\* __block_allocator::allocate throws std::bad_alloc.
AllocBigFails(t) ==
  /\ MallocMayFail
  /\ Goto(t, "a_big", "idle")
  /\ UNCHANGED <<poolVars, mallocVars, alloc_lock_, live, need, block, calls, thrown>>

SmallNeed(t) == need[t] <= MaxBytes
Class(t) == GET_FREELIST_IDX(need[t])

\* The free list has a block: its head is read, then the list is set to the
\* block's link.
ReadHead(t) ==
  /\ Goto(t, "a_lock", "a_unlink") /\ Lock(t)
  /\ SmallNeed(t) /\ free_list[Class(t)] # <<>>
  /\ Deliver(t, Head(free_list[Class(t)]))
  /\ UNCHANGED <<poolVars, mallocVars, live, need, calls, thrown>>

Unlink(t) ==
  /\ Goto(t, "a_unlink", "a_unlock")
  /\ free_list' = [free_list EXCEPT ![Class(t)] = Tail(@)]
  /\ UNCHANGED <<free_begin, free_end, heap_size, chunk_list, alloc_lock_, mallocVars,
                 live, need, block, calls, thrown>>

\* fill_list from the reserve.
Carve(t) ==
  LET nsize == ROUND_UP(need[t])
      nobjs == ObjectsFromReserve(nsize)
  IN /\ Goto(t, "a_lock", "a_unlock") /\ Lock(t)
     /\ SmallNeed(t) /\ free_list[Class(t)] = <<>> /\ BytesLeft >= nsize
     /\ Deliver(t, free_begin)
     /\ free_begin' = free_begin + nsize * nobjs
     /\ free_list' = Refill(free_list, Class(t), free_begin, nobjs)
     /\ UNCHANGED <<free_end, heap_size, chunk_list, mallocVars, live, need, calls, thrown>>

\* The reserve is too short: its rest goes to a free list, a new chunk is
\* linked in front of chunk_list and becomes the reserve.
Grow(t) ==
  LET nsize == ROUND_UP(need[t])
      get == BytesToGet(nsize)
      begin == brk + PtrSize
  IN /\ Goto(t, "a_lock", "a_unlock") /\ Lock(t)
     /\ SmallNeed(t) /\ free_list[Class(t)] = <<>> /\ BytesLeft < nsize
     /\ Malloc(get + PtrSize)
     /\ chunk_list' = LinkChunk(brk)
     /\ heap_size' = heap_size + get
     /\ Deliver(t, begin)
     /\ free_begin' = begin + nsize * OnceFillNum
     /\ free_end' = begin + get
     /\ free_list' = Refill(PushLeftover(free_list), Class(t), begin, OnceFillNum)
     /\ UNCHANGED <<live, need, calls, thrown>>

\* malloc fails after the rest of the reserve went to its free list: the
\* exception leaves chunk_alloc, fill_list, allocate and alloc, past the
\* Unlock and before free_begin is assigned.
GrowFails(t) ==
  /\ MallocMayFail
  /\ Goto(t, "a_lock", "idle") /\ Lock(t)
  /\ SmallNeed(t) /\ free_list[Class(t)] = <<>> /\ BytesLeft < ROUND_UP(need[t])
  /\ free_list' = PushLeftover(free_list)
  /\ thrown' = TRUE
  /\ UNCHANGED <<free_begin, free_end, heap_size, chunk_list, mallocVars, live, need, block, calls>>

AllocUnlock(t) ==
  /\ Unlock(t) /\ Goto(t, "a_unlock", "a_header")
  /\ UNCHANGED <<poolVars, mallocVars, live, need, block, calls, thrown>>

\* alloc stores n_realsize in front of the data and returns.
StoreHeader(t) ==
  /\ Goto(t, "a_header", "idle")
  /\ live' = live \cup {[addr |-> block[t], real |-> need[t]]}
  /\ Deliver(t, Null)
  /\ UNCHANGED <<poolVars, mallocVars, alloc_lock_, need, calls, thrown>>
-----------------------------------------------------------------------------
(* free and deallocate.                                                    *)

\* A client gives up a block; free reads n_realsize from the header.
CallFree(t) == \E b \in live :
  /\ Goto(t, "idle", "f_lock")
  /\ live' = live \ {b}
  /\ need' = [need EXCEPT ![t] = b.real]
  /\ Deliver(t, b.addr)
  /\ UNCHANGED <<poolVars, mallocVars, alloc_lock_, calls, thrown>>

FreeSmall(t) ==
  /\ Goto(t, "f_lock", "f_unlock") /\ Lock(t)
  /\ SmallNeed(t)
  /\ free_list' = Push(free_list, Class(t), block[t])
  /\ Deliver(t, Null)
  /\ UNCHANGED <<free_begin, free_end, heap_size, chunk_list, mallocVars, live, need, calls, thrown>>

\* The system's free is called with the lock held.
FreeBig(t) ==
  /\ Goto(t, "f_lock", "f_unlock") /\ Lock(t)
  /\ need[t] > MaxBytes
  /\ system' = {r \in system : r.addr # block[t]}
  /\ Deliver(t, Null)
  /\ UNCHANGED <<poolVars, brk, live, need, calls, thrown>>

FreeUnlock(t) ==
  /\ Unlock(t) /\ Goto(t, "f_unlock", "idle")
  /\ UNCHANGED <<poolVars, mallocVars, live, need, block, calls, thrown>>
-----------------------------------------------------------------------------
\* ~__min_allocator, at exit: every chunk goes back to the system.  It is taken to
\* run when no call is under way; the workers of a pipeline, which are still there
\* when main returns, are assumed to have nothing in hand.
Destroy ==
  /\ chunk_list # <<>>
  /\ \A t \in Threads : pc[t] = "idle"
  /\ system' = {r \in system : \A i \in 1..Len(chunk_list) : r.addr # chunk_list[i]}
  /\ chunk_list' = <<>>
  /\ pc' = [t \in Threads |-> "exited"]
  /\ UNCHANGED <<free_list, free_begin, free_end, heap_size, alloc_lock_, brk, live,
                 need, block, calls, thrown>>

InCall(t) == \/ PassToMalloc(t) \/ AllocBig(t) \/ AllocBigFails(t)
             \/ ReadHead(t) \/ Unlink(t) \/ Carve(t) \/ Grow(t) \/ GrowFails(t)
             \/ AllocUnlock(t) \/ StoreHeader(t)
             \/ FreeSmall(t) \/ FreeBig(t) \/ FreeUnlock(t)

Next == \/ \E t \in Threads : CallAlloc(t) \/ CallFree(t) \/ InCall(t)
        \/ Destroy

\* A thread inside a call is eventually scheduled.
Fairness == \A t \in Threads : WF_vars(InCall(t))

Spec == Init /\ [][Next]_vars
FairSpec == Spec /\ Fairness
-----------------------------------------------------------------------------
TypeOK == /\ free_list \in [Classes -> Seq(Nat)]
          /\ free_end \in Nat /\ free_begin \in 0..free_end /\ heap_size \in Nat
          /\ chunk_list \in Seq(Nat)
          /\ alloc_lock_ \in SUBSET Threads
          /\ brk \in Nat
          /\ system \subseteq [addr : Nat, size : Nat]
          /\ live \subseteq [addr : Nat, real : Nat]
          /\ pc \in [Threads -> {"idle", "a_lock", "a_big", "a_unlink", "a_unlock", "a_header",
                                 "f_lock", "f_unlock", "exited"}]
          /\ need \in [Threads -> Nat]
          /\ block \in [Threads -> Nat]
          /\ calls \in [Threads -> 0..MaxCalls]
          /\ thrown \in BOOLEAN

\* The bytes of a block whose owner knows it by the size in its header.
Capacity(real) == IF real > MaxBytes THEN real ELSE ROUND_UP(real)

\* Every piece of memory with its owner: free blocks, the reserve, chunk
\* links, blocks on their way between pool and client, blocks of clients.
FreePieces == UNION {{[owner |-> <<"free", k, i>>, lo |-> free_list[k][i],
                       hi |-> free_list[k][i] + ClassSize(k)] :
                         i \in 1..Len(free_list[k])} : k \in Classes}
ReservePieces == IF free_begin = free_end THEN {}
                 ELSE {[owner |-> <<"reserve">>, lo |-> free_begin, hi |-> free_end]}
LinkPieces == {[owner |-> <<"link", i>>, lo |-> chunk_list[i], hi |-> chunk_list[i] + PtrSize] :
                 i \in 1..Len(chunk_list)}
Carriers == {t \in Threads : block[t] # Null /\ pc[t] # "a_unlink"}
CarriedPieces == {[owner |-> <<"thread", t>>, lo |-> block[t],
                   hi |-> block[t] + Capacity(need[t])] : t \in Carriers}
LivePieces == {[owner |-> <<"client">>, lo |-> b.addr, hi |-> b.addr + Capacity(b.real)] : b \in live}

Pieces == FreePieces \cup ReservePieces \cup LinkPieces \cup CarriedPieces \cup LivePieces

Disjoint(p, q) == p.hi <= q.lo \/ q.hi <= p.lo

\* No byte has two owners as long as no refill throws: a block is never on
\* two free lists, never handed to two clients, never cut again from the
\* reserve.
NoOverlap == thrown \/ \A p, q \in Pieces : p # q => Disjoint(p, q)

\* No byte of a chunk is lost: what the chunks offer is at every moment on a
\* free list, in the reserve, under way or with a client, all of it.  (A
\* refill that throws leaves bytes in two places, not in none.)
PoolPieces == FreePieces \cup ReservePieces
              \cup {p \in CarriedPieces \cup LivePieces : p.hi - p.lo <= MaxBytes}
NoByteLost == thrown \/ MapThenSumSet(LAMBDA p : p.hi - p.lo, PoolPieces) = heap_size

\* What malloc gave out and has not got back is exactly the chunks and the
\* blocks above __MAX_BYTES: none leaked, none freed twice, none freed while
\* a client has it; after the destructor only the clients' big blocks remain.
BigBlocks == {b.addr : b \in {x \in live : x.real > MaxBytes}}
             \cup {block[t] : t \in {x \in Carriers : need[x] > MaxBytes}}
SystemAccounted == /\ {r.addr : r \in system} = Range(chunk_list) \cup BigBlocks
                   /\ Cardinality(system) = Len(chunk_list) + Cardinality(BigBlocks)

\* To its clients the pool is a heap (module Heap).  A client's region counts
\* from the header, on which the later free relies.
ClientRegions == {[lo |-> b.addr, hi |-> b.addr + b.real] : b \in live}
ClientHeap == INSTANCE Heap WITH regions <- ClientRegions
ImplementsHeap == ClientHeap!Spec

\* Threads between Lock and Unlock.
Inside(t) == pc[t] \in {"a_unlink", "a_unlock", "f_unlock"}

LockedUp == alloc_lock_ # {} /\ \A t \in Threads : ~Inside(t)

\* A locked pool is left locked, with nobody inside, by a refill that throws and
\* by nothing else: it passes the Unlock of memallocator.cc:98, and no call
\* repairs that.
LeftLocked == Locked => (thrown <=> LockedUp)

\* A refill that throws is the only thing that keeps calls from returning:
\* neither contention nor a failed malloc of a big block does.  (It throws past
\* the Unlock of memallocator.cc:98; the calls after it wait for ever.)
ReturnsUnlessThrown == \A t \in Threads :
  pc[t] # "idle" ~> (pc[t] \in {"idle", "exited"} \/ thrown)
=============================================================================
