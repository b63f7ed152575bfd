# A TLA+ verification of SoarCPP

SoarCPP is a small framework for TCP services in C++: a memory pool, locks made of
inline assembly, sockets, an epoll event loop, and a pipeline of worker threads that
the event loop feeds. This directory holds TLA+ models of the parts that carry its
logic, TLC runs that check them on small instances, and TLAPS proofs of what matters
most for instances of every size.

The repository holds two copies of the framework that have drifted apart: `soar/` (the
library) and `sample/soar/` (what the sample service is linked with). Models follow
`soar/`; where the copies differ in behaviour a variable `copy`, chosen once in `Init`,
says which one runs, so that one run checks both, or the difference is named below. Files outside the paths named here (object files, debug symbols,
diagrams) are not looked at.

## 1. Inventory

| Component | Source | State it keeps | Operations | Model |
|---|---|---|---|---|
| Atomic helpers | `communal.h:32-100` | none, they work on a caller's word | add/sub in two forms, compare-and-swap in two forms | `AtomicOps`, `Atomics` |
| SpinLock | `system/spinlock.*` | `locking` | `Lock`, `TryLock`, `Unlock`, `is_lock` | `SpinLock` |
| StdMutexLock | `system/lock.*` | a `pthread_mutex_t` | `Lock`, `Unlock` | `Mutex` |
| SoarWRLock | `system/lock.*` | `is_writing_`, `writer_cnt_`, `reader_cnt_` | `LockR/UnlockR`, `LockW/UnlockW` | `SoarWRLock` |
| StdRWLock | `system/lock.*` | a `pthread_rwlock_t` | forwards | not modelled |
| MemoryPool (`__min_allocator`) | `system/memallocator.*` | free lists, reserve, chunk list, `alloc_lock_` | `alloc`, `free`, construction, destruction | `MinAllocator` over `Heap` |
| SystemAllocator (`__block_allocator`) | `system/memallocator.*` | the out-of-memory handler | `allocate`, `reallocate`, `deallocate`, `set_new_handler` | `BlockAllocator` |
| SoarSTLAllocator | `system/memallocator.h` | one static pool per element type | forwards | not modelled |
| SoarThread | `system/thread.*` | `id_`, callback, argument | `run`, `join`, ... | in `Startup`, partly |
| PipeLine, PipeNode | `scheduling/pipeline.*` | per node: `input_buffer_`, `buffer_lock_`, `n_worker_`, `next_`, workers | `AddNode`, `SwitchON`, `NewTask`, worker loop | `PipeLine` over `TaskFlow`; `Startup` |
| Distributor | `scheduling/distributor.*` | none (an interface) | `RecvMessage`, `GetMsgDestination` | the sample's in `SoarSocket`; `SoarApp` |
| SoarSocket | `network/socket.*` | `sockfd_`, `status_` | connect, listen, send, receive, close | `SoarSocket` |
| SoarEvent | `network/event.h`, `event/epoll.cc` | epoll set, `error_id_` | add/modify/delete, `EventLoop` | `SoarEvent` (without modify, delete) |
| SoarApp | `soarapp.h` | port, pipelines, core socket | `Start`, `waiting_events` | `Startup`, `SoarApp`, producer of `PipeLine` |
| Sample service | `sample/main.cc` | none | `main`, a distributor, two process functions | `Startup`, `SoarSocket`, `PipeLine` |
| SoarException, md5, rc4 | | | a value class, empty files | not modelled |

### How the components interact

* `main` configures `PipeNode`s, copies them into a `PipeLine` (`AddNode`), copies the
  pipeline into `SoarApp` and calls `Start`. `Start` switches every node on (creating
  its threads), opens the port, and enters the event loop in the same thread.
* The event loop accepts connections, lets the distributor turn bytes into a
  `SoarDataBlock` and calls `NewTask` on the first node. That is a call, under the
  node's `buffer_lock_` (a `StdMutexLock`).
* Worker threads poll the buffer of their node. They share the deque, the lock and
  `next_` with the other workers, and write to the deque of the next node.
* Blocks come from the pool `g_mempool`; the deques and strings use
  `SoarSTLAllocator`, hence further pools. Pools fall back on `SystemAllocator`.
* `SpinLock` and `SoarWRLock` are used by nothing but their tests; `StdMutexLock`
  guards the pool (with `__MULTI_THREAD_MEM_SHARE__`) and the pipe nodes.

### What is hard in this code, and what makes each part correct

* **Locks**: interleavings of single memory accesses. Correct when exclusive, when the
  words always tell who is inside, and when waiting ends.
* **Atomic helpers**: three of the six read the word outside the locked instruction.
  Correct when what they return still lets callers decide what they decide with it.
* **Pool**: blocks move between free lists, the reserve, chunks and clients, with odd
  remainders, under concurrency and with `malloc` failing half way. Correct when every
  byte has exactly one owner, nothing is lost, every call ends.
* **SystemAllocator**: a retry loop around a client's handler, without a lock. Correct
  when failures lose nothing, what the handler frees is used, the loop ends.
* **Pipeline**: an unlocked check before the locked one, a task that stays in the
  buffer while it is processed, a delivery after the unlock. Correct when every task
  goes through every stage once, in order of the stages, and leaves in the end.
* **Sockets**: descriptors are numbers the system gives out again, transfers are cut
  anywhere, signals and resets come in between. Correct when an object only touches its own
  file, what is read is the stream, what is sent is the buffer, and loops end.
* **Event loop**: readiness reported by level or by edge, a union that loses what it is
  given, calls that fail one by one, a descriptor table that fills up. Correct when every
  client is accepted and received from, and failures are noticed.
* **Start-up**: partial failure, two diverged copies, uninitialised memory. It would be
  correct if the port opened only on a complete pipeline and `Start` always came to an end; neither is so (section 4).

`PROJECT.json` lists under "hazards" each of these at its line.

## 2. The modules

A TLA+ step is one access to shared memory wherever accesses race, and one critical
section (or its interesting parts) where a lock covers it; each module's header says
which. `pc` says where a thread is. Definitions keep the names of the code.

* **`AtomicOps`**: what a locked `cmpxchgl` and `xaddl` do to a word.
* **`Mutex`**: the abstract mutex: a set of holders with at most one member. It is what
  `StdMutexLock` is modelled by (used by `MinAllocator`) and what the two spin locks
  are shown to implement.
* **`Atomics`**: threads calling the six helpers on one word. The re-reads of
  `atomic_add_then_fetch`, `atomic_sub_then_fetch` and the earlier read of
  `atomic_compare_and_swap_value` are steps of their own. A behaviour is one of three
  uses: racing additions, a count released by its owners, a word claimed.
* **`SpinLock`**: `Lock` is `CallLock`, `Spin`, `LockTry`; `TryLock` and `Unlock` are a
  step each. `MCSpinLock` (and `MCBlockAllocator` for `BlockAllocator`) instantiates the component under names of
  its own, so that its run and its proofs, beside another component's, are about the same formulas.
* **`MCWords`**, **`MCAllocators`** put two components that share nothing into one run: the helpers and the spin
  lock; the pool and the system allocator. One starts only while the other is as it was at the start. What
  is a behaviour of either component stays one, and its fairness asks nothing of it while it is not in use.
* **`SoarWRLock`**: each line of `lock.cc:52-77` is one or two steps (`PassGate`,
  `AddReader`, `RereadReaders`, `UnlockR`; `AddWriter`, `RereadWriters`, `SeeNoReaders`,
  `GrabFlag`, `RetireWriter`, `ClearFlag`), the load is that of `TestCases/test_wrlock.cc`
  with its unprotected load and store of the counter (`LoadCnt`, `StoreCnt`, `ReadCnt`).
  `MCSoarWRLock` adds a history variable: the readers that entered ahead of a writer.
* **`Heap`**: what an allocator promises: regions given out never share a byte.
* **`MinAllocator`**: the pool with addresses and sizes as numbers, so that splitting,
  rounding and carving are the code's arithmetic. `allocate` is `ReadHead`/`Unlink`,
  `Carve` (from the reserve), `Grow` (a new chunk), `GrowFails` (bad_alloc),
  `PassToMalloc`/`AllocBig`; `free` is `CallFree`, `FreeSmall`, `FreeBig`;
  `Destroy` is the destructor. `malloc` hands out fresh addresses and may fail.
* **`BlockAllocator`**: memory as a number of units, the handler pointer tested and called
  in two steps. The handler itself is the clients': a usual one that releases a
  reserve and uninstalls itself when it has none left. `MCBlockAllocator` adds a history variable,
  `helped`: the calls for which `malloc` has had enough ever since they last called the handler.
* **`PipeLine`**: the running pipeline. `Look` and `SeesEmpty`/`SeesTasks` are the two
  reads of the unlocked `empty()`; `Process` (under the lock, task still queued),
  `PopFront`, `WorkerUnlock`, `Save`, `SaveUnlock` follow `work_thread_callback_`.
  `ProcessHangs` is a process function that never returns (`sample/main.cc:56`), at the
  nodes of `MayHang`; the worker keeps the buffer lock. In the code that function appends to a string
  until memory runs out and the process ends: the model is the long time before. The
  event loop is `Receive`, `AppPush`, `AppUnlock`. A deque is the sequence of tasks ever
  pushed and the number popped, the two positions `empty()` compares. `MCPipeLine` sets
  the number of workers of each node.
* **`TaskFlow`**: what a pipeline promises: a task enters once, runs through the stages
  in order, each once, and leaves.
* **`Startup`**: from `main` to the event loop. `copy` decides whether `SwitchON` joins its
  workers (only `soar/`) and whether `AddNode` copies `n_worker_` (only the sample; in `soar/`
  it becomes any number: `Counts`, where -1 stands for all that are negative). Constants say
  what raw memory reads as, whether `pthread_create` may fail, and whether memory may run out:
  `bad_alloc` is in no throw specification on the way, so it ends the process (`OutOfMemory`), and
  a negative number of workers does the same. A join with a worker that was created has no step; one with a
  thread that was not is undefined (`JoinUnset`): it goes on, ends the process, or hangs.
* **`SoarSocket`**: one socket object, of either copy, in a process that opens and closes
  other files. `file` is the descriptor table, lowest number first, 0 included; `sockfd_`,
  `status_` are those of the object. `set_fd` and the constructor from a number take any number there is, as
  `soarapp.h:85` passes that of an event item; the history `handed` says that it named no file of the object's. Operations without a loop are one action each (construction in
  three forms, `set_fd`, `ListenAndBind`, `Connect` in two forms, blocking modes, `Close`, destruction,
  `Recv`); `Send`, `Recv_n` and the `RecvMessage` of the sample take one step per system call. The
  bytes of a connection are numbered, reads and writes move any part of them, `EINTR`,
  end of file, reset and a full non-blocking buffer happen. A write to a connection that is gone
  fails, or kills the process by SIGPIPE (`Killed`), which nothing in `src/` ignores; then a new process starts. `connect`
  keeps O_NONBLOCK, and one that fails leaves what it found. `call` is the transfer under way.
* **`SoarEvent`**: the object over epoll, as operators on the interest list, the news not yet
  reported (edge-triggered in the sample only) and `error_id_`, with the `data` union and `err_map_`.
* **`SoarApp`**: extends `SoarEvent` by the end of `Start` and `waiting_events`: one step per call
  of `EventLoop`, per item and per turn of the accept loop, among clients that arrive, send and
  break. Descriptors are numbers; `stdin` says whether 0 is standard input. System calls fail at
  most `MaxFails` times; a full table (`FdLimit`) fails always. What a received block does is `PipeLine`'s,
  how it is received `SoarSocket`'s; here it succeeds or ends the service.
* **`LockProofs`, `AtomicsProofs`, `MinAllocatorProofs`, `ConservationProofs`, `PipeLineProofs`, `StartupProofs`,
  `SoarSocketProofs`, `SoarAppProofs`**: theorems, section 5. `LockProofs` is about `SoarWRLock` and, through
  `MCSpinLock`, `SpinLock`; `ConservationProofs` about `MinAllocator` and, through `MCBlockAllocator`, `BlockAllocator`.

Facts of the build that the models rely on: the Makefiles compile with `g++ -g`, without
optimisation, so the plain re-reads and the two loads of `empty()` and of the handler
pointer are real loads, and `atomic_compare_and_swap_bool` keeps the zero it
initialises its result with (its asm operand `"=m"(rtn)` would permit an optimiser to drop it).
x86 locked instructions are full barriers; the words of the locks are only read with
plain loads in the places modelled as such, so sequential consistency is adequate.

## 3. The runs

| Run | Instance | States | What it shows |
|---|---|---|---|
| `words` | helpers: 3 threads, 2 additions each; spin lock: 4 threads | 417k | what callers may conclude from the six results; the lock word tells the truth, `SpinLock` implements `Mutex`, someone always gets in |
| `wrlock` | 2 readers, 2 writers of 2 rounds | 189k | writers exclude each other, counters exact, the count of the test complete (no increment lost), a reader overtakes a waiting writer at most once, writers finish, readers resume |
| `wrlock_exclusion` | 1 and 1 | violation | a reader and a writer are inside together |
| `allocators` | pool: 2 threads, 2 allocations each, 3 size classes and a big size, `malloc` may fail; system allocator: 2 threads, 4 units | 235k | pool: one owner per byte, no byte lost, chunks accounted for, the lock lost only to a refill that throws, implements `Heap`, calls return; system allocator: memory conserved, what the handler frees is tried before anything else, the retry loop ends |
| `pool_oomShared` | 1 thread, unlocked pool | violation | after `bad_alloc` the leftover is handed out twice |
| `pipe` | 3 nodes of 1, 2, 1 workers, 2 tasks, the middle function may hang | 25k | no task lost, doubled, skipped; order; implements `TaskFlow`; every task leaves or is held up at the hanging node |
| `startup` | both copies, 3 nodes, -1 to 2 workers each, everything may fail | 720k | the port opens after a `run` for every worker configured, in `soar/` only without any worker; `Start` comes to rest, or `soar/` waits in `join` for a worker it has run |
| `socket` | both copies, 2 descriptors, streams of 3 bytes, transfers of 2 | 187k | when the next close is somebody else's, on what data is moved, what is read is the stream, `Recv_n` returns once there is enough |
| `socket_resend` | the same without NUL | violation | `Send` writes again what it has written |
| `app` | both copies, with and without standard input, 3 clients, batches of 2, 2 failures, a table of 2 | 106k | nobody is stranded once the listening socket is recognised; failures are told |
| `app_deaf` | standard input open, 1 client | violation | nobody is ever accepted |
| `app_unread` | no standard input, 1 client | violation | the client is accepted and never received from |

Bounds, and why they are enough:

* *Threads*: every property of the locks relates at most two threads plus one that
  interferes; 4 threads (2+2 for the reader/writer lock) cover that, the theorems the rest.
* *Rounds of a writer* (2): a second round starts from whatever the first left behind.
* *Pool*: two classes below the largest and one request that rounds up from a size that is
  no multiple of `__ALIGN` (5+4 bytes), one that exceeds `__MAX_BYTES` only with its
  header (24+4); `ONCE_FILL_NUM` = 2 makes the reserve run out, leave remainders of every
  class and be outgrown within 2 to 3 calls. Four calls in all.
* *Pipeline*: two workers in the middle node give the race on one buffer and the
  overtaking on the way to the last; two tasks are enough for an overtaking and for a
  worker that finds the buffer emptied since it looked.
* *System allocator*: requests of 1 to 3 of 4 units make two threads compete for what the handler frees, and
  fail with and without a handler, and with a block to keep.
* *Start-up*: three nodes so that one fails after a good one and before another; numbers of workers that
  are negative, zero, one and more than one. In `soar/` nothing depends on larger ones: the second node is not reached
  with a worker.
* *Socket*: two descriptors are the number 0, which objects are born with, and another one; either is closed, taken by
  another file and closed again. Two bytes per call and three in the stream give short
  transfers, a rest and a '\0'.
* *Event loop*: three clients for a batch of two and a table of two: a batch that does not
  hold all, a client that comes while the accept loop runs, one that finds the table full.
  Two failures: one lost registration and one failed accept.

Symmetry is not used: the runs with liveness properties would not allow it and the others
are fast enough. Deadlock is checked where threads never stop (`wrlock`, `pipe`, `socket`);
elsewhere the bound on calls, the end of the process or a lock that is held for ever ends behaviours.

### Fairness

Weak fairness of each thread's steps, and nothing stronger: a thread that can run is
eventually scheduled. It is stated for the steps inside a call or a loop that never
pauses; nothing obliges a client to call (`SpinLock`, `MinAllocator`,
`BlockAllocator`) or a message to arrive (`PipeLine`), a socket to be used or a peer to send (`SoarSocket`). The thread of the
event loop is not stopped (`SoarApp`), nor is main (`Startup`), but for a join that is undefined. Locks are not assumed to be fair:
`SomeoneEnters` is lock freedom, and a single waiter of `SpinLock` may starve.
`ReturnsUnlessThrown` says of every call of the pool that it returns, and so needs more than the code
gives in general: a thread waiting for `alloc_lock_` could be passed over as long as others keep calling. It holds under weak fairness only
because `MaxCalls` bounds the calls of each thread, and with them the contention.
In `SoarWRLock` the readers of the test loop for ever and the writers are finite, as in the test.
`pthread_mutex_lock` in `PipeLine` needs only weak fairness for
`EveryTaskLeaves`: a worker that keeps losing the lock loses it to workers that take tasks, or to a producer that has finitely many.

### Properties worth a word

* `WritersFinish` holds although readers come without pause: the gate of `LockR`
  stops new readers as soon as a writer is announced; `OvertakenAtMostOnce` says how far
  that preference goes.
* `LastOwnerKnows`: `atomic_sub_then_fetch` may return a value made by others, yet
  the last owner of a count is always told; `NeverBelowOwnSum` is what the loops of `LockR`
  and `LockW` rely on.
* `NoOverlap` and `NoByteLost` together say that free lists, reserve, chunks and clients
  partition the memory of the pool. They hold until a refill throws; `LeftLocked` and `ReturnsUnlessThrown`
  say that nothing else can break the pool.
* `HandlerNotInVain` is about the `for (;;)` of `out_of_mem_malloc` and `out_of_mem_realloc`: after each call of the
  handler memory is asked for again before the handler is looked at. What is freed may still go to another thread; if it does not, no call
  throws and no call makes the handler free more.
* `CallsEnd` is conditional: if threads go on installing handlers for ever the loop
  may go on for ever as well.
* `WorkersWhenOpen` counts the threads that `pthread_create` did not create with the others: it says for
  which workers `run` was called, not that they are there. They need not be (`FullyStaffed`, section 4).
* `StartDecides` accepts that `soar/` waits in a join for ever, since it does; it says that nothing else keeps `Start` from its end.
* `AimsAtOwn` names the cases in which the next `close` may hit somebody else's file: after a
  `Close` by hand, with number 0, and when the object was handed a number that named no file of its own. `TransfersOnOwn`
  is what the test of `soar/` gains by `||`; what it costs is that accepted connections, which `soarapp.h:84` means to read from, are refused.
* `ReceivesInOrder` covers `Recv`, `Recv_n` and `RecvMessage` over every cut of the stream. It is about what is
  returned; what a transfer that throws has read before is lost (`NothingLost`, section 4).
* `NoneStranded` is why an edge-triggered accept loop has to go on to EAGAIN, and tells when that is
  not enough: after an accept that failed. It excepts a full descriptor table, where nobody is accepted any more.
* `FailuresAreReported`: the result of `NewEvent` has no effect in `SoarApp` (a 1 is compared with `< 0`), yet an error is kept, and the
  fallback of `SetEvent` covers what the map of errors leaves out. With several failures the error is that of the last.
* `OneHolder` and `PopsWhatItProcessed` are why checking `empty()` without the lock is
  harmless here: the second check under the lock decides. `OvertakenOnlyInHand` locates
  the only place where tasks change their order; `KeepsOrder` follows where no two workers compete.

## 4. Findings

* **Reader and writer together** (`wrlock_exclusion`): `LockR` tests `writer_cnt_` and counts
  its reader afterwards; a writer fits in between.
* **Pool after bad_alloc** (`pool_oomShared`): in an unlocked pool a refill that throws leaves
  its leftover both on a free list and in the reserve. (In a locked one `chunk_alloc` throws past
  the `Unlock` and the pool is dead: `LeftLocked`, and the exception in `ReturnsUnlessThrown`.)
* **A deaf service** (`app_deaf`): `SetEvent` overwrites the descriptor by the NULL pointer of the same
  union, so every item is reported with descriptor 0. With standard input open the listening socket is another number and nobody is
  accepted.
* **Clients nobody reads** (`app_unread`): without standard input the listening socket is 0. Everybody is accepted, and
  the items of the connections, 0 as well, are taken for new connections: `soarapp.h:84` is never reached for a client.
* **Bytes sent for ever** (`socket_resend`): `Send` reduces `nleft` and moves `ptr` in its error branch only. After a write that
  succeeds the same bytes are written again, until the connection fails.

More of what the code seems to promise is false; each of these has a definition and a configuration with which TLC shows
a behaviour that violates it, but is not among the runs above:

| Configuration | Property of | What is false |
|---|---|---|
| `Startup_join.cfg` | `Startup`, `StartEnds` | `Start` comes to an end: `SwitchON` of `soar/` joins workers that never return, with nothing failing (`pipeline.cc:49`) |
| `Startup_short.cfg` | `Startup`, `FullyStaffed` | the service has the workers it was configured with: `run` ignores what `pthread_create` returns (`thread.cc:17`) |
| `SoarSocket_close.cfg` | `SoarSocket`, `ClosedOwnsNothing` | a closed object has nothing to close: `Close` keeps `sockfd_` and the destructor closes it again (`socket.cc:214`) |
| `SoarSocket_lost.cfg` | `SoarSocket`, `NothingLost` | a `RecvMessage` that throws leaves what was sent: what it has read before is gone (`main.cc:26`) |
| `SoarSocket_recvn.cfg` | `SoarSocket`, `RecvNGivesUp` | `Recv_n` comes back when the stream ends: it reads nothing, again and again (`socket.cc:198`) |
| `SoarApp_unthrown.cfg` | `SoarApp`, `AddFailureThrown` | a connection that cannot be watched is an exception: `NewEvent` returns 1, the test is `< 0` (`soarapp.h:78`) |
| `SoarApp_full.cfg` | `SoarApp`, `AllAccepted` | every client is accepted: connections are never closed, and the descriptors run out (`soarapp.h:71`) |

Facts of the code met while modelling: `soar/` would man nodes with any number of workers, and a negative one ends the process;
a request that begins with GET stops its node (`EveryTaskLeaves`); the comments at `communal.h:45` and
`:67` promise the sum of the one addition, the helpers return what the word is by then; `SoarThread`
objects live in raw memory, so `run` tests an uninitialised `id_`; the out-of-memory
handler may be uninstalled by another thread between test and call (`CallNull` in
`BlockAllocator`).

## 5. The proofs

All proofs are checked by TLAPS with SMT, Zenon and LS4 (`tlapm <module>`). They hold for
any set of threads, readers, writers, nodes, workers and tasks, under the assumptions
the modules state about their constants and no others.

* **`LockProofs`**. For `SoarWRLock`, `IInv` = types, exclusion of writers, the flag matches its holder,
  `NoStaleStore`, and that a writer inside has a round to go. `FlagMatchesHolder` must cover the window of
  `UnlockW` in which the writer has withdrawn and the flag is still set. `CountersExact`
  is inductive beside it and needs finite sets of threads: each
  step moves one thread in or out of a set, `FS_AddElement` and `FS_RemoveElement` do the counting.
  `NeverCountedTwice` follows: a thread about to re-read is itself counted, so the value is positive.
  `CountsAll` is what the test is for: `cnt` is the number of pairs of a writer and a round it has completed (`Increments`), each
  store adds one pair, and at the end the pairs are all there are.
  `WritersHaveMutex` is the refinement of `Mutex` among the writers. `WriterPreference` is about `MCSoarWRLock` and the
  action property `OvertakenAtMostOnce`: a reader that has overtaken a waiting writer is inside or outside,
  in front of the gate (`OvertakersOut`), and the gate is shut because the writer is counted (`GateShut`, which is where
  `CountersExact` is needed).
  For `SpinLock` (instance `Spin` of `MCSpinLock`), `IInv` = types, mutual exclusion, and `WordMatchesHolder`: exclusion
  alone is not inductive, a CAS that succeeds must imply an empty critical section.
  From it: `SpinTypeCorrect`, `SpinExclusion`, `SpinWordTellsTruth`, and `SpinLockIsMutex`, every step is a
  step of `Mutex` or leaves `Critical` alone.
* **`PipeLineProofs`**. For chains of any length, any number of workers at each node and any
  number of tasks. `IInv` (in `PipeLine`) = types; `PointsOfCode`, what a thread has in hand at each point of
  its loop; `LocksMatch`, the owner of a buffer lock is the one thread inside the node; and
  the history: `QueuesOrdered`, what waits at node n has been through exactly the n - 1 nodes before and
  no task comes to a node twice; `HandsOrdered`, a task in a worker's hands is in no other's and not yet
  queued at the next node; `PoppersReady`; `OutsideUntouched`; `StagesInOrder`. The
  last five need each other: that nobody else holds the front of a queue (`NobodyHoldsFront`) follows
  because he would have it from the node before and it is queued here already. From it:
  `TypeCorrect`, `NoDeadlockOverLocks`, `PopsProcessed` and `Implementation`, the refinement of `TaskFlow` in which
  `AppPush` is `Enter`, `Process` is `Run`, the delivery at the last node is `Leave` and the other
  actions stutter. `StepKinds` sorts the actions into these.
  Beside `IInv` stands `FlowInv`, which says where tasks are, as `IInv` says where they are not: `NoneLost`, what is inside
  waits at a node or is in hand; `NoneSkipped`, what a node is done with is queued at the next, left, or is in hand there;
  `HandsFromQueue` and `QueueFromQueue`, what is in hand or at the next node is what the node is done with; `SoleHand`, the only
  worker of a node holds what the node did last; `InTurn`, the event loop receives tasks in order. With them `TasksConserved`
  (`OneHolder`: at most one place from `IInv`, some place from `NoneLost`; that a queue is never longer than there
  are tasks takes the pigeonhole principle), `OvertakingBounded` and `OrderKept`, which is by itself inductive
  along the chain: what a sole worker saves is above what it has saved, since both are in the order of its own queue.

* **`AtomicsProofs`**. `NeverBelowOwnSum` needs `AddInv`: from its addition to its re-read a thread's own sum
  stays below the word. `LastOwnerKnows` needs `ReleaseInv`: the word is the number of owners that have
  not subtracted yet (`FS_RemoveElement`), and when there are none left, one of them knows or is about to read a 0.
  `OneClaimant` needs `ClaimInv`: while the word is 0, what a caller of `compare_and_swap_value` has read is 0.
  At least one thread is assumed: with none, nobody learns that it was the last.
* **`MinAllocatorProofs`**. First `PoolInv` = types; `Held`, who is between Lock and Unlock holds the lock, also after a
  refill that threw; `HeadThere`, a head that was read is still there when it is unlinked, since nobody else is
  inside (`Alone`, in an unlocked pool because there is one thread); `Sized`. That the reserve never passes its
  end rests on the arithmetic of `ROUND_UP` and `nobjs` (`FromReserve`, `Chunk`), that a size has a free list on
  `__MAX_BYTES` being a multiple of `__ALIGN` (`HasClass`). Then `Books` = where a thread carries a big block (`Where`), every
  region is a chunk or a big block (`Known`), none twice (`OnceEach`), from which `SystemAccounted` follows by counting.
  Last `Tiled` = the memory below `brk` is covered by pieces with an owner each (`AllApart`, `Bounded`): a step hands a piece on
  (`ChangesHands`), divides one (`CutApart`), gives one up (`Fewer`) or adds pieces above (`AddAbove`). Besides it
  needs that a head that was read is the head until it is unlinked (`HeadRead`), that no block is on a list twice,
  and that the reserve stays a multiple of `__ALIGN` (`ReserveAligned`), or its rest would overlap what follows it on the
  free list it goes to when the pool grows (`Leftover`). `NoOverlap` follows (`NoSharedByte`). After a refill that threw, `Tiled` keeps only
  what threads and clients have, and `LockedUp`: the lock is never released, so nobody works on the lists. That is what
  makes a locked pool a `Heap` to its clients even then (`LockedPoolIsHeap`); an unlocked one is not (run `pool_oomShared`). With
  `HolderInside`, that before that whoever holds the lock is inside, it gives `LostLock`: the lock is lost by a refill that throws and by nothing else.
* **`ConservationProofs`**. That nothing is lost is a statement about sums over sets that change. `SumOf` names the sum of
  `MapThenSumSet`; the library says nothing of it, and its induction rules take an operator. The rules come instead from the least counterexample: among
  the subsets of a finite set for which a claim fails one is smallest (`Smallest`, from `FS_StrictSubsetOrderingWellFounded`
  and `WFMin`, which take none), and taking an element out of it gives a smaller one. So the recursive function behind the sum
  exists and is unique (`Solvable`, `OneSolution`), any element may be taken out first (`SumTakeOut`), and a sum changes by what one
  element changes (`SumChange`), splits over disjoint sets (`SumUnion`, `SumParts`), along an injection (`SumImage`) and
  into equal summands (`SumEqual`).
  For the pool `ByteInv` = clients have finitely many blocks, and the bytes on the free lists, in the reserve, with threads and with
  clients, each summed in its own place, are `heap_size`, until a refill throws. It is inductive beside `PoolInv`, `Books` and `Tiled`
  (`Counting`): pushing, popping and filling a list (`ListedPush`, `ListedPop`, `ListedRefill`) is arithmetic of one class, and `Carve` and `Grow` need that
  the leftover goes to a list of exactly its size (`LeftoverCounted`). `PoolTotal` says that these places are what `NoByteLost` sums,
  piece by piece; two clients' pieces never coincide because `Tiled` keeps their addresses apart. Hence `NoneLost`.
  For the system allocator (instance `Blocks` of `MCBlockAllocator`, which assumes `MemoryAssumption` of its constants) `BInv` = types and `Conserved`. From it
  `MemoryConserved`. For the action property `HandlerNotInVain` (theorem `HandlerHelps`) `Helped` is inductive beside `BInv`: a call that
  the handler has helped is about to try, and what it asks for fits.
* **`StartupProofs`**. For pipelines of any length and any numbers of workers. `IInv` says of the loop of `SwitchON` that in the sample
  a thread was run for each worker of the nodes before the one at hand, created or not (`StaffedSoFar`), that the sample has copied the numbers it
  goes by (`NumsCopied`), and that in `soar/` the only workers are those of the node at hand, run and not yet joined (`Alone`), so that it does not leave
  a node that has one; `AllSwitched` is where the loop is when the port opens. From it: `TypeCorrect`, `OpensAfterRuns`.
* **`SoarSocketProofs`**. For tables, streams and transfers of any size. `IInv` relates the status of the object to what its
  number names (`NamesOwn`, `ConnIsConn`) and to the transfer under way (`TestStillHolds`: the test made at its start still
  holds at each of its system calls, since other parts of the process do not touch the number). From it:
  `TypeCorrect`, `ClosesOwn`, `TransfersSafe`. `OrderInv`, inductive beside it, relates the data of the transfer under way to the
  stream: what `Recv_n` and the sample's `RecvMessage` have gathered is what the stream has given since they
  started. Each read adds the next bytes (`ReadsNext`). From it `ReadsInOrder`.
* **`SoarAppProofs`**. For any number of clients, any batch size and any number of failing calls. `Numbered` says that accepted connections
  have numbers of their own above the listening socket, `Finite` that what is counted is finite; `FailuresAreReported` is inductive beside them, with
  `ErrorsAreNamed` for the errors the map does not know. From it: `TypeCorrect`, `FailuresTold`.

Every invariant, action property and refinement of a passing run is stated by a theorem. Only model-checked is
liveness, for which the prover has no rules (fairness, ENABLED): `SomeoneEnters`, `WritersFinish`, `ReadersResume`, `ReturnsUnlessThrown`,
`CallsEnd`, `EveryTaskLeaves`, `StartDecides`, `RecvNReturns`, `NoneStranded`. The properties of section 4 are false.

## 6. Not modelled

`ModifyEvent` and `DeleteEvent` of `SoarEvent` and the construction of items with data have no
caller; the refusal of a capacity of 0 or less in `EventLoop` cannot be reached from `SoarApp`, and the array that `EventLoop` of the
sample does not delete when `epoll_wait` fails is not shown. `RecvMessage` ends its buffer one byte past it when 512 bytes come at once
(`sample/main.cc:27`): memory beyond an array is not modelled. Sizes in
the pool do not wrap: `n_realsize` is a 32-bit int made of a `size_t`, listed as a hazard (2^32 - 4 gives a size of 0 and the free list -1); `alloc(0)` and `free(NULL)`
return at once. The destructor of a pool is taken to run with no call under way; at the end of a process the workers of a pipeline are still there. A `push_back`
that throws `bad_alloc` ends the process, with the lock of the buffer held. `SoarThread` by several
threads: no code of the repository does that.
Per-type static pools (`SoarSTLAllocator`) are shared by containers under different locks;
without `__MULTI_THREAD_MEM_SHARE__` that is a race inside the pool, and the model checks the unlocked
pool with one thread only. `StdRWLock` forwards to pthread. `SoarException` is a value.

## 7. Plan

Order: what every other part stands on first, then the pipeline, then its start, then I/O.

1. Done: `AtomicOps`, `Mutex`, `SpinLock`, `SoarWRLock`, `Atomics`; proofs of the two locks.
2. Done: `Heap`, `MinAllocator`, `BlockAllocator`.
3. Done: `TaskFlow`, `PipeLine`, `Startup`; proof that `PipeLine` implements `TaskFlow`.
4. Done: `SoarSocket`, `SoarEvent`, `SoarApp`; a process function that hangs in `PipeLine`.
5. Not planned: a composition of `SoarApp` with `PipeLine` as one state space. The two meet in one call,
   `NewTask`, which `PipeLine` has as `Receive`/`AppPush`, and no client's block ever gets there (`app_unread`).
6. Done: proofs about `Atomics`, `MinAllocator`, `Startup`, `SoarSocket`, `SoarApp`.
7. Done: proofs that the pieces of `MinAllocator` do not overlap and that a locked pool is a `Heap`.
8. Done: proofs that no task of `PipeLine` is lost, and of the order between tasks.
9. Done: proofs that neither allocator loses memory, that transfers keep the stream in order, that readers
   overtake a waiting writer once, that the count of the lock's test is complete,
   and when the lock of a pool is lost.
