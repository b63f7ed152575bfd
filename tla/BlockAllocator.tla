--------------------------- MODULE BlockAllocator ---------------------------
(***************************************************************************)
(* __block_allocator, alias SystemAllocator (components/system/            *)
(* memallocator.h:22-45, memallocator.cc:21-65): malloc, realloc and free  *)
(* with an out-of-memory handler that is called, again and again, until    *)
(* memory is found or no handler is installed.                             *)
(*                                                                         *)
(* Memory is counted in units.  The handler of the clients is the usual    *)
(* one: it releases a unit of a reserve they hold for the purpose, and     *)
(* uninstalls itself with set_new_handler when it finds the reserve empty. *)
(* The static handler pointer has no lock: testing it and calling through  *)
(* it are two steps, as they are two loads in the code.                    *)
(***************************************************************************)
EXTENDS Integers, FiniteSets, FiniteSetsExt

CONSTANTS Threads,
          Memory,      \* units malloc starts with
          Sizes        \* sizes clients ask for

\* What the constants are: finitely many threads, and no request for 0 units.
MemoryAssumption == /\ IsFiniteSet(Threads)
                    /\ Memory \in Nat
                    /\ Sizes \subseteq Nat \ {0}

VARIABLES handler,    \* __malloc_out_of_mem_handler: NULL, or the clients' handler
          avail,      \* units malloc can give
          reserve,    \* units the handler can release
          owned,      \* the size of the block each thread owns, 0 for none
          ask,        \* the size a call in progress asks for
          pc

vars == <<handler, avail, reserve, owned, ask, pc>>

NULL == "NULL"
ReleaseReserve == "release"

Init == /\ handler = NULL
        /\ avail = Memory /\ reserve = 0
        /\ owned = [t \in Threads |-> 0]
        /\ ask = [t \in Threads |-> 0]
        /\ pc = [t \in Threads |-> "idle"]

Goto(t, from, to) == /\ pc[t] = from
                     /\ pc' = [pc EXCEPT ![t] = to]

\* Mutants: the caller's block is gone when realloc has failed; malloc is tried
\* again without calling the handler; the handler is looked for again before
\* malloc is tried with what it has freed.
OwnedOnThrow_Freed(t) == 0
AfterTest_NoCall == "try"
AfterHandler_TestFirst == "test"

\* malloc (owned = 0) and realloc succeed when the new block fits beside
\* what the others own, the old block being given up.
Fits(t) == ask[t] <= avail + owned[t]
AvailAfter(t) == avail + owned[t] - ask[t]

\* if (!__malloc_out_of_mem_handler)
HandlerMissing == handler = NULL

\* The loop goes on with a call of the handler.
AfterTest == "call"

\* What follows a call of the handler: p_mem = malloc(size), realloc(...).
AfterHandler == "try"

\* A call that throws leaves the caller's block as it was.
OwnedOnThrow(t) == owned[t]
-----------------------------------------------------------------------------
\* allocate, from a thread without a block, and reallocate.
Call(t) == \E n \in Sizes :
  /\ Goto(t, "idle", "try")
  /\ ask' = [ask EXCEPT ![t] = n]
  /\ UNCHANGED <<handler, avail, reserve, owned>>

\* malloc or realloc, from allocate, reallocate or the loop of out_of_mem_*.
TryFits(t) ==
  /\ Goto(t, "try", "idle")
  /\ Fits(t)
  /\ avail' = AvailAfter(t)
  /\ owned' = [owned EXCEPT ![t] = ask[t]]
  /\ UNCHANGED <<handler, reserve, ask>>

TryFails(t) ==
  /\ Goto(t, "try", "test")
  /\ ~Fits(t)
  /\ UNCHANGED <<handler, avail, reserve, owned, ask>>

TestHandler(t) ==
  /\ Goto(t, "test", AfterTest)
  /\ ~HandlerMissing
  /\ UNCHANGED <<handler, avail, reserve, owned, ask>>

\* throw std::bad_alloc()
Throw(t) ==
  /\ Goto(t, "test", "idle")
  /\ HandlerMissing
  /\ owned' = [owned EXCEPT ![t] = OwnedOnThrow(t)]
  /\ UNCHANGED <<handler, avail, reserve, ask>>

\* __malloc_out_of_mem_handler(): the clients' handler runs, and malloc is
\* tried again.
CallHandler(t) ==
  /\ Goto(t, "call", AfterHandler)
  /\ handler # NULL
  /\ IF reserve > 0
     THEN /\ reserve' = reserve - 1 /\ avail' = avail + 1
          /\ UNCHANGED handler
     ELSE /\ handler' = NULL
          /\ UNCHANGED <<reserve, avail>>
  /\ UNCHANGED <<owned, ask>>

\* The pointer was cleared after the test: a call through NULL ends the process.
CallNull(t) ==
  /\ pc[t] = "call"
  /\ handler = NULL
  /\ pc' = [u \in Threads |-> "crashed"]
  /\ UNCHANGED <<handler, avail, reserve, owned, ask>>

\* deallocate
Deallocate(t) ==
  /\ pc[t] = "idle" /\ owned[t] # 0
  /\ avail' = avail + owned[t]
  /\ owned' = [owned EXCEPT ![t] = 0]
  /\ UNCHANGED <<handler, reserve, ask, pc>>

\* A client sets its block apart as the reserve and installs the handler
\* (set_new_handler).
SetNewHandler(t) ==
  /\ pc[t] = "idle" /\ handler = NULL
  /\ handler' = ReleaseReserve
  /\ reserve' = reserve + owned[t]
  /\ owned' = [owned EXCEPT ![t] = 0]
  /\ UNCHANGED <<avail, ask, pc>>

InCall(t) == \/ TryFits(t) \/ TryFails(t) \/ TestHandler(t) \/ Throw(t)
             \/ CallHandler(t) \/ CallNull(t)

Next == \E t \in Threads : Call(t) \/ InCall(t) \/ Deallocate(t) \/ SetNewHandler(t)

\* A thread inside a call is eventually scheduled.
Fairness == \A t \in Threads : WF_vars(InCall(t))

Spec == Init /\ [][Next]_vars
FairSpec == Spec /\ Fairness
-----------------------------------------------------------------------------
TypeOK == /\ handler \in {NULL, ReleaseReserve}
          /\ avail \in Nat /\ reserve \in Nat
          /\ owned \in [Threads -> Nat] /\ ask \in [Threads -> Nat]
          /\ pc \in [Threads -> {"idle", "try", "test", "call", "crashed"}]

\* No unit is lost or invented over failed attempts, handler calls and
\* exceptions: a reallocate that throws leaves the old block where it was,
\* one that succeeds gives it up.
Conserved == avail + reserve + MapThenSumSet(LAMBDA t : owned[t], Threads) = Memory

\* The for (;;) of out_of_mem_* ends, however the threads compete for what
\* the handler releases, once nobody installs a new handler any more.
CallsEnd ==
  <>[][\A t \in Threads : ~SetNewHandler(t)]_vars
    => \A t \in Threads : pc[t] = "try" ~> pc[t] \in {"idle", "crashed"}
=============================================================================
