-------------------------- MODULE MCBlockAllocator --------------------------
(***************************************************************************)
(* BlockAllocator under names of its own, so that what is checked here and *)
(* what is proved beside the pool allocator are the same formulas, with a  *)
(* history variable that tells which calls the handler has helped.         *)
(***************************************************************************)
CONSTANTS Callers, Memory, Sizes
VARIABLES handler, avail, reserve, owned, ask, at

Blocks == INSTANCE BlockAllocator WITH Threads <- Callers, pc <- at

ASSUME BlocksAssumption == Blocks!MemoryAssumption

VARIABLE helped   \* the calls for which malloc has had enough ever since they last called the handler

mcVars == <<Blocks!vars, helped>>

InLoop(t) == at[t] \in {"try", "test", "call"}

MCInit == Blocks!Init /\ helped = {}

MCNext == /\ Blocks!Next
          /\ helped' = {t \in Callers : /\ Blocks!CallHandler(t) \/ t \in helped
                                        /\ InLoop(t)' /\ Blocks!Fits(t)'}

BlocksRun == MCInit /\ [][MCNext]_mcVars
BlocksSpec == BlocksRun /\ Blocks!Fairness

\* No unit of memory is lost or invented by allocate, reallocate, deallocate,
\* the handler or an exception.
Conserved == Blocks!Conserved

\* The handler is not called in vain (memallocator.cc:24-34, 37-46): what it has
\* freed and no other thread has taken is used.  A call throws bad_alloc, or
\* makes the handler free even more, only if malloc has lacked what the call
\* asks for at some moment since it called the handler last.
HandlerNotInVain ==
  [][\A t \in Callers : Blocks!Throw(t) \/ Blocks!CallHandler(t) => t \notin helped]_mcVars

\* The for (;;) of out_of_mem_* ends once nobody installs a handler any more.
CallsEnd == Blocks!CallsEnd
=============================================================================
