---------------------------- MODULE MCAllocators ----------------------------
(***************************************************************************)
(* The pool and the system allocator.  The pool has a malloc of its own    *)
(* that may fail; the two share nothing here, so one starts only while the *)
(* other is unused.                                                        *)
(***************************************************************************)
EXTENDS MinAllocator, MCBlockAllocator

AllocatorsInit == Init /\ MCInit

AllocatorsNext == \/ /\ Next /\ MCInit
                     /\ UNCHANGED <<handler, avail, reserve, owned, ask, at, helped>>
                  \/ MCNext /\ Init /\ UNCHANGED vars

AllocatorsSpec == AllocatorsInit /\ [][AllocatorsNext]_<<vars, mcVars>>
                    /\ Fairness /\ Blocks!Fairness
=============================================================================
