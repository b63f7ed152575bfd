------------------------------ MODULE MCWords ------------------------------
(***************************************************************************)
(* The atomic helpers and the spin lock, each on a word of its own.  They  *)
(* share nothing, so one starts only while the other is unused: what their *)
(* interleaving would add is nothing.                                      *)
(***************************************************************************)
EXTENDS Atomics, MCSpinLock

WordsInit == Init /\ Spin!Init

WordsNext == \/ Next /\ Spin!Init /\ UNCHANGED <<locking, at>>
             \/ Spin!Next /\ Init /\ UNCHANGED vars

WordsSpec == WordsInit /\ [][WordsNext]_<<vars, Spin!vars>> /\ Spin!Fairness
=============================================================================
