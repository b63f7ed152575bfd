------------------------------ MODULE Atomics ------------------------------
(***************************************************************************)
(* The helpers of communal.h:32-100 as concurrent operations on one word.  *)
(* Each is a locked instruction; atomic_add_then_fetch and                 *)
(* atomic_sub_then_fetch then read the word again to return it, and        *)
(* atomic_compare_and_swap_value reads it before to return it.  Those      *)
(* reads are steps of their own.                                           *)
(*                                                                         *)
(* A behaviour is one use of the word: additions that race, owners that    *)
(* release a count with either helper, or threads that claim the word.     *)
(***************************************************************************)
EXTENDS AtomicOps, FiniteSets

CONSTANTS Threads,
          MaxAdds    \* bound on the additions of a thread

ASSUME AtomicsAssumption == /\ IsFiniteSet(Threads) /\ Threads # {}
                            /\ MaxAdds \in Nat \ {0}

\* The helpers called in each use, the word at its start, the calls of a thread.
OpsOf == [add |-> {"fetch_then_add", "add_then_fetch"}, release |-> {"fetch_then_sub", "sub_then_fetch"},
          claim |-> {"cas_bool", "cas_value"}]
Uses == DOMAIN OpsOf
First(u) == IF u = "release" THEN Cardinality(Threads) ELSE 0
CallsIn(u) == IF u = "add" THEN MaxAdds ELSE 1

VARIABLES use,      \* what the word is used for in this behaviour
          word,     \* *src
          pc,       \* "idle", or the call a thread is in
          seen,     \* what a thread read before or exchanged in its call
          calls,    \* finished calls per thread
          results   \* history: <<thread, number of its call, helper, word
                    \* before, word after, returned>> of every finished call

vars == <<use, word, pc, seen, calls, results>>

Init == /\ use \in Uses
        /\ word = First(use)
        /\ pc = [t \in Threads |-> "idle"]
        /\ seen = [t \in Threads |-> 0]
        /\ calls = [t \in Threads |-> 0]
        /\ results = {}

\* Mutants: an addition of the wrong sign; a read before the exchange
\* instead of after; a cmpxchgl whose outcome is not tested.
AddThenFetch_Subtracts(old) == Xadd(old, -1)
Reread_Earlier(t) == seen[t]
Swapped_Ignored(old) == TRUE

\* The word after lock xaddl, by 1 and by -1.
FetchThenAdd(old) == Xadd(old, 1)
FetchThenSub(old) == Xadd(old, -1)
AddThenFetch(old) == Xadd(old, 1)
SubThenFetch(old) == Xadd(old, -1)

\* return *src
Reread(t) == word

\* The callers compare with 0 and swap 1 in (lock.cc:65): jnz after cmpxchgl.
Swapped(old) == old = 0

Goto(t, from, to) == /\ pc[t] = from
                     /\ pc' = [pc EXCEPT ![t] = to]

Return(t, op, before, after, value) ==
  /\ calls' = [calls EXCEPT ![t] = @ + 1]
  /\ results' = results \cup {[thread |-> t, call |-> calls[t], op |-> op,
                               before |-> before, after |-> after, value |-> value]}
-----------------------------------------------------------------------------
Call(t) == \E op \in OpsOf[use] : /\ calls[t] < CallsIn(use)
                                  /\ Goto(t, "idle", op)
                                  /\ UNCHANGED <<word, seen, calls, results>>

\* atomic_fetch_then_add(src, 1) and atomic_fetch_then_sub(src, 1): xaddl
\* leaves the old word in eax.
FetchAdd(t) == /\ Goto(t, "fetch_then_add", "idle")
               /\ word' = FetchThenAdd(word)
               /\ Return(t, "fetch_then_add", word, word', word)
               /\ UNCHANGED seen

FetchSub(t) == /\ Goto(t, "fetch_then_sub", "idle")
               /\ word' = FetchThenSub(word)
               /\ Return(t, "fetch_then_sub", word, word', word)
               /\ UNCHANGED seen

\* atomic_add_then_fetch(src, 1): xaddl, then return *src.
Add(t) == /\ Goto(t, "add_then_fetch", "reread_add")
          /\ word' = AddThenFetch(word)
          /\ seen' = [seen EXCEPT ![t] = word]
          /\ UNCHANGED <<calls, results>>

RereadAdd(t) == /\ Goto(t, "reread_add", "idle")
                /\ Return(t, "add_then_fetch", seen[t], AddThenFetch(seen[t]), Reread(t))
                /\ UNCHANGED <<word, seen>>

Sub(t) == /\ Goto(t, "sub_then_fetch", "reread_sub")
          /\ word' = SubThenFetch(word)
          /\ seen' = [seen EXCEPT ![t] = word]
          /\ UNCHANGED <<calls, results>>

RereadSub(t) == /\ Goto(t, "reread_sub", "idle")
                /\ Return(t, "sub_then_fetch", seen[t], SubThenFetch(seen[t]), Reread(t))
                /\ UNCHANGED <<word, seen>>

\* atomic_compare_and_swap_bool(src, 0, 1)
CasBool(t) == /\ Goto(t, "cas_bool", "idle")
              /\ word' = CmpXchg(word, 0, 1)
              /\ Return(t, "cas_bool", word, word', IF Swapped(word) THEN 1 ELSE 0)
              /\ UNCHANGED seen

\* atomic_compare_and_swap_value(src, 0, 1): rtn(*src), then cmpxchgl.
CasRead(t) == /\ Goto(t, "cas_value", "cas_swap")
              /\ seen' = [seen EXCEPT ![t] = word]
              /\ UNCHANGED <<word, calls, results>>

CasSwap(t) == /\ Goto(t, "cas_swap", "idle")
              /\ word' = CmpXchg(word, 0, 1)
              /\ Return(t, "cas_value", word, word', seen[t])
              /\ UNCHANGED seen

Step(t) == \/ Call(t) \/ FetchAdd(t) \/ FetchSub(t) \/ Add(t) \/ RereadAdd(t)
           \/ Sub(t) \/ RereadSub(t) \/ CasBool(t) \/ CasRead(t) \/ CasSwap(t)

Next == UNCHANGED use /\ \E t \in Threads : Step(t)

Spec == Init /\ [][Next]_vars
-----------------------------------------------------------------------------
\* Where a call of each use may stand between its instruction and its other access.
Midway == [add |-> {"reread_add"}, release |-> {"reread_sub"}, claim |-> {"cas_swap"}]

TypeOK == /\ use \in Uses
          /\ word \in Int
          /\ pc \in [Threads -> {"idle"} \cup OpsOf[use] \cup Midway[use]]
          /\ seen \in [Threads -> Int]
          /\ calls \in [Threads -> 0..CallsIn(use)]

Of(op) == {r \in results : r.op = op}

\* The re-read of add_then_fetch sees later additions too, but never less
\* than the caller's own sum while nobody subtracts; LockR and LockW rely on it.
NeverBelowOwnSum == \A r \in Of("add_then_fetch") : r.value >= r.after

\* A count that starts at the number of its owners, each of whom releases it
\* with fetch_then_sub (and looks for 1) or with sub_then_fetch (and looks for
\* 0): when all have returned somebody knows that it was the last, so what
\* the count guards is never left behind.
LastOwnerKnows == (use = "release" /\ \A t \in Threads : calls[t] = 1)
  => \E r \in results : \/ r.op = "fetch_then_sub" /\ r.value = 1
                        \/ r.op = "sub_then_fetch" /\ r.value = 0

\* Among threads that claim the word with compare and swap exactly one takes
\* it; compare_and_swap_bool tells its caller so, and whoever is told by
\* compare_and_swap_value that the word was set has not taken it.
OneClaimant == use = "claim" =>
  LET takes == {r \in Of("cas_value") : r.before = 0 /\ r.after = 1}
      told  == {r \in Of("cas_bool") : r.value = 1}
  IN /\ Cardinality(takes) + Cardinality(told) = IF word = 1 THEN 1 ELSE 0
     /\ \A r \in takes : r.value = 0
=============================================================================
