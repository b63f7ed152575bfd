---------------------------- MODULE MCSoarWRLock ----------------------------
(***************************************************************************)
(* SoarWRLock with a history variable that tells which readers got in      *)
(* ahead of a waiting writer.                                              *)
(***************************************************************************)
EXTENDS SoarWRLock

VARIABLE overtakers   \* for each writer, the readers that entered since it announced itself

mcVars == <<vars, overtakers>>

EntersNow(r) == pc[r] # "reading" /\ pc'[r] = "reading"
Waiting == {w \in AnnouncedWriters : pc[w] \in {"w_reread", "w_wait", "w_grab"}}

MCInit == Init /\ overtakers = [w \in Writers |-> {}]

MCNext == /\ Next
          /\ overtakers' = [w \in Writers |->
                 IF w \in Waiting THEN overtakers[w] \cup {r \in Readers : EntersNow(r)}
                 ELSE {}]

MCSpec == MCInit /\ [][MCNext]_mcVars /\ Fairness

\* Writer preference as far as the gate of LockR (lock.cc:53) gives it: a
\* reader that was past the gate when a writer announced itself may enter
\* ahead of it, once; no reader enters ahead of it a second time.
OvertakenAtMostOnce ==
  [][\A w \in Waiting : \A r \in overtakers[w] : ~EntersNow(r)]_mcVars
=============================================================================
