------------------------------ MODULE TaskFlow ------------------------------
(***************************************************************************)
(* What a pipeline promises for the tasks given to it: each task enters    *)
(* once, goes through the stages in order, through each of them once, and  *)
(* leaves after the last stage or after the first that returns nothing.    *)
(* Nothing is said of the order between tasks.                             *)
(***************************************************************************)
EXTENDS Naturals, Sequences

CONSTANTS Tasks, NumNodes

VARIABLES place,   \* of each task: "outside", "inside" or "left"
          ran      \* the stages whose function has run on each task, in order

Init == /\ place = [k \in Tasks |-> "outside"]
        /\ ran = [k \in Tasks |-> <<>>]

Enter(k) == /\ place[k] = "outside"
            /\ place' = [place EXCEPT ![k] = "inside"]
            /\ UNCHANGED ran

\* The next stage runs; it may swallow the task.
Run(k) == /\ place[k] = "inside" /\ Len(ran[k]) < NumNodes
          /\ ran' = [ran EXCEPT ![k] = Append(@, Len(@) + 1)]
          /\ place' \in {place, [place EXCEPT ![k] = "left"]}

Leave(k) == /\ place[k] = "inside" /\ Len(ran[k]) = NumNodes
            /\ place' = [place EXCEPT ![k] = "left"]
            /\ UNCHANGED ran

Next == \E k \in Tasks : Enter(k) \/ Run(k) \/ Leave(k)

Spec == Init /\ [][Next]_<<place, ran>>
=============================================================================
