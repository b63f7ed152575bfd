--------------------------- MODULE StartupProofs ---------------------------
(***************************************************************************)
(* What SwitchON has done when the port opens, for any number of nodes and *)
(* workers, whatever raw memory reads as and whichever creations and       *)
(* allocations fail.                                                       *)
(***************************************************************************)
EXTENDS Startup, TLAPS

\* The copies in the pipeline have the number of workers main asked for.
NumsCopied == copy = "sample" =>
  \A n \in Nodes : pc \notin {"build", "terminated"} \/ n < node => n_worker_[n] = asked[n]

\* The posts dealt with so far: all of the nodes before, those before i at the
\* node being switched on.
Manned(n, k) == \/ n < node /\ k <= asked[n]
                \/ n = node /\ pc = "run" /\ k < i
                \/ n = node /\ pc = "next" /\ k <= asked[n]

StaffedSoFar ==
  copy = "sample" /\ pc \in {"switch", "run", "next", "listening"} =>
    \A n \in Nodes, k \in 1..MaxWorkers :
      <<n, k>> \in workers \cup uncreated <=> Manned(n, k)

NothingRuns == pc = "build" => workers \cup uncreated = {}

\* In the loops over the threads of a node.
InLoop == pc \in {"run", "join"} => node \in Nodes /\ i <= n_worker_[node] + 1
AtJoin == pc = "join" => copy = "soar"
AtNext == pc = "next" => node \in Nodes
AllSwitched == pc = "listening" => node = NumNodes + 1

\* In soar/ there are workers only of the node at hand: those run so far, then
\* those main has still to join.
Behind == pc = "run" /\ \A w \in workers : w[1] = node /\ w[2] < i
Ahead == pc = "join" /\ \A w \in workers : w[1] = node /\ i <= w[2] /\ w[2] <= n_worker_[node]
Alone == copy = "soar" => workers = {} \/ pc = "caught" \/ Behind \/ Ahead

IInv == TypeOK /\ NumsCopied /\ StaffedSoFar /\ NothingRuns /\ InLoop /\ AtJoin /\ AtNext
          /\ AllSwitched /\ Alone
-----------------------------------------------------------------------------
LEMMA InitIInv == Init => IInv
<1> SUFFICES ASSUME Init PROVE IInv
  OBVIOUS
<1> USE StartupAssumption
<1>1. TypeOK
  <2>1. id_ \in [Nodes -> [1..MaxWorkers -> Nat]] /\ n_worker_ \in [Nodes -> Counts]
    BY DEF Init, Counts
  <2>2. node \in 1..NumNodes + 1 /\ i \in 1..MaxWorkers + 1
    BY DEF Init
  <2> QED BY <2>1, <2>2 DEF Init, TypeOK
<1>2. NumsCopied
  BY DEF Init, NumsCopied, Nodes
<1> QED BY <1>1, <1>2
        DEF Init, IInv, StaffedSoFar, NothingRuns, InLoop, AtJoin, AtNext, AllSwitched, Alone, Behind, Ahead

LEMMA StepIInv == IInv /\ [Next]_vars => IInv'
<1> SUFFICES ASSUME IInv, [Next]_vars PROVE IInv'
  OBVIOUS
<1> USE StartupAssumption
<1>0. TypeOK /\ node \in Nat /\ i \in Nat /\ NumNodes \in Nat /\ MaxWorkers \in Nat
  BY DEF IInv, TypeOK
<1>1. ASSUME AddNode PROVE IInv'
  <2>1. PICK v \in Counts : /\ copy = "sample" => v = asked[node]
                           /\ n_worker_' = [n_worker_ EXCEPT ![node] = v]
    BY <1>1 DEF AddNode
  <2>2. pc = "build" /\ pc' = "build" /\ node <= NumNodes /\ node' = node + 1
          /\ UNCHANGED <<copy, asked, func_set, id_, workers, uncreated, i, error>>
    BY <1>1 DEF AddNode, config
  <2>3. TypeOK'
    <3>1. node' \in 1..NumNodes + 1
      BY <1>0, <2>2 DEF TypeOK
    <3>2. n_worker_' \in [Nodes -> Counts]
      BY <2>1, <1>0 DEF TypeOK
    <3> QED BY <1>0, <2>2, <3>1, <3>2 DEF TypeOK
  <2>4. NumsCopied'
    <3> SUFFICES ASSUME copy = "sample", NEW n \in Nodes, n < node + 1 PROVE n_worker_'[n] = asked[n]
      BY <2>2 DEF NumsCopied
    <3>1. n \in Nat /\ (n < node \/ n = node)
      BY <1>0 DEF Nodes
    <3>2. n_worker_ \in [Nodes -> Counts] /\ (n < node => n_worker_[n] = asked[n])
      BY <2>2 DEF IInv, NumsCopied, TypeOK
    <3>3. CASE n < node
      BY <1>0, <2>1, <3>1, <3>2, <3>3
    <3>4. CASE n = node
      BY <2>1, <3>2, <3>4
    <3> QED BY <3>1, <3>3, <3>4
  <2> QED BY <2>2, <2>3, <2>4
          DEF IInv, StaffedSoFar, NothingRuns, InLoop, AtJoin, AtNext, AllSwitched, Alone, Behind, Ahead
<1>2. ASSUME Start PROVE IInv'
  <2>1. pc = "build" /\ pc' = "switch" /\ node > NumNodes /\ node' = 1
          /\ UNCHANGED <<copy, asked, func_set, n_worker_, id_, workers, uncreated, i, error>>
    BY <1>2 DEF Start, config
  <2>2. TypeOK'
    BY <1>0, <2>1 DEF TypeOK
  <2>3. NumsCopied'
    BY <1>0, <2>1 DEF IInv, NumsCopied, Nodes
  <2>4. StaffedSoFar'
    BY <1>0, <2>1 DEF IInv, NothingRuns, StaffedSoFar, Manned, Nodes
  <2> QED BY <2>1, <2>2, <2>3, <2>4
          DEF IInv, NothingRuns, InLoop, AtJoin, AtNext, AllSwitched, Alone, Behind, Ahead
<1>3. ASSUME NEW code, Throw(code), pc # "build" \/ node > NumNodes, pc # "terminated",
             UNCHANGED <<config, n_worker_, id_, workers, uncreated, node, i>>
      PROVE  IInv'
  <2>1. TypeOK'
    BY <1>0, <1>3 DEF TypeOK, Throw, config
  <2>2. NumsCopied'
    BY <1>0, <1>3 DEF IInv, NumsCopied, Throw, config, Nodes
  <2> QED BY <1>3, <2>1, <2>2
          DEF IInv, StaffedSoFar, NothingRuns, InLoop, AtJoin, AtNext, AllSwitched, Alone, Behind, Ahead, Throw
<1>4. ASSUME \/ StartWithoutPort \/ StartWithoutPipeline \/ NoWorkers \/ NoFunction
             \/ RunRefused \/ ListenFails
      PROVE  IInv'
  BY <1>3, <1>4 DEF StartWithoutPort, StartWithoutPipeline, NoWorkers, NoFunction, RunRefused, ListenFails
<1>5. ASSUME SwitchON PROVE IInv'
  <2>1. pc = "switch" /\ pc' = "run" /\ node <= NumNodes /\ i' = 1 /\ n_worker_[node] > 0
          /\ UNCHANGED <<copy, asked, func_set, n_worker_, workers, uncreated, node, error>>
    BY <1>5 DEF SwitchON, config
  <2>2. node \in Nodes /\ n_worker_[node] \in -1..MaxWorkers
    BY <1>0, <2>1 DEF TypeOK, Nodes, Counts
  <2>3. TypeOK'
    <3>1. PICK raw \in [1..MaxWorkers -> RawIds] : id_' = [id_ EXCEPT ![node] = raw]
      BY <1>5 DEF SwitchON
    <3>2. id_' \in [Nodes -> [1..MaxWorkers -> Nat]]
      BY <1>0, <3>1 DEF TypeOK
    <3> QED BY <1>0, <2>1, <3>2 DEF TypeOK
  <2>4. NumsCopied'
    BY <2>1 DEF IInv, NumsCopied
  <2>5. StaffedSoFar'
    <3> SUFFICES ASSUME copy = "sample", NEW n \in Nodes, NEW k \in 1..MaxWorkers
                 PROVE  <<n, k>> \in workers \cup uncreated <=> Manned(n, k)'
      BY <2>1 DEF StaffedSoFar
    <3>1. <<n, k>> \in workers \cup uncreated <=> Manned(n, k)
      BY <2>1 DEF IInv, StaffedSoFar
    <3>2. Manned(n, k) <=> n < node /\ k <= asked[n]
      BY <2>1 DEF Manned
    <3>3. Manned(n, k)' <=> (n < node /\ k <= asked[n]) \/ (n = node /\ k < 1)
      BY <2>1 DEF Manned
    <3> QED BY <1>0, <3>1, <3>2, <3>3 DEF Nodes
  <2> QED BY <1>0, <2>1, <2>2, <2>3, <2>4, <2>5
          DEF IInv, NothingRuns, InLoop, AtJoin, AtNext, AllSwitched, Alone, Behind, Ahead
<1>6. ASSUME Run PROVE IInv'
  <2>1. pc = "run" /\ pc' = "run" /\ i <= n_worker_[node] /\ i' = i + 1
          /\ UNCHANGED <<copy, asked, func_set, n_worker_, node, error>>
    BY <1>6 DEF Run, LastThread, config
  <2>2. node \in Nodes /\ n_worker_[node] \in -1..MaxWorkers /\ i \in 1..MaxWorkers
    BY <1>0, <2>1 DEF IInv, InLoop, TypeOK, Counts
  <2>3. workers' \cup uncreated' = workers \cup uncreated \cup {<<node, i>>}
          /\ workers' \subseteq workers \cup {<<node, i>>}
          /\ uncreated' \subseteq uncreated \cup {<<node, i>>}
    BY <1>6 DEF Run
  <2>4. id_' \in [Nodes -> [1..MaxWorkers -> Nat]]
    <3>1. CASE UNCHANGED id_
      BY <1>0, <3>1 DEF TypeOK
    <3>2. CASE id_' = [id_ EXCEPT ![node][i] = 1]
      <4>1. [id_[node] EXCEPT ![i] = 1] \in [1..MaxWorkers -> Nat]
        BY <1>0, <2>2 DEF TypeOK
      <4>2. id_' = [id_ EXCEPT ![node] = [id_[node] EXCEPT ![i] = 1]]
        BY <3>2
      <4> QED BY <1>0, <2>2, <4>1, <4>2 DEF TypeOK
    <3> QED BY <1>6, <3>1, <3>2 DEF Run
  <2>5. TypeOK'
    <3>1. <<node, i>> \in Nodes \X (1..MaxWorkers) /\ i' \in 1..MaxWorkers + 1
      BY <1>0, <2>1, <2>2
    <3> QED BY <1>0, <2>1, <2>3, <2>4, <3>1 DEF TypeOK
  <2>6. NumsCopied'
    BY <2>1 DEF IInv, NumsCopied
  <2>7. StaffedSoFar'
    <3> SUFFICES ASSUME copy = "sample", NEW n \in Nodes, NEW k \in 1..MaxWorkers
                 PROVE  <<n, k>> \in workers' \cup uncreated' <=> Manned(n, k)'
      BY <2>1 DEF StaffedSoFar
    <3>1. <<n, k>> \in workers \cup uncreated <=> Manned(n, k)
      BY <2>1 DEF IInv, StaffedSoFar
    <3>2. <<n, k>> = <<node, i>> <=> n = node /\ k = i
      OBVIOUS
    <3>3. Manned(n, k) <=> (n < node /\ k <= asked[n]) \/ (n = node /\ k < i)
      BY <2>1 DEF Manned
    <3>4. Manned(n, k)' <=> (n < node /\ k <= asked[n]) \/ (n = node /\ k < i + 1)
      BY <2>1 DEF Manned
    <3> QED BY <1>0, <2>2, <2>3, <3>1, <3>2, <3>3, <3>4
  <2>8. Alone'
    <3> SUFFICES ASSUME copy = "soar" PROVE Behind'
      BY <2>1 DEF Alone
    <3>1. \A w \in workers : w[1] = node /\ w[2] < i
      BY <2>1 DEF IInv, Alone, Behind, Ahead
    <3>2. \A w \in workers : w \in Nodes \X (1..MaxWorkers)
      BY <1>0 DEF TypeOK
    <3> SUFFICES ASSUME NEW w \in workers' PROVE w[1] = node /\ w[2] < i + 1
      BY <2>1 DEF Behind
    <3>3. CASE w \in workers
      BY <1>0, <3>1, <3>2, <3>3
    <3>4. CASE w = <<node, i>>
      BY <1>0, <3>4
    <3> QED BY <2>3, <3>3, <3>4
  <2> QED BY <1>0, <2>1, <2>2, <2>5, <2>6, <2>7, <2>8
          DEF IInv, NothingRuns, InLoop, AtJoin, AtNext, AllSwitched
<1>7. ASSUME ThreadsRun PROVE IInv'
  <2>1. pc = "run" /\ i > n_worker_[node] /\ pc' = (IF copy = "soar" THEN "join" ELSE "next")
          /\ i' = 1
          /\ UNCHANGED <<copy, asked, func_set, n_worker_, id_, workers, uncreated, node, error>>
    BY <1>7 DEF ThreadsRun, LastThread, AfterThreads, config
  <2>2. node \in Nodes /\ n_worker_[node] \in -1..MaxWorkers /\ i = n_worker_[node] + 1
    BY <1>0, <2>1 DEF IInv, InLoop, TypeOK, Counts
  <2>3. TypeOK'
    BY <1>0, <2>1 DEF TypeOK
  <2>4. NumsCopied'
    BY <2>1 DEF IInv, NumsCopied
  <2>5. StaffedSoFar'
    <3> SUFFICES ASSUME copy = "sample", NEW n \in Nodes, NEW k \in 1..MaxWorkers
                 PROVE  <<n, k>> \in workers \cup uncreated <=> Manned(n, k)'
      BY <2>1 DEF StaffedSoFar
    <3>1. <<n, k>> \in workers \cup uncreated <=> Manned(n, k)
      BY <2>1 DEF IInv, StaffedSoFar
    <3>2. n_worker_[node] = asked[node] /\ pc' = "next"
      BY <2>1, <2>2 DEF IInv, NumsCopied
    <3>3. Manned(n, k) <=> (n < node /\ k <= asked[n]) \/ (n = node /\ k < i)
      BY <2>1 DEF Manned
    <3>4. Manned(n, k)' <=> (n < node /\ k <= asked[n]) \/ (n = node /\ k <= asked[n])
      BY <2>1, <3>2 DEF Manned
    <3> QED BY <1>0, <2>2, <3>1, <3>2, <3>3, <3>4
  <2>6. Alone'
    <3> SUFFICES ASSUME copy = "soar" PROVE Ahead'
      BY <2>1 DEF Alone
    <3>1. \A w \in workers : w[1] = node /\ w[2] < i
      BY <2>1 DEF IInv, Alone, Behind, Ahead
    <3>2. \A w \in workers : w \in Nodes \X (1..MaxWorkers)
      BY <1>0 DEF TypeOK
    <3> SUFFICES ASSUME NEW w \in workers PROVE w[1] = node /\ 1 <= w[2] /\ w[2] <= n_worker_[node]
      BY <2>1 DEF Ahead
    <3> QED BY <1>0, <2>2, <3>1, <3>2
  <2>7. InLoop'
    BY <2>1, <2>2, <1>0 DEF InLoop, TypeOK
  <2> QED BY <1>0, <2>1, <2>2, <2>3, <2>4, <2>5, <2>6, <2>7
          DEF IInv, NothingRuns, AtJoin, AtNext, AllSwitched
<1>8. ASSUME NextSwitch PROVE IInv'
  <2>1. pc = "next" /\ pc' = "switch" /\ node' = node + 1
          /\ UNCHANGED <<copy, asked, func_set, n_worker_, id_, workers, uncreated, i, error>>
    BY <1>8 DEF NextSwitch, NextNode, config
  <2>2. node \in Nodes
    BY <2>1 DEF IInv, AtNext
  <2>3. TypeOK'
    BY <1>0, <2>1, <2>2 DEF TypeOK, Nodes
  <2>4. NumsCopied'
    BY <2>1 DEF IInv, NumsCopied
  <2>5. StaffedSoFar'
    <3> SUFFICES ASSUME copy = "sample", NEW n \in Nodes, NEW k \in 1..MaxWorkers
                 PROVE  <<n, k>> \in workers \cup uncreated <=> Manned(n, k)'
      BY <2>1 DEF StaffedSoFar
    <3>1. <<n, k>> \in workers \cup uncreated <=> Manned(n, k)
      BY <2>1 DEF IInv, StaffedSoFar
    <3>2. Manned(n, k) <=> (n < node /\ k <= asked[n]) \/ (n = node /\ k <= asked[n])
      BY <2>1 DEF Manned
    <3>3. Manned(n, k)' <=> n < node + 1 /\ k <= asked[n]
      BY <2>1 DEF Manned
    <3> QED BY <1>0, <3>1, <3>2, <3>3 DEF Nodes
  <2> QED BY <2>1, <2>2, <2>3, <2>4, <2>5
          DEF IInv, NothingRuns, InLoop, AtJoin, AtNext, AllSwitched, Alone, Behind, Ahead
<1>9. ASSUME Listen PROVE IInv'
  <2>1. pc = "switch" /\ pc' = "listening" /\ node > NumNodes
          /\ UNCHANGED <<copy, asked, func_set, n_worker_, id_, workers, uncreated, node, i, error>>
    BY <1>9 DEF Listen, config
  <2>2. node = NumNodes + 1
    BY <1>0, <2>1 DEF IInv, TypeOK
  <2>3. TypeOK' /\ NumsCopied'
    BY <1>0, <2>1 DEF TypeOK, IInv, NumsCopied
  <2>4. StaffedSoFar'
    BY <2>1 DEF IInv, StaffedSoFar, Manned
  <2> QED BY <2>1, <2>2, <2>3, <2>4
          DEF IInv, NothingRuns, InLoop, AtJoin, AtNext, AllSwitched, Alone, Behind, Ahead
<1>10. ASSUME MainReturns PROVE IInv'
  <2>1. pc = "caught" /\ pc' = "exited" /\ workers' = {}
          /\ UNCHANGED <<copy, asked, func_set, n_worker_, id_, uncreated, node, i, error>>
    BY <1>10 DEF MainReturns, config
  <2>2. TypeOK' /\ NumsCopied'
    BY <1>0, <2>1 DEF TypeOK, IInv, NumsCopied
  <2> QED BY <2>1, <2>2
          DEF IInv, StaffedSoFar, NothingRuns, InLoop, AtJoin, AtNext, AllSwitched, Alone, Behind, Ahead
<1>11. ASSUME OutOfMemory PROVE IInv'
  <2>1. pc # "run" /\ pc # "next" /\ pc' = "terminated" /\ workers' = {}
          /\ (pc = "build" \/ pc = "switch")
          /\ UNCHANGED <<copy, asked, func_set, n_worker_, id_, uncreated, node, i, error>>
    BY <1>11 DEF OutOfMemory, config
  <2>2. TypeOK'
    BY <1>0, <2>1 DEF TypeOK
  <2>3. NumsCopied'
    BY <1>0, <2>1 DEF IInv, NumsCopied, Nodes
  <2> QED BY <2>1, <2>2, <2>3
          DEF IInv, StaffedSoFar, NothingRuns, InLoop, AtJoin, AtNext, AllSwitched, Alone
<1>12. ASSUME JoinUnset PROVE IInv'
  <2>1. /\ pc = "join" /\ i <= n_worker_[node] /\ <<node, i>> \notin workers
        /\ \/ i' = i + 1 /\ UNCHANGED <<workers, pc>>
           \/ pc' = "terminated" /\ workers' = {} /\ UNCHANGED i
        /\ UNCHANGED <<copy, asked, func_set, n_worker_, uncreated, node, error>>
    BY <1>12 DEF JoinUnset, config
  <2>2. /\ copy = "soar" /\ node \in Nodes /\ n_worker_[node] \in -1..MaxWorkers
        /\ i \in 1..MaxWorkers
    BY <1>0, <2>1 DEF IInv, InLoop, AtJoin, TypeOK, Counts
  <2>3. TypeOK'
    <3>1. [id_[node] EXCEPT ![i] = 0] \in [1..MaxWorkers -> Nat]
      BY <1>0, <2>2 DEF TypeOK
    <3>2. id_' = [id_ EXCEPT ![node] = [id_[node] EXCEPT ![i] = 0]]
      BY <1>12 DEF JoinUnset
    <3>3. id_' \in [Nodes -> [1..MaxWorkers -> Nat]]
      BY <1>0, <2>2, <3>1, <3>2 DEF TypeOK
    <3>4. i' \in 1..MaxWorkers + 1 /\ workers' \subseteq workers
      BY <1>0, <2>1, <2>2
    <3> QED BY <1>0, <2>1, <3>3, <3>4 DEF TypeOK
  <2>4. Alone'
    <3>1. CASE i' = i + 1 /\ UNCHANGED <<workers, pc>>
      <4>1. workers = {} \/ \A w \in workers : w[1] = node /\ i <= w[2] /\ w[2] <= n_worker_[node]
        BY <2>1, <2>2 DEF IInv, Alone, Behind, Ahead
      <4>2. \A w \in workers : w \in Nodes \X (1..MaxWorkers) /\ w # <<node, i>>
        BY <1>0, <2>1 DEF TypeOK
      <4> SUFFICES ASSUME NEW w \in workers
                   PROVE  w[1] = node /\ i + 1 <= w[2] /\ w[2] <= n_worker_[node]
        BY <2>1, <3>1 DEF Alone, Ahead
      <4>3. w = <<w[1], w[2]>> /\ w[2] \in 1..MaxWorkers
        BY <4>2
      <4>4. w[1] = node /\ i <= w[2] /\ w[2] <= n_worker_[node]
        BY <4>1
      <4>5. w[2] # i
        BY <4>2, <4>3, <4>4
      <4> QED BY <1>0, <4>3, <4>4, <4>5
    <3>2. CASE workers' = {}
      BY <3>2 DEF Alone
    <3> QED BY <2>1, <3>1, <3>2
  <2>5. InLoop'
    BY <1>0, <2>1, <2>2 DEF InLoop
  <2>6. NumsCopied' /\ StaffedSoFar'
    BY <2>1, <2>2 DEF NumsCopied, StaffedSoFar
  <2> QED BY <2>1, <2>2, <2>3, <2>4, <2>5, <2>6 DEF IInv, NothingRuns, AtJoin, AtNext, AllSwitched
<1>13. ASSUME Joined PROVE IInv'
  <2>1. pc = "join" /\ pc' = "next" /\ i > n_worker_[node]
          /\ UNCHANGED <<copy, asked, func_set, n_worker_, id_, workers, uncreated, node, i, error>>
    BY <1>13 DEF Joined, config
  <2>2. /\ copy = "soar" /\ node \in Nodes /\ n_worker_[node] \in -1..MaxWorkers
    BY <1>0, <2>1 DEF IInv, InLoop, AtJoin, TypeOK, Counts
  <2>3. TypeOK'
    BY <1>0, <2>1 DEF TypeOK
  <2>4. workers = {}
    <3>1. \A w \in workers : w \in Nodes \X (1..MaxWorkers)
      BY <1>0 DEF TypeOK
    <3>2. workers = {} \/ \A w \in workers : i <= w[2] /\ w[2] <= n_worker_[node]
      BY <2>1, <2>2 DEF IInv, Alone, Behind, Ahead
    <3>3. \A w \in workers : FALSE
      BY <1>0, <2>1, <2>2, <3>1, <3>2
    <3> QED BY <3>3
  <2>5. NumsCopied' /\ StaffedSoFar'
    BY <2>1, <2>2 DEF NumsCopied, StaffedSoFar
  <2> QED BY <2>1, <2>2, <2>3, <2>4, <2>5
          DEF IInv, NothingRuns, InLoop, AtJoin, AtNext, AllSwitched, Alone
<1>14. CASE UNCHANGED vars
  BY <1>14 DEF vars, IInv, TypeOK, NumsCopied, StaffedSoFar, Manned, NothingRuns, InLoop, AtJoin,
               AtNext, AllSwitched, Alone, Behind, Ahead
<1> QED BY <1>1, <1>2, <1>4, <1>5, <1>6, <1>7, <1>8, <1>9, <1>10, <1>11, <1>12, <1>13, <1>14
        DEF Next, Proceed

\* Start-up keeps its types: no thread object beyond those asked for is run.
THEOREM TypeCorrect == Spec => []TypeOK
<1>1. IInv => TypeOK
  BY DEF IInv
<1> QED BY <1>1, InitIInv, StepIInv, PTL DEF Spec

\* For any pipeline: when the port opens, SwitchON has run a thread for each worker
\* main asked for at each node and no other, created or not (pipeline.cc:44-48,
\* thread.cc:17); and the port of soar/, which joins what it has created
\* (pipeline.cc:49-51), opens with no worker at all.
THEOREM OpensAfterRuns == Spec => []WorkersWhenOpen
<1>1. ASSUME IInv, pc = "listening", copy = "sample"
      PROVE  workers \cup uncreated = UNION {Posts(n) : n \in Nodes}
  <2>1. node = NumNodes + 1
    BY <1>1 DEF IInv, AllSwitched
  <2>2. \A n \in Nodes, k \in 1..MaxWorkers :
          <<n, k>> \in workers \cup uncreated <=> k <= asked[n]
    <3>1. \A n \in Nodes : n < node
      BY <2>1, StartupAssumption DEF Nodes
    <3> QED BY <1>1, <2>1, <3>1, StartupAssumption DEF IInv, StaffedSoFar, Manned, Nodes
  <2>3. workers \cup uncreated \subseteq Nodes \X (1..MaxWorkers)
    BY <1>1 DEF IInv, TypeOK
  <2>4. \A n \in Nodes : asked[n] \in -1..MaxWorkers
    BY <1>1 DEF IInv, TypeOK, Counts
  <2>5. ASSUME NEW w \in workers \cup uncreated PROVE w \in UNION {Posts(n) : n \in Nodes}
    <3>1. PICK n \in Nodes, k \in 1..MaxWorkers : w = <<n, k>>
      BY <2>3
    <3>2. w \in Posts(n)
      BY <2>2, <2>4, <3>1, StartupAssumption DEF Posts
    <3> QED BY <3>2
  <2>6. ASSUME NEW n \in Nodes, NEW w \in Posts(n) PROVE w \in workers \cup uncreated
    <3>1. PICK k \in 1..asked[n] : w = <<n, k>>
      BY DEF Posts
    <3>2. k \in 1..MaxWorkers /\ k <= asked[n]
      BY <2>4, StartupAssumption
    <3> QED BY <2>2, <3>1, <3>2
  <2> QED BY <2>5, <2>6
<1>2. IInv /\ pc = "listening" /\ copy = "soar" => workers = {}
  BY DEF IInv, Alone, Behind, Ahead
<1>3. IInv => WorkersWhenOpen
  BY <1>1, <1>2 DEF WorkersWhenOpen
<1> QED BY <1>3, InitIInv, StepIInv, PTL DEF Spec
=============================================================================
