--------------------------- MODULE PipeLineProofs ---------------------------
(***************************************************************************)
(* For pipelines of any length, any number of workers at each node and any *)
(* number of tasks: no deadlock over the buffer locks, what is popped was  *)
(* processed, and the pipeline implements TaskFlow; no task is lost or     *)
(* there twice, and how far one may overtake another.                      *)
(***************************************************************************)
EXTENDS PipeLine, FiniteSetTheorems, TLAPS

\* The threads: the event loop, and workers that belong to nodes.
LEMMA Actors ==
  /\ App \in Threads /\ App \notin WorkThreads
  /\ \A w \in WorkThreads : w \in Threads /\ w # App /\ NodeOf(w) \in Nodes
  /\ \A t \in Threads : t = App \/ t \in WorkThreads
<1>1. \A w \in WorkThreads : NodeOf(w) \in Nodes
  BY DEF WorkThreads, NodeOf
<1>2. App \notin WorkThreads
  BY <1>1 DEF App, NodeOf, Nodes
<1> QED BY <1>1, <1>2 DEF Threads

\* The nodes: a first one, and each but the last has a next.
LEMMA Chain ==
  /\ NumNodes \in Nat /\ 1 \in Nodes /\ Zero \notin Tasks
  /\ \A n \in Nodes : /\ n \in Nat /\ 1 <= n /\ n <= NumNodes
                      /\ n < NumNodes => n + 1 \in Nodes /\ next_(n) = n + 1
                      /\ n >= NumNodes => next_(n) = 0 /\ n = NumNodes
BY PipeAssumption DEF Nodes, Tasks, Zero, next_

LEMMA NoTaskIsZero == Zero \notin Tasks
BY Chain

LEMMA LastNode == \A n \in Nodes : next_(n) = 0 <=> n = NumNodes
BY PipeAssumption DEF Nodes, next_

LEMMA InitEstablishesIInv == Init => IInv
<1> SUFFICES ASSUME Init PROVE IInv
  OBVIOUS
<1> USE Actors, Chain DEF Init
<1>1. TypeOK
  BY DEF TypeOK
<1>2. PointsOfCode
  BY DEF PointsOfCode
<1>3. LocksMatch
  BY DEF LocksMatch, HeldNode
<1>4. QueuesOrdered /\ HandsOrdered /\ PoppersReady
  BY DEF QueuesOrdered, HandsOrdered, PoppersReady, InHand
<1>5. OutsideUntouched /\ StagesInOrder
  BY DEF OutsideUntouched, StagesInOrder, QueuedAt
<1> QED BY <1>1, <1>2, <1>3, <1>4, <1>5 DEF IInv
-----------------------------------------------------------------------------
(* One lemma per conjunct of IInv, one case per action.                    *)

LEMMA KeepsTypeOK == ASSUME IInv, [Next]_vars PROVE TypeOK'
<1> USE Actors, Chain DEF IInv, TypeOK, Goto, Lock, Unlock, PushTask, queueVars, history
<1>1. CASE Receive
  BY <1>1 DEF Receive
<1>2. CASE AppPush
  BY <1>2 DEF AppPush, PointsOfCode
<1>3. CASE AppUnlock
  BY <1>3 DEF AppUnlock
<1>4. ASSUME NEW w \in WorkThreads, Look(w) PROVE TypeOK'
  BY <1>4 DEF Look, Cleared
<1>5. ASSUME NEW w \in WorkThreads, SeesEmpty(w) PROVE TypeOK'
  BY <1>5 DEF SeesEmpty, Deliver
<1>6. ASSUME NEW w \in WorkThreads, SeesTasks(w) PROVE TypeOK'
  BY <1>6 DEF SeesTasks
<1>7. ASSUME NEW w \in WorkThreads, Process(w) PROVE TypeOK'
  <2>1. Front(NodeOf(w)) \in Tasks
    BY <1>7 DEF Process, Front, Empty
  <2>2. CASE tmp_buffer' = [tmp_buffer EXCEPT ![w] = Front(NodeOf(w))] /\ UNCHANGED place
    BY <1>7, <2>1, <2>2 DEF Process
  <2>3. CASE /\ tmp_buffer' = [tmp_buffer EXCEPT ![w] = Zero]
             /\ place' = [place EXCEPT ![Front(NodeOf(w))] = "left"]
    BY <1>7, <2>1, <2>3 DEF Process
  <2> QED BY <1>7, <2>2, <2>3 DEF Process
<1>8. ASSUME NEW w \in WorkThreads, PopFront(w) PROVE TypeOK'
  <2>1. popped[NodeOf(w)] + 1 <= Len(pushed[NodeOf(w)])
    BY <1>8 DEF PopFront, PoppersReady, Empty
  <2> QED BY <1>8, <2>1 DEF PopFront, PoppedAfter
<1>9. ASSUME NEW w \in WorkThreads, FindsNothing(w) PROVE TypeOK'
  BY <1>9 DEF FindsNothing
<1>14. ASSUME NEW w \in WorkThreads, ProcessHangs(w) PROVE TypeOK'
  BY <1>14 DEF ProcessHangs
<1>10. ASSUME NEW w \in WorkThreads, WorkerUnlock(w) PROVE TypeOK'
  BY <1>10 DEF WorkerUnlock, Deliver
<1>11. ASSUME NEW w \in WorkThreads, Save(w) PROVE TypeOK'
  BY <1>11 DEF Save, PointsOfCode
<1>12. ASSUME NEW w \in WorkThreads, SaveUnlock(w) PROVE TypeOK'
  BY <1>12 DEF SaveUnlock
<1>13. CASE UNCHANGED vars
  BY <1>13 DEF vars
<1> QED BY <1>1, <1>2, <1>3, <1>4, <1>5, <1>6, <1>7, <1>8, <1>9, <1>10, <1>11,
           <1>12, <1>13, <1>14 DEF Next, AppStep, WorkerStep

LEMMA KeepsPointsOfCode == ASSUME IInv, [Next]_vars PROVE PointsOfCode'
<1> USE Actors, Chain DEF IInv, TypeOK, PointsOfCode, Goto
<1>1. CASE Receive
  BY <1>1 DEF Receive
<1>2. CASE AppPush
  BY <1>2 DEF AppPush
<1>3. CASE AppUnlock
  BY <1>3 DEF AppUnlock
<1>4. ASSUME NEW w \in WorkThreads, Look(w) PROVE PointsOfCode'
  BY <1>4 DEF Look, Cleared
<1>5. ASSUME NEW w \in WorkThreads, SeesEmpty(w) PROVE PointsOfCode'
  BY <1>5 DEF SeesEmpty, Deliver
<1>6. ASSUME NEW w \in WorkThreads, SeesTasks(w) PROVE PointsOfCode'
  BY <1>6 DEF SeesTasks
<1>7. ASSUME NEW w \in WorkThreads, Process(w) PROVE PointsOfCode'
  BY <1>7 DEF Process
<1>8. ASSUME NEW w \in WorkThreads, PopFront(w) PROVE PointsOfCode'
  BY <1>8 DEF PopFront
<1>9. ASSUME NEW w \in WorkThreads, FindsNothing(w) PROVE PointsOfCode'
  BY <1>9 DEF FindsNothing
<1>14. ASSUME NEW w \in WorkThreads, ProcessHangs(w) PROVE PointsOfCode'
  BY <1>14 DEF ProcessHangs
<1>10. ASSUME NEW w \in WorkThreads, WorkerUnlock(w) PROVE PointsOfCode'
  <2>1. NodeOf(w) < NumNodes \/ next_(NodeOf(w)) = 0
    OBVIOUS
  <2> QED BY <1>10, <2>1 DEF WorkerUnlock, Deliver
<1>11. ASSUME NEW w \in WorkThreads, Save(w) PROVE PointsOfCode'
  BY <1>11 DEF Save
<1>12. ASSUME NEW w \in WorkThreads, SaveUnlock(w) PROVE PointsOfCode'
  BY <1>12 DEF SaveUnlock
<1>13. CASE UNCHANGED vars
  BY <1>13 DEF vars
<1> QED BY <1>1, <1>2, <1>3, <1>4, <1>5, <1>6, <1>7, <1>8, <1>9, <1>10, <1>11,
           <1>12, <1>13, <1>14 DEF Next, AppStep, WorkerStep

\* LocksMatch is kept when the lock a thread takes, gives back or leaves alone
\* is the one HeldNode says.
LEMMA LockTaken ==
  ASSUME TypeOK, LocksMatch, NEW n \in Nodes, NEW t \in Threads,
         Lock(n, t), HeldNode(t) = 0, HeldNode(t)' = n,
         \A s \in Threads \ {t} : HeldNode(s)' = HeldNode(s)
  PROVE  LocksMatch'
<1>1. buffer_lock_[n] = {} /\ buffer_lock_'[n] = {t}
      /\ \A m \in Nodes \ {n} : buffer_lock_'[m] = buffer_lock_[m]
  BY DEF TypeOK, Lock
<1>2. 0 \notin Nodes
  BY Chain
<1> QED BY <1>1, <1>2 DEF LocksMatch

LEMMA LockGivenBack ==
  ASSUME TypeOK, LocksMatch, NEW n \in Nodes, NEW t \in Threads,
         Unlock(n, t), HeldNode(t)' = 0,
         \A s \in Threads \ {t} : HeldNode(s)' = HeldNode(s)
  PROVE  LocksMatch'
<1>1. buffer_lock_[n] = {t} /\ buffer_lock_'[n] = {}
      /\ \A m \in Nodes \ {n} : buffer_lock_'[m] = buffer_lock_[m]
  BY DEF TypeOK, Unlock
<1>2. 0 \notin Nodes
  BY Chain
<1> QED BY <1>1, <1>2 DEF LocksMatch

LEMMA LocksLeftAlone ==
  ASSUME LocksMatch, UNCHANGED buffer_lock_, \A t \in Threads : HeldNode(t)' = HeldNode(t)
  PROVE  LocksMatch'
BY DEF LocksMatch

LEMMA KeepsLocksMatch == ASSUME IInv, [Next]_vars PROVE LocksMatch'
<1> USE Actors, Chain DEF IInv, TypeOK, PointsOfCode, Goto
<1>1. CASE Receive
  BY <1>1, LocksLeftAlone DEF Receive, HeldNode
<1>2. CASE AppPush
  <2>1. HeldNode(App) = 0 /\ HeldNode(App)' = 1
    BY <1>2 DEF AppPush, HeldNode
  <2>2. \A s \in Threads \ {App} : HeldNode(s)' = HeldNode(s)
    BY <1>2 DEF AppPush, HeldNode
  <2> QED BY <1>2, <2>1, <2>2, LockTaken DEF AppPush, PushTask
<1>3. CASE AppUnlock
  <2>1. HeldNode(App)' = 0
    BY <1>3 DEF AppUnlock, HeldNode
  <2>2. \A s \in Threads \ {App} : HeldNode(s)' = HeldNode(s)
    BY <1>3 DEF AppUnlock, HeldNode
  <2> QED BY <1>3, <2>1, <2>2, LockGivenBack DEF AppUnlock
<1>4. ASSUME NEW w \in WorkThreads, Look(w) PROVE LocksMatch'
  <2>1. \A t \in Threads : HeldNode(t)' = HeldNode(t)
    BY <1>4 DEF Look, HeldNode
  <2> QED BY <1>4, <2>1, LocksLeftAlone DEF Look
<1>5. ASSUME NEW w \in WorkThreads, SeesEmpty(w) PROVE LocksMatch'
  <2>1. \A t \in Threads : HeldNode(t)' = HeldNode(t)
    BY <1>5 DEF SeesEmpty, Deliver, HeldNode
  <2> QED BY <1>5, <2>1, LocksLeftAlone DEF SeesEmpty
<1>6. ASSUME NEW w \in WorkThreads, SeesTasks(w) PROVE LocksMatch'
  <2>1. \A t \in Threads : HeldNode(t)' = HeldNode(t)
    BY <1>6 DEF SeesTasks, HeldNode
  <2> QED BY <1>6, <2>1, LocksLeftAlone DEF SeesTasks
<1>7. ASSUME NEW w \in WorkThreads, Process(w) PROVE LocksMatch'
  <2>1. HeldNode(w) = 0 /\ HeldNode(w)' = NodeOf(w)
    BY <1>7 DEF Process, HeldNode
  <2>2. \A s \in Threads \ {w} : HeldNode(s)' = HeldNode(s)
    BY <1>7 DEF Process, HeldNode
  <2> QED BY <1>7, <2>1, <2>2, LockTaken DEF Process
<1>8. ASSUME NEW w \in WorkThreads, PopFront(w) PROVE LocksMatch'
  <2>1. \A t \in Threads : HeldNode(t)' = HeldNode(t)
    BY <1>8 DEF PopFront, HeldNode
  <2> QED BY <1>8, <2>1, LocksLeftAlone DEF PopFront
<1>9. ASSUME NEW w \in WorkThreads, FindsNothing(w) PROVE LocksMatch'
  <2>1. HeldNode(w) = 0 /\ HeldNode(w)' = NodeOf(w)
    BY <1>9 DEF FindsNothing, HeldNode
  <2>2. \A s \in Threads \ {w} : HeldNode(s)' = HeldNode(s)
    BY <1>9 DEF FindsNothing, HeldNode
  <2> QED BY <1>9, <2>1, <2>2, LockTaken DEF FindsNothing
<1>14. ASSUME NEW w \in WorkThreads, ProcessHangs(w) PROVE LocksMatch'
  <2>1. HeldNode(w) = 0 /\ HeldNode(w)' = NodeOf(w)
    BY <1>14 DEF ProcessHangs, HeldNode
  <2>2. \A s \in Threads \ {w} : HeldNode(s)' = HeldNode(s)
    BY <1>14 DEF ProcessHangs, HeldNode
  <2> QED BY <1>14, <2>1, <2>2, LockTaken DEF ProcessHangs
<1>10. ASSUME NEW w \in WorkThreads, WorkerUnlock(w) PROVE LocksMatch'
  <2>1. HeldNode(w)' = 0
    BY <1>10 DEF WorkerUnlock, Deliver, HeldNode
  <2>2. \A s \in Threads \ {w} : HeldNode(s)' = HeldNode(s)
    BY <1>10 DEF WorkerUnlock, Deliver, HeldNode
  <2> QED BY <1>10, <2>1, <2>2, LockGivenBack DEF WorkerUnlock
<1>11. ASSUME NEW w \in WorkThreads, Save(w) PROVE LocksMatch'
  <2>1. HeldNode(w) = 0 /\ HeldNode(w)' = NodeOf(w) + 1
    BY <1>11 DEF Save, HeldNode
  <2>2. \A s \in Threads \ {w} : HeldNode(s)' = HeldNode(s)
    BY <1>11 DEF Save, HeldNode
  <2>3. NodeOf(w) + 1 \in Nodes /\ next_(NodeOf(w)) = NodeOf(w) + 1
    BY <1>11 DEF Save
  <2> QED BY <1>11, <2>1, <2>2, <2>3, LockTaken DEF Save, PushTask
<1>12. ASSUME NEW w \in WorkThreads, SaveUnlock(w) PROVE LocksMatch'
  <2>1. HeldNode(w)' = 0
    BY <1>12 DEF SaveUnlock, HeldNode
  <2>2. \A s \in Threads \ {w} : HeldNode(s)' = HeldNode(s)
    BY <1>12 DEF SaveUnlock, HeldNode
  <2>3. NodeOf(w) + 1 \in Nodes /\ next_(NodeOf(w)) = NodeOf(w) + 1
    BY <1>12 DEF SaveUnlock
  <2> QED BY <1>12, <2>1, <2>2, <2>3, LockGivenBack DEF SaveUnlock
<1>13. CASE UNCHANGED vars
  <2>1. \A t \in Threads : HeldNode(t)' = HeldNode(t)
    BY <1>13 DEF vars, HeldNode
  <2> QED BY <1>13, <2>1, LocksLeftAlone DEF vars
<1> QED BY <1>1, <1>2, <1>3, <1>4, <1>5, <1>6, <1>7, <1>8, <1>9, <1>10, <1>11,
           <1>12, <1>13, <1>14 DEF Next, AppStep, WorkerStep
-----------------------------------------------------------------------------
(* What a step does to the queues and to what has been processed.          *)

\* PushTask adds one task at the end of one queue.
LEMMA PushAddsOne ==
  ASSUME TypeOK, NEW n \in Nodes, NEW t \in Threads, tmp_buffer[t] \in Tasks, PushTask(n, t)
  PROVE  /\ \A m \in Nodes \ {n} : pushed'[m] = pushed[m]
         /\ Len(pushed'[n]) = Len(pushed[n]) + 1
         /\ \A i \in 1..Len(pushed[n]) : pushed'[n][i] = pushed[n][i]
         /\ pushed'[n][Len(pushed[n]) + 1] = tmp_buffer[t]
BY DEF TypeOK, PushTask

QueuedNext(n, k) == \E i \in 1..Len(pushed'[n]) : pushed'[n][i] = k

LEMMA PushQueues ==
  ASSUME TypeOK, NEW n \in Nodes, NEW t \in Threads, tmp_buffer[t] \in Tasks, PushTask(n, t),
         NEW m \in Nodes, NEW k \in Tasks, QueuedNext(m, k)
  PROVE  QueuedAt(m, k) \/ (m = n /\ k = tmp_buffer[t])
<1>1. PICK i \in 1..Len(pushed'[m]) : pushed'[m][i] = k
  BY DEF QueuedNext
<1>2. CASE m # n
  BY <1>1, <1>2, PushAddsOne DEF QueuedAt
<1>3. CASE m = n /\ i \in 1..Len(pushed[n])
  BY <1>1, <1>3, PushAddsOne DEF QueuedAt
<1>4. CASE m = n /\ i = Len(pushed[n]) + 1
  BY <1>1, <1>4, PushAddsOne
<1>5. Len(pushed[n]) \in Nat
  BY DEF TypeOK
<1> QED BY <1>1, <1>2, <1>3, <1>4, <1>5, PushAddsOne

\* A node whose lock is free has nobody about to pop.
LEMMA FreeLockNoPopping ==
  ASSUME IInv, NEW n \in Nodes, buffer_lock_[n] = {} PROVE ~Popping(n)
BY Actors DEF IInv, LocksMatch, HeldNode, Popping

\* At most one worker of a node is about to pop.
LEMMA OnePopper ==
  ASSUME IInv, NEW v \in WorkThreads, NEW w \in WorkThreads,
         pc[v] \in {"pop", "unlock"}, pc[w] \in {"pop", "unlock"}, NodeOf(v) = NodeOf(w)
  PROVE  v = w
BY Actors DEF IInv, LocksMatch, HeldNode

\* Process takes the front of its node, which has been through the nodes
\* before and through no other.
LEMMA ProcessTakesFront ==
  ASSUME IInv, NEW w \in WorkThreads, Process(w)
  PROVE  LET n == NodeOf(w)  k == Front(n)
         IN /\ k \in Tasks /\ popped[n] + 1 \in 1..Len(pushed[n])
            /\ k = pushed[n][popped[n] + 1] /\ QueuedAt(n, k)
            /\ Done(n) = popped[n] /\ ~Popping(n)
            /\ Len(ran[k]) = n - 1 /\ place[k] = "inside"
<1> DEFINE n == NodeOf(w)
           k == Front(n)
<1> USE Actors, Chain
<1>1. popped[n] \in Nat /\ pushed[n] \in Seq(Tasks) /\ popped[n] + 1 \in 1..Len(pushed[n])
  BY DEF IInv, TypeOK, Process, Empty
<1>2. k \in Tasks /\ k = pushed[n][popped[n] + 1] /\ QueuedAt(n, k)
  BY <1>1 DEF Front, QueuedAt
<1>3. Done(n) = popped[n] /\ ~Popping(n)
  BY FreeLockNoPopping DEF Done, Process, Lock
<1>4. Len(ran[k]) = n - 1 /\ place[k] = "inside"
  <2>1. n \in Nodes /\ popped[n] + 1 > Done(n)
    BY <1>1, <1>3
  <2>2. \A i \in 1..Len(pushed[n]) :
          i > Done(n) => Len(ran[pushed[n][i]]) = n - 1 /\ place[pushed[n][i]] = "inside"
    BY <2>1 DEF IInv, QueuesOrdered
  <2> HIDE DEF n, k
  <2> QED BY <1>1, <1>2, <2>1, <2>2
<1> QED BY <1>1, <1>2, <1>3, <1>4

LEMMA ProcessCounts ==
  ASSUME IInv, NEW w \in WorkThreads, Process(w)
  PROVE  /\ Done(NodeOf(w))' = popped[NodeOf(w)] + 1
         /\ \A m \in Nodes \ {NodeOf(w)} : Done(m)' = Done(m)
<1> USE Actors DEF IInv, TypeOK, Process, Goto, queueVars
<1>1. Popping(NodeOf(w))'
  BY DEF Popping
<1>2. \A m \in Nodes \ {NodeOf(w)} : Popping(m)' <=> Popping(m)
  BY DEF Popping
<1> QED BY <1>1, <1>2 DEF Done

LEMMA ProcessRuns ==
  ASSUME IInv, NEW w \in WorkThreads, Process(w)
  PROVE  LET k == Front(NodeOf(w))
         IN /\ Len(ran'[k]) = Len(ran[k]) + 1
            /\ ran'[k][Len(ran[k]) + 1] = NodeOf(w)
            /\ \A i \in 1..Len(ran[k]) : ran'[k][i] = ran[k][i]
            /\ \A j \in Tasks \ {k} : ran'[j] = ran[j] /\ place'[j] = place[j]
            /\ place'[k] # "outside" /\ ran[k] \in Seq(Nodes)
            /\ \/ tmp_buffer'[w] = k /\ place'[k] = "inside"
               \/ tmp_buffer'[w] = Zero /\ place'[k] = "left"
<1> DEFINE k == Front(NodeOf(w))
<1>1. k \in Tasks /\ place[k] = "inside"
  BY ProcessTakesFront
<1>2. ran' = [ran EXCEPT ![k] = Append(@, NodeOf(w))]
  BY DEF Process
<1>3. ran[k] \in Seq(Nodes) /\ ran \in [Tasks -> Seq(Nodes)] /\ NodeOf(w) \in Nodes
  BY <1>1, Actors DEF IInv, TypeOK
<1>4. \/ tmp_buffer' = [tmp_buffer EXCEPT ![w] = k] /\ UNCHANGED place
      \/ tmp_buffer' = [tmp_buffer EXCEPT ![w] = Zero] /\ place' = [place EXCEPT ![k] = "left"]
  BY DEF Process
<1>5. w \in Threads /\ tmp_buffer \in [Threads -> Tasks \cup {Zero}]
      /\ place \in [Tasks -> {"outside", "inside", "left"}]
  BY Actors DEF IInv, TypeOK
<1> HIDE DEF k
<1>6. /\ \A j \in Tasks \ {k} : place'[j] = place[j]
      /\ \/ tmp_buffer'[w] = k /\ place'[k] = "inside"
         \/ tmp_buffer'[w] = Zero /\ place'[k] = "left"
  BY <1>1, <1>4, <1>5
<1>7. /\ Len(ran'[k]) = Len(ran[k]) + 1
      /\ ran'[k][Len(ran[k]) + 1] = NodeOf(w)
      /\ \A i \in 1..Len(ran[k]) : ran'[k][i] = ran[k][i]
      /\ \A j \in Tasks \ {k} : ran'[j] = ran[j]
  BY <1>1, <1>2, <1>3
<1> QED BY <1>3, <1>6, <1>7 DEF k

\* Every other step leaves the number processed as it is: PopFront counts
\* what its worker was about to pop.
LEMMA OthersKeepDone ==
  ASSUME IInv, [Next]_vars, \A w \in WorkThreads : ~Process(w)
  PROVE  \A n \in Nodes : Done(n)' = Done(n)
<1> USE Actors DEF IInv, TypeOK, Goto, queueVars
<1>1. CASE Receive
  BY <1>1 DEF Receive, Done, Popping
<1>2. CASE AppPush
  BY <1>2 DEF AppPush, Done, Popping
<1>3. CASE AppUnlock
  BY <1>3 DEF AppUnlock, Done, Popping
<1>4. ASSUME NEW w \in WorkThreads, Look(w) PROVE \A n \in Nodes : Done(n)' = Done(n)
  BY <1>4 DEF Look, Done, Popping
<1>5. ASSUME NEW w \in WorkThreads, SeesEmpty(w) PROVE \A n \in Nodes : Done(n)' = Done(n)
  BY <1>5 DEF SeesEmpty, Deliver, Done, Popping
<1>6. ASSUME NEW w \in WorkThreads, SeesTasks(w) PROVE \A n \in Nodes : Done(n)' = Done(n)
  BY <1>6 DEF SeesTasks, Done, Popping
<1>8. ASSUME NEW w \in WorkThreads, PopFront(w) PROVE \A n \in Nodes : Done(n)' = Done(n)
  <2>1. Popping(NodeOf(w)) /\ ~Popping(NodeOf(w))'
    BY <1>8, OnePopper DEF PopFront, Popping
  <2>2. \A n \in Nodes \ {NodeOf(w)} : Popping(n)' <=> Popping(n)
    BY <1>8 DEF PopFront, Popping
  <2> QED BY <1>8, <2>1, <2>2 DEF PopFront, PoppedAfter, Done
<1>9. ASSUME NEW w \in WorkThreads, FindsNothing(w) PROVE \A n \in Nodes : Done(n)' = Done(n)
  BY <1>9 DEF FindsNothing, Done, Popping
<1>14. ASSUME NEW w \in WorkThreads, ProcessHangs(w) PROVE \A n \in Nodes : Done(n)' = Done(n)
  BY <1>14 DEF ProcessHangs, Done, Popping
<1>10. ASSUME NEW w \in WorkThreads, WorkerUnlock(w) PROVE \A n \in Nodes : Done(n)' = Done(n)
  BY <1>10 DEF WorkerUnlock, Deliver, Done, Popping
<1>11. ASSUME NEW w \in WorkThreads, Save(w) PROVE \A n \in Nodes : Done(n)' = Done(n)
  BY <1>11 DEF Save, Done, Popping
<1>12. ASSUME NEW w \in WorkThreads, SaveUnlock(w) PROVE \A n \in Nodes : Done(n)' = Done(n)
  BY <1>12 DEF SaveUnlock, Done, Popping
<1>13. CASE UNCHANGED vars
  BY <1>13 DEF vars, Done, Popping
<1> QED BY <1>1, <1>2, <1>3, <1>4, <1>5, <1>6, <1>8, <1>9, <1>10, <1>11,
           <1>12, <1>13, <1>14 DEF Next, AppStep, WorkerStep
-----------------------------------------------------------------------------
(* The conjuncts on tasks: most steps are quiet for them, and of the steps *)
(* that deliver nothing to a next node only those of a last node are not.  *)

QuietStep == /\ UNCHANGED <<pushed, ran, place>>
             /\ \A n \in Nodes : Done(n)' = Done(n)
             /\ \A v \in WorkThreads :
                  /\ InHand(v)' <=> InHand(v)
                  /\ InHand(v) => tmp_buffer'[v] = tmp_buffer[v]

LeaveStep(w) == /\ UNCHANGED <<pushed, popped, ran, tmp_buffer>>
                /\ \A n \in Nodes : Done(n)' = Done(n)
                /\ InHand(w) /\ ~InHand(w)' /\ NodeOf(w) = NumNodes
                /\ \A v \in WorkThreads \ {w} : InHand(v)' <=> InHand(v)
                /\ place' = [place EXCEPT ![tmp_buffer[w]] = "left"]

LEMMA UnlockIsQuietOrLeaves ==
  ASSUME IInv, NEW w \in WorkThreads, WorkerUnlock(w) PROVE QuietStep \/ LeaveStep(w)
<1> USE Actors, Chain DEF IInv, TypeOK, WorkerUnlock, queueVars, InHand
<1>1. \A n \in Nodes : Done(n)' = Done(n)
  BY OthersKeepDone DEF Next, WorkerStep, Process, Goto, Deliver
<1>2. CASE tmp_buffer[w] = Zero
  BY <1>1, <1>2 DEF QuietStep, Deliver, Goto
<1>3. CASE tmp_buffer[w] # Zero /\ next_(NodeOf(w)) # 0
  BY <1>1, <1>3 DEF QuietStep, Deliver, Goto
<1>4. CASE tmp_buffer[w] # Zero /\ next_(NodeOf(w)) = 0
  <2>1. NodeOf(w) = NumNodes
    BY <1>4, LastNode
  <2>2. InHand(w) /\ ~InHand(w)'
    BY <1>4 DEF Deliver, Goto
  <2> QED BY <1>1, <1>4, <2>1, <2>2 DEF LeaveStep, Deliver, Goto
<1> QED BY <1>2, <1>3, <1>4

LEMMA StepKinds ==
  ASSUME IInv, [Next]_vars
  PROVE  \/ QuietStep
         \/ AppPush
         \/ \E w \in WorkThreads : LeaveStep(w) \/ Process(w) \/ Save(w)
<1> SUFFICES ASSUME \A w \in WorkThreads : ~Process(w), ~AppPush,
                    \A w \in WorkThreads : ~Save(w)
             PROVE  QuietStep \/ \E w \in WorkThreads : LeaveStep(w)
  OBVIOUS
<1>0. \A n \in Nodes : Done(n)' = Done(n)
  BY OthersKeepDone
<1> USE <1>0, Actors, Chain DEF IInv, TypeOK, Goto, queueVars, history, QuietStep, InHand
<1>1. CASE Receive
  BY <1>1 DEF Receive
<1>2. CASE AppUnlock
  BY <1>2 DEF AppUnlock
<1>3. ASSUME NEW w \in WorkThreads, Look(w) PROVE QuietStep
  BY <1>3 DEF Look
<1>4. ASSUME NEW w \in WorkThreads, SeesEmpty(w) PROVE QuietStep
  BY <1>4 DEF SeesEmpty, Deliver, PointsOfCode
<1>5. ASSUME NEW w \in WorkThreads, SeesTasks(w) PROVE QuietStep
  BY <1>5 DEF SeesTasks
<1>6. ASSUME NEW w \in WorkThreads, PopFront(w) PROVE QuietStep
  BY <1>6 DEF PopFront
<1>7. ASSUME NEW w \in WorkThreads, FindsNothing(w) PROVE QuietStep
  BY <1>7 DEF FindsNothing, PointsOfCode
<1>14. ASSUME NEW w \in WorkThreads, ProcessHangs(w) PROVE QuietStep
  BY <1>14 DEF ProcessHangs, PointsOfCode
<1>8. ASSUME NEW w \in WorkThreads, WorkerUnlock(w) PROVE QuietStep \/ LeaveStep(w)
  BY <1>8, UnlockIsQuietOrLeaves
<1>9. ASSUME NEW w \in WorkThreads, SaveUnlock(w) PROVE QuietStep
  BY <1>9 DEF SaveUnlock
<1>10. CASE UNCHANGED vars
  BY <1>10 DEF vars
<1> QED BY <1>1, <1>2, <1>3, <1>4, <1>5, <1>6, <1>7, <1>8, <1>9, <1>10, <1>14
           DEF Next, AppStep, WorkerStep

\* A push at node n, by a thread that has a task that is not queued there and
\* has been through just the nodes before.
PushReady(n, t) == /\ tmp_buffer[t] \in Tasks
                   /\ ~QueuedAt(n, tmp_buffer[t])
                   /\ Len(ran[tmp_buffer[t]]) = n - 1
                   /\ place'[tmp_buffer[t]] = "inside"

LEMMA PushKeepsQueuesOrdered ==
  ASSUME IInv, NEW n \in Nodes, NEW t \in Threads, PushTask(n, t), PushReady(n, t),
         UNCHANGED ran, \A m \in Nodes : Done(m)' = Done(m),
         \A k \in Tasks : place[k] = "inside" => place'[k] = "inside"
  PROVE  QueuesOrdered'
<1> SUFFICES ASSUME NEW m \in Nodes, NEW i \in 1..Len(pushed'[m])
             PROVE  /\ \A j \in 1..Len(pushed'[m]) : pushed'[m][i] = pushed'[m][j] => i = j
                    /\ Len(ran[pushed'[m][i]]) >= m - 1
                    /\ i > Done(m) => /\ Len(ran[pushed'[m][i]]) = m - 1
                                      /\ place'[pushed'[m][i]] = "inside"
  BY DEF QueuesOrdered
<1>1. /\ \A j \in 1..Len(pushed[m]) : pushed[m][j] \in Tasks
      /\ Len(pushed[m]) \in Nat /\ Len(pushed[n]) \in Nat /\ m \in Nat /\ n \in Nat
  BY Chain DEF IInv, TypeOK
<1>2. CASE m # n
  <2>1. pushed'[m] = pushed[m] /\ i \in 1..Len(pushed[m]) /\ pushed[m][i] \in Tasks
    BY <1>1, <1>2, PushAddsOne DEF IInv, PushReady
  <2> QED BY <2>1 DEF IInv, QueuesOrdered
<1>3. CASE m = n /\ i # Len(pushed[n]) + 1
  <2>1. i \in 1..Len(pushed[m]) /\ pushed'[m][i] = pushed[m][i]
    BY <1>1, <1>3, PushAddsOne DEF IInv, PushReady
  <2>2. pushed[m][i] # tmp_buffer[t]
    BY <1>3, <2>1 DEF PushReady, QueuedAt
  <2>3. ASSUME NEW j \in 1..Len(pushed'[m]), pushed'[m][i] = pushed'[m][j] PROVE i = j
    <3>1. CASE j \in 1..Len(pushed[m])
      BY <1>1, <1>3, <2>1, <2>3, <3>1, PushAddsOne DEF IInv, QueuesOrdered, PushReady
    <3>2. CASE j = Len(pushed[m]) + 1
      BY <1>1, <1>3, <2>1, <2>2, <2>3, <3>2, PushAddsOne DEF IInv, PushReady
    <3> QED BY <1>1, <1>3, <3>1, <3>2, PushAddsOne DEF IInv, PushReady
  <2> QED BY <1>1, <2>1, <2>3 DEF IInv, QueuesOrdered
<1>4. CASE m = n /\ i = Len(pushed[n]) + 1
  <2>1. pushed'[m][i] = tmp_buffer[t]
    BY <1>4, PushAddsOne DEF IInv, PushReady
  <2>2. ASSUME NEW j \in 1..Len(pushed'[m]), pushed'[m][i] = pushed'[m][j] PROVE i = j
    <3>1. CASE j \in 1..Len(pushed[m])
      BY <1>4, <2>1, <2>2, <3>1, PushAddsOne DEF IInv, PushReady, QueuedAt
    <3> QED BY <1>1, <1>4, <3>1, PushAddsOne DEF IInv, PushReady
  <2> QED BY <1>1, <1>4, <2>1, <2>2 DEF PushReady
<1> QED BY <1>2, <1>3, <1>4

\* The two pushes are ready in that sense.
LEMMA AppPushReady ==
  ASSUME IInv, AppPush
  PROVE  /\ PushTask(1, App) /\ PushReady(1, App)
         /\ place[tmp_buffer[App]] = "outside"
         /\ \A n \in Nodes : ~QueuedAt(n, tmp_buffer[App])
         /\ \A k \in Tasks \ {tmp_buffer[App]} : place'[k] = place[k]
         /\ UNCHANGED ran /\ UNCHANGED popped /\ UNCHANGED tmp_buffer
         /\ \A n \in Nodes : Done(n)' = Done(n)
<1>1. tmp_buffer[App] \in Tasks /\ place[tmp_buffer[App]] = "outside"
  BY DEF IInv, PointsOfCode, OutsideUntouched, AppPush, Goto
<1>2. \A n \in Nodes : Done(n)' = Done(n)
  BY Actors DEF AppPush, Goto, Done, Popping, IInv, TypeOK
<1> QED BY <1>1, <1>2, Chain DEF AppPush, PushReady, IInv, TypeOK, OutsideUntouched

LEMMA SaveReady ==
  ASSUME IInv, NEW w \in WorkThreads, Save(w)
  PROVE  /\ NodeOf(w) + 1 \in Nodes
         /\ PushTask(NodeOf(w) + 1, w) /\ PushReady(NodeOf(w) + 1, w)
         /\ InHand(w) /\ ~InHand(w)'
         /\ \A v \in WorkThreads \ {w} : InHand(v)' <=> InHand(v)
         /\ UNCHANGED ran /\ UNCHANGED place /\ UNCHANGED popped /\ UNCHANGED tmp_buffer
         /\ \A n \in Nodes : Done(n)' = Done(n)
<1> USE Actors, Chain DEF IInv, TypeOK, Goto, history
<1>1. NodeOf(w) < NumNodes /\ tmp_buffer[w] \in Tasks /\ InHand(w)
  BY DEF PointsOfCode, InHand, Save
<1>2. \A n \in Nodes : Done(n)' = Done(n)
  BY DEF Save, Done, Popping
<1>3. ~InHand(w)' /\ \A v \in WorkThreads \ {w} : InHand(v)' <=> InHand(v)
  BY DEF Save, InHand
<1>4. /\ NodeOf(w) + 1 \in Nodes
      /\ PushTask(NodeOf(w) + 1, w)
      /\ UNCHANGED ran /\ UNCHANGED place /\ UNCHANGED popped /\ UNCHANGED tmp_buffer
  BY <1>1 DEF Save
<1>5. PushReady(NodeOf(w) + 1, w)
  BY <1>1, <1>4 DEF PushReady, HandsOrdered
<1> QED BY <1>1, <1>2, <1>3, <1>4, <1>5

LEMMA ProcessKeepsQueuesOrdered ==
  ASSUME IInv, NEW w \in WorkThreads, Process(w) PROVE QueuesOrdered'
<1> DEFINE n == NodeOf(w)
           k == Front(n)
<1>1. /\ n \in Nodes /\ n \in Nat /\ k \in Tasks /\ popped[n] + 1 \in 1..Len(pushed[n])
      /\ k = pushed[n][popped[n] + 1] /\ Done(n) = popped[n]
      /\ Len(ran[k]) = n - 1 /\ place[k] = "inside"
  BY ProcessTakesFront, Actors, Chain
<1>2. /\ Len(ran'[k]) = Len(ran[k]) + 1
      /\ \A j \in Tasks \ {k} : ran'[j] = ran[j] /\ place'[j] = place[j]
  BY ProcessRuns
<1>3. /\ Done(n)' = popped[n] + 1
      /\ \A m \in Nodes \ {n} : Done(m)' = Done(m)
  BY ProcessCounts
<1>4. UNCHANGED pushed /\ popped[n] \in Nat
  BY <1>1 DEF Process, queueVars, IInv, TypeOK
<1> HIDE DEF n, k
<1> SUFFICES ASSUME NEW m \in Nodes, NEW i \in 1..Len(pushed[m])
             PROVE  /\ \A j \in 1..Len(pushed[m]) : pushed[m][i] = pushed[m][j] => i = j
                    /\ Len(ran'[pushed[m][i]]) >= m - 1
                    /\ i > Done(m)' => /\ Len(ran'[pushed[m][i]]) = m - 1
                                       /\ place'[pushed[m][i]] = "inside"
  BY <1>4 DEF QueuesOrdered
<1>5. /\ \A j \in 1..Len(pushed[m]) : pushed[m][i] = pushed[m][j] => i = j
      /\ Len(ran[pushed[m][i]]) >= m - 1
      /\ i > Done(m) => /\ Len(ran[pushed[m][i]]) = m - 1
                        /\ place[pushed[m][i]] = "inside"
  BY DEF IInv, QueuesOrdered
<1>6. pushed[m][i] \in Tasks /\ m \in Nat
  BY Chain DEF IInv, TypeOK
<1>7. CASE pushed[m][i] # k
  <2>1. i > Done(m)' => i > Done(m)
    <3>1. CASE m = n
      BY <1>1, <1>3, <1>4, <3>1
    <3>2. CASE m # n
      BY <1>3, <3>2
    <3> QED BY <3>1, <3>2
  <2> QED BY <1>2, <1>5, <1>6, <1>7, <2>1
<1>8. CASE pushed[m][i] = k /\ m = n
  <2>1. i = popped[n] + 1
    BY <1>1, <1>5, <1>8
  <2> QED BY <1>1, <1>2, <1>3, <1>4, <1>5, <1>8, <2>1
<1>9. CASE pushed[m][i] = k /\ m # n
  <2>1. ~(i > Done(m)) /\ Done(m)' = Done(m)
    BY <1>1, <1>3, <1>5, <1>6, <1>9
  <2> QED BY <1>1, <1>2, <1>5, <1>6, <1>9, <2>1
<1> QED BY <1>7, <1>8, <1>9

LEMMA QueuesFrom ==
  ASSUME IInv, UNCHANGED pushed, UNCHANGED ran, \A n \in Nodes : Done(n)' = Done(n),
         \A n \in Nodes : \A i \in 1..Len(pushed[n]) :
           i > Done(n) => place'[pushed[n][i]] = "inside"
  PROVE  QueuesOrdered'
<1> SUFFICES ASSUME NEW n \in Nodes, NEW i \in 1..Len(pushed[n])
             PROVE  /\ \A j \in 1..Len(pushed[n]) : pushed[n][i] = pushed[n][j] => i = j
                    /\ Len(ran[pushed[n][i]]) >= n - 1
                    /\ i > Done(n) => /\ Len(ran[pushed[n][i]]) = n - 1
                                      /\ place'[pushed[n][i]] = "inside"
  BY DEF QueuesOrdered
<1> QED BY DEF IInv, QueuesOrdered

LEMMA KeepsQueuesOrdered == ASSUME IInv, [Next]_vars PROVE QueuesOrdered'
<1>1. CASE QuietStep
  BY <1>1 DEF QuietStep, IInv, QueuesOrdered
<1>2. CASE AppPush
  BY <1>2, AppPushReady, PushKeepsQueuesOrdered, Actors, Chain DEF PushReady
<1>3. ASSUME NEW w \in WorkThreads, LeaveStep(w) PROVE QueuesOrdered'
  <2>1. tmp_buffer[w] \in Tasks /\ Len(ran[tmp_buffer[w]]) = NumNodes
    BY <1>3, Actors DEF LeaveStep, InHand, IInv, TypeOK, HandsOrdered
  <2>2. \A k \in Tasks : k # tmp_buffer[w] => place'[k] = place[k]
    BY <1>3, <2>1 DEF LeaveStep, IInv, TypeOK
  <2>3. SUFFICES ASSUME NEW n \in Nodes, NEW i \in 1..Len(pushed[n]), i > Done(n)
                 PROVE  place'[pushed[n][i]] = "inside"
    BY <1>3, QueuesFrom DEF LeaveStep
  <2>4. n - 1 # NumNodes
    BY PipeAssumption DEF Nodes
  <2>5. pushed[n][i] \in Tasks
    BY DEF IInv, TypeOK
  <2> QED BY <2>1, <2>2, <2>3, <2>4, <2>5 DEF IInv, QueuesOrdered
<1>4. ASSUME NEW w \in WorkThreads, Process(w) PROVE QueuesOrdered'
  BY <1>4, ProcessKeepsQueuesOrdered
<1>5. ASSUME NEW w \in WorkThreads, Save(w) PROVE QueuesOrdered'
  BY <1>5, SaveReady, PushKeepsQueuesOrdered, Actors
<1> QED BY <1>1, <1>2, <1>3, <1>4, <1>5, StepKinds

\* HandsOrdered in the next state, spelled out.
LEMMA HandsFrom ==
  ASSUME \A v \in WorkThreads : InHand(v)' =>
           /\ Len(ran'[tmp_buffer'[v]]) = NodeOf(v)
           /\ place'[tmp_buffer'[v]] = "inside"
           /\ NodeOf(v) < NumNodes => ~QueuedNext(NodeOf(v) + 1, tmp_buffer'[v])
           /\ \A u \in WorkThreads : InHand(u)' /\ tmp_buffer'[u] = tmp_buffer'[v] => u = v
  PROVE  HandsOrdered'
BY DEF HandsOrdered, QueuedAt, QueuedNext

\* Nobody else has in hand what Process takes: he would have it from the node
\* before and not have saved it yet.
LEMMA NobodyHoldsFront ==
  ASSUME IInv, NEW w \in WorkThreads, Process(w), NEW v \in WorkThreads, InHand(v)
  PROVE  tmp_buffer[v] # Front(NodeOf(w))
<1> SUFFICES ASSUME tmp_buffer[v] = Front(NodeOf(w)) PROVE FALSE
  OBVIOUS
<1>1. Len(ran[tmp_buffer[v]]) = NodeOf(v)
  BY DEF IInv, HandsOrdered
<1>2. NodeOf(v) = NodeOf(w) - 1 /\ QueuedAt(NodeOf(w), tmp_buffer[v])
  BY <1>1, ProcessTakesFront
<1>3. NodeOf(v) < NumNodes /\ NodeOf(v) + 1 = NodeOf(w)
  <2>1. NodeOf(w) \in Nodes
    BY Actors
  <2> QED BY <1>2, <2>1, PipeAssumption DEF Nodes
<1> QED BY <1>2, <1>3 DEF IInv, HandsOrdered

LEMMA ProcessKeepsHandsOrdered ==
  ASSUME IInv, NEW w \in WorkThreads, Process(w) PROVE HandsOrdered'
<1> DEFINE n == NodeOf(w)
           k == Front(n)
<1>1. /\ n \in Nodes /\ n \in Nat /\ k \in Tasks
      /\ Len(ran[k]) = n - 1 /\ place[k] = "inside"
  BY ProcessTakesFront, Actors, Chain
<1>2. /\ Len(ran'[k]) = Len(ran[k]) + 1
      /\ \A j \in Tasks \ {k} : ran'[j] = ran[j] /\ place'[j] = place[j]
      /\ \/ tmp_buffer'[w] = k /\ place'[k] = "inside"
         \/ tmp_buffer'[w] = Zero
  BY ProcessRuns
<1>3. ASSUME NEW v \in WorkThreads \ {w}, InHand(v)'
      PROVE  /\ InHand(v) /\ tmp_buffer'[v] = tmp_buffer[v] /\ tmp_buffer[v] \in Tasks
             /\ tmp_buffer[v] # k
  <2>1. InHand(v) /\ tmp_buffer'[v] = tmp_buffer[v] /\ tmp_buffer[v] \in Tasks
    BY <1>3, Actors DEF Process, Goto, InHand, IInv, TypeOK
  <2> QED BY <2>1, NobodyHoldsFront
<1>4. \A m \in Nodes, j \in Tasks : QueuedNext(m, j) <=> QueuedAt(m, j)
  BY DEF Process, queueVars, QueuedAt, QueuedNext
<1>5. n < NumNodes => ~QueuedAt(n + 1, k)
  <2> SUFFICES ASSUME n < NumNodes, QueuedAt(n + 1, k) PROVE FALSE
    OBVIOUS
  <2>1. n + 1 \in Nodes
    BY <1>1, Chain
  <2>2. Len(ran[k]) >= (n + 1) - 1
    BY <2>1 DEF IInv, QueuesOrdered, QueuedAt
  <2> QED BY <1>1, <2>2
<1>6. n < NumNodes => n + 1 \in Nodes
  BY <1>1, Chain
<1> HIDE DEF n, k
<1>7. ASSUME InHand(w)'
      PROVE  /\ Len(ran'[tmp_buffer'[w]]) = n /\ place'[tmp_buffer'[w]] = "inside"
             /\ n < NumNodes => ~QueuedNext(n + 1, tmp_buffer'[w])
             /\ \A v \in WorkThreads : InHand(v)' /\ tmp_buffer'[v] = tmp_buffer'[w] => v = w
  <2>1. tmp_buffer'[w] = k
    BY <1>2, <1>7 DEF InHand
  <2>2. Len(ran'[tmp_buffer'[w]]) = n /\ place'[tmp_buffer'[w]] = "inside"
    BY <1>1, <1>2, <2>1, NoTaskIsZero
  <2>3. n < NumNodes => ~QueuedNext(n + 1, tmp_buffer'[w])
    BY <1>1, <1>4, <1>5, <1>6, <2>1
  <2>4. \A v \in WorkThreads : InHand(v)' /\ tmp_buffer'[v] = tmp_buffer'[w] => v = w
    BY <1>3, <2>1
  <2> QED BY <2>2, <2>3, <2>4
<1>8. ASSUME NEW v \in WorkThreads \ {w}, InHand(v)'
      PROVE  /\ Len(ran'[tmp_buffer'[v]]) = NodeOf(v) /\ place'[tmp_buffer'[v]] = "inside"
             /\ NodeOf(v) < NumNodes => ~QueuedNext(NodeOf(v) + 1, tmp_buffer'[v])
             /\ \A u \in WorkThreads : InHand(u)' /\ tmp_buffer'[u] = tmp_buffer'[v] => u = v
  <2>1. /\ InHand(v) /\ tmp_buffer'[v] = tmp_buffer[v] /\ tmp_buffer[v] \in Tasks
        /\ tmp_buffer[v] # k
    BY <1>3, <1>8
  <2>2. /\ Len(ran[tmp_buffer[v]]) = NodeOf(v) /\ place[tmp_buffer[v]] = "inside"
        /\ NodeOf(v) < NumNodes => ~QueuedAt(NodeOf(v) + 1, tmp_buffer[v])
        /\ \A u \in WorkThreads : InHand(u) /\ tmp_buffer[u] = tmp_buffer[v] => u = v
    BY <2>1 DEF IInv, HandsOrdered
  <2>3. NodeOf(v) < NumNodes => NodeOf(v) + 1 \in Nodes
    BY Actors, Chain
  <2>4. ASSUME NEW u \in WorkThreads, InHand(u)', tmp_buffer'[u] = tmp_buffer'[v] PROVE u = v
    <3>1. CASE u = w
      BY <1>2, <2>1, <2>4, <3>1 DEF InHand
    <3>2. CASE u # w
      BY <1>3, <2>1, <2>2, <2>4, <3>2
    <3> QED BY <3>1, <3>2
  <2> QED BY <1>2, <1>4, <2>1, <2>2, <2>3, <2>4
<1> QED BY <1>7, <1>8, HandsFrom DEF n

LEMMA SaveKeepsHandsOrdered ==
  ASSUME IInv, NEW w \in WorkThreads, Save(w) PROVE HandsOrdered'
<1>1. SUFFICES ASSUME NEW v \in WorkThreads, InHand(v)', NodeOf(v) < NumNodes,
                      QueuedNext(NodeOf(v) + 1, tmp_buffer[v])
               PROVE  FALSE
  BY SaveReady, HandsFrom DEF IInv, HandsOrdered
<1>2. InHand(v) /\ v # w /\ tmp_buffer[v] # tmp_buffer[w]
  BY <1>1, SaveReady DEF IInv, HandsOrdered
<1>3. NodeOf(v) + 1 \in Nodes /\ tmp_buffer[v] \in Tasks
  BY <1>1, <1>2, Actors, Chain DEF IInv, TypeOK, InHand
<1>4. ~QueuedAt(NodeOf(v) + 1, tmp_buffer[v])
  BY <1>1, <1>2 DEF IInv, HandsOrdered
<1>5. /\ NodeOf(w) + 1 \in Nodes /\ w \in Threads /\ tmp_buffer[w] \in Tasks
      /\ PushTask(NodeOf(w) + 1, w)
      /\ QueuedNext(NodeOf(v) + 1, tmp_buffer[v])
  BY <1>1, SaveReady, Actors DEF PushReady
<1> QED BY <1>2, <1>3, <1>4, <1>5, PushQueues DEF IInv

LEMMA AppPushKeepsHandsOrdered == ASSUME IInv, AppPush PROVE HandsOrdered'
<1>1. \A v \in WorkThreads :
        InHand(v)' => /\ InHand(v) /\ tmp_buffer[v] \in Tasks
                      /\ tmp_buffer[v] # tmp_buffer[App]
  BY AppPushReady, Actors DEF AppPush, Goto, InHand, IInv, TypeOK, HandsOrdered
<1>2. /\ UNCHANGED ran /\ UNCHANGED tmp_buffer
      /\ \A k \in Tasks \ {tmp_buffer[App]} : place'[k] = place[k]
  BY AppPushReady
<1>3. ASSUME NEW v \in WorkThreads, InHand(v)', NodeOf(v) < NumNodes
      PROVE  ~QueuedNext(NodeOf(v) + 1, tmp_buffer[v])
  <2>1. ~QueuedAt(NodeOf(v) + 1, tmp_buffer[v]) /\ NodeOf(v) + 1 \in Nodes
    BY <1>1, <1>3, Actors, Chain DEF IInv, HandsOrdered
  <2>2. 1 \in Nodes /\ App \in Threads /\ tmp_buffer[App] \in Tasks /\ PushTask(1, App)
    BY AppPushReady, Actors, Chain DEF PushReady
  <2> QED BY <1>1, <1>3, <2>1, <2>2, PushQueues DEF IInv
<1> QED BY <1>1, <1>2, <1>3, HandsFrom DEF IInv, HandsOrdered

LEMMA KeepsHandsOrdered == ASSUME IInv, [Next]_vars PROVE HandsOrdered'
<1>1. CASE QuietStep
  <2>1. \A m \in Nodes, k \in Tasks : QueuedNext(m, k) <=> QueuedAt(m, k)
    BY <1>1 DEF QuietStep, QueuedAt, QueuedNext
  <2>2. \A v \in WorkThreads :
          InHand(v)' => InHand(v) /\ tmp_buffer'[v] = tmp_buffer[v] /\ tmp_buffer[v] \in Tasks
    BY <1>1, Actors DEF QuietStep, InHand, IInv, TypeOK
  <2>3. \A v \in WorkThreads : NodeOf(v) < NumNodes => NodeOf(v) + 1 \in Nodes
    BY Actors, Chain
  <2> QED BY <1>1, <2>1, <2>2, <2>3, HandsFrom DEF QuietStep, IInv, HandsOrdered
<1>2. CASE AppPush
  BY <1>2, AppPushKeepsHandsOrdered
<1>3. ASSUME NEW w \in WorkThreads, LeaveStep(w) PROVE HandsOrdered'
  <2>1. \A v \in WorkThreads :
          InHand(v)' => /\ InHand(v) /\ tmp_buffer[v] \in Tasks
                        /\ tmp_buffer[v] # tmp_buffer[w]
    BY <1>3, Actors DEF LeaveStep, InHand, IInv, TypeOK, HandsOrdered
  <2>2. \A k \in Tasks : k # tmp_buffer[w] => place'[k] = place[k]
    BY <1>3 DEF LeaveStep, IInv, TypeOK
  <2> QED BY <1>3, <2>1, <2>2 DEF LeaveStep, IInv, HandsOrdered, QueuedAt
<1>4. ASSUME NEW w \in WorkThreads, Process(w) PROVE HandsOrdered'
  BY <1>4, ProcessKeepsHandsOrdered
<1>5. ASSUME NEW w \in WorkThreads, Save(w) PROVE HandsOrdered'
  BY <1>5, SaveKeepsHandsOrdered
<1> QED BY <1>1, <1>2, <1>3, <1>4, <1>5, StepKinds

\* A worker about to pop stays ready when its node and its hands are left
\* alone, and nothing that has left comes back.
PopperLeftAlone(v) == /\ pc[v] = "pop" /\ tmp_buffer'[v] = tmp_buffer[v]
                      /\ pushed'[NodeOf(v)] = pushed[NodeOf(v)]
                      /\ popped'[NodeOf(v)] = popped[NodeOf(v)]
                      /\ ran'[Front(NodeOf(v))] = ran[Front(NodeOf(v))]

LEMMA FrontIsTask ==
  ASSUME IInv, NEW v \in WorkThreads, pc[v] = "pop" PROVE Front(NodeOf(v)) \in Tasks
BY Actors DEF IInv, TypeOK, PoppersReady, Empty, Front

LEMMA PoppersFrom ==
  ASSUME IInv, \A v \in WorkThreads : pc'[v] = "pop" => PopperLeftAlone(v),
         \A k \in Tasks : place[k] = "left" => place'[k] = "left"
  PROVE  PoppersReady'
BY FrontIsTask DEF IInv, PoppersReady, PopperLeftAlone, Empty, Front

LEMMA ProcessKeepsPoppersReady ==
  ASSUME IInv, NEW w \in WorkThreads, Process(w) PROVE PoppersReady'
<1> DEFINE n == NodeOf(w)
           k == Front(n)
<1>1. /\ n \in Nodes /\ n \in Nat /\ k \in Tasks /\ popped[n] + 1 \in 1..Len(pushed[n])
      /\ QueuedAt(n, k) /\ ~Popping(n) /\ Len(ran[k]) = n - 1 /\ place[k] = "inside"
  BY ProcessTakesFront, Actors, Chain
<1>2. /\ Len(ran'[k]) = Len(ran[k]) + 1
      /\ \A j \in Tasks \ {k} : ran'[j] = ran[j] /\ place'[j] = place[j]
      /\ \/ tmp_buffer'[w] = k
         \/ tmp_buffer'[w] = Zero /\ place'[k] = "left"
  BY ProcessRuns
<1>3. UNCHANGED pushed /\ UNCHANGED popped /\ ~Empty(n)
  BY DEF Process, queueVars
<1>4. ~Empty(n)' /\ Front(n)' = k
  BY <1>3 DEF Empty, Front
<1>5. ASSUME NEW v \in WorkThreads \ {w}, pc'[v] = "pop"
      PROVE  PopperLeftAlone(v) /\ Front(NodeOf(v)) # k
  <2>1. pc[v] = "pop" /\ tmp_buffer'[v] = tmp_buffer[v] /\ NodeOf(v) # n
    BY <1>1, <1>5, Actors DEF Process, Goto, IInv, TypeOK, Popping
  <2>2. Front(NodeOf(v)) \in Tasks
    BY <2>1, FrontIsTask
  <2>3. ASSUME Front(NodeOf(v)) = k PROVE FALSE
    <3>1. tmp_buffer[v] = k
      BY <1>1, <2>1, <2>3 DEF IInv, PoppersReady
    <3> QED BY <1>1, <2>1, <3>1, NobodyHoldsFront, Chain DEF InHand
  <2> QED BY <1>2, <1>3, <2>1, <2>2, <2>3 DEF PopperLeftAlone
<1> HIDE DEF n, k
<1>6. ASSUME NEW v \in WorkThreads \ {w}, pc'[v] = "pop"
      PROVE  /\ ~Empty(NodeOf(v))' /\ Len(ran'[Front(NodeOf(v))']) = NodeOf(v)
             /\ \/ tmp_buffer'[v] = Front(NodeOf(v))'
                \/ tmp_buffer'[v] = Zero /\ place'[Front(NodeOf(v))'] = "left"
  <2>1. /\ ~Empty(NodeOf(v))' /\ Front(NodeOf(v))' = Front(NodeOf(v))
    BY <1>3, <1>5, <1>6 DEF IInv, PoppersReady, PopperLeftAlone, Empty, Front
  <2>2. Front(NodeOf(v)) \in Tasks /\ Front(NodeOf(v)) # k
    BY <1>5, <1>6, FrontIsTask DEF PopperLeftAlone
  <2> QED BY <1>2, <1>5, <1>6, <2>1, <2>2 DEF IInv, PoppersReady, PopperLeftAlone
<1>7. Len(ran'[Front(n)']) = n
  BY <1>1, <1>2, <1>4
<1> QED BY <1>2, <1>4, <1>6, <1>7 DEF PoppersReady, n

LEMMA KeepsPoppersReady == ASSUME IInv, [Next]_vars PROVE PoppersReady'
<1> USE Actors, Chain DEF IInv, TypeOK, Goto, PopperLeftAlone, queueVars, history
<1>1. CASE Receive
  BY <1>1, PoppersFrom DEF Receive
<1>2. CASE AppPush
  <2>1. \A v \in WorkThreads : pc'[v] = "pop" => pc[v] = "pop" /\ NodeOf(v) # 1
    BY <1>2, FreeLockNoPopping DEF AppPush, PushTask, Lock, Popping
  <2>2. \A k \in Tasks : place[k] = "left" => place'[k] = "left"
    BY <1>2, AppPushReady
  <2> QED BY <1>2, <2>1, <2>2, PoppersFrom DEF AppPush, PushTask
<1>3. CASE AppUnlock
  BY <1>3, PoppersFrom DEF AppUnlock
<1>4. ASSUME NEW w \in WorkThreads, Look(w) PROVE PoppersReady'
  BY <1>4, PoppersFrom DEF Look
<1>5. ASSUME NEW w \in WorkThreads, SeesEmpty(w) PROVE PoppersReady'
  BY <1>5, PoppersFrom DEF SeesEmpty, Deliver
<1>6. ASSUME NEW w \in WorkThreads, SeesTasks(w) PROVE PoppersReady'
  BY <1>6, PoppersFrom DEF SeesTasks
<1>7. ASSUME NEW w \in WorkThreads, Process(w) PROVE PoppersReady'
  BY <1>7, ProcessKeepsPoppersReady
<1>8. ASSUME NEW w \in WorkThreads, PopFront(w) PROVE PoppersReady'
  <2>1. \A v \in WorkThreads : pc'[v] = "pop" => pc[v] = "pop" /\ NodeOf(v) # NodeOf(w)
    BY <1>8, OnePopper DEF PopFront
  <2> QED BY <1>8, <2>1, PoppersFrom DEF PopFront
<1>9. ASSUME NEW w \in WorkThreads, FindsNothing(w) PROVE PoppersReady'
  BY <1>9, PoppersFrom DEF FindsNothing
<1>14. ASSUME NEW w \in WorkThreads, ProcessHangs(w) PROVE PoppersReady'
  BY <1>14, PoppersFrom DEF ProcessHangs
<1>10. ASSUME NEW w \in WorkThreads, WorkerUnlock(w) PROVE PoppersReady'
  BY <1>10, PoppersFrom DEF WorkerUnlock, Deliver
<1>11. ASSUME NEW w \in WorkThreads, Save(w) PROVE PoppersReady'
  <2>1. \A v \in WorkThreads : pc'[v] = "pop" => pc[v] = "pop" /\ NodeOf(v) # NodeOf(w) + 1
    BY <1>11, SaveReady, FreeLockNoPopping DEF Save, PushTask, Lock, Popping
  <2> QED BY <1>11, <2>1, SaveReady, PoppersFrom DEF PushTask
<1>12. ASSUME NEW w \in WorkThreads, SaveUnlock(w) PROVE PoppersReady'
  BY <1>12, PoppersFrom DEF SaveUnlock
<1>13. CASE UNCHANGED vars
  BY <1>13, PoppersFrom DEF vars
<1> QED BY <1>1, <1>2, <1>3, <1>4, <1>5, <1>6, <1>7, <1>8, <1>9, <1>10, <1>11,
           <1>12, <1>13, <1>14 DEF Next, AppStep, WorkerStep

\* OutsideUntouched in the next state, spelled out.
LEMMA OutsideFrom ==
  ASSUME \A k \in Tasks : place'[k] = "outside" =>
           /\ \A n \in Nodes : ~QueuedNext(n, k)
           /\ Len(ran'[k]) = 0,
         pc'[App] = "new" => place'[tmp_buffer'[App]] = "outside"
  PROVE  OutsideUntouched'
BY DEF OutsideUntouched, QueuedAt, QueuedNext

\* What the event loop holds before its push is left alone by the workers.
LEMMA AppUndisturbed ==
  ASSUME IInv, NEW w \in WorkThreads, WorkerStep(w)
  PROVE  pc'[App] = pc[App] /\ tmp_buffer'[App] = tmp_buffer[App]
BY Actors DEF IInv, TypeOK, WorkerStep, Look, SeesEmpty, SeesTasks, Process, PopFront,
              ProcessHangs, FindsNothing, WorkerUnlock, Deliver, Save, SaveUnlock, Goto

LEMMA KeepsOutsideUntouched == ASSUME IInv, [Next]_vars PROVE OutsideUntouched'
<1>1. pc'[App] = "new" => /\ tmp_buffer'[App] \in Tasks
                          /\ place[tmp_buffer'[App]] = "outside"
  <2> USE Actors DEF IInv, TypeOK, OutsideUntouched, PointsOfCode, Goto
  <2>1. CASE Receive
    BY <2>1 DEF Receive
  <2>2. CASE AppStep
    BY <2>2 DEF AppStep, AppPush, AppUnlock
  <2>3. ASSUME NEW w \in WorkThreads, WorkerStep(w)
        PROVE  pc'[App] = pc[App] /\ tmp_buffer'[App] = tmp_buffer[App]
    BY <2>3, AppUndisturbed
  <2>4. CASE UNCHANGED vars
    BY <2>4 DEF vars
  <2> QED BY <2>1, <2>2, <2>3, <2>4 DEF Next
<1>2. \A k \in Tasks : place[k] = "outside" =>
        /\ \A n \in Nodes : ~QueuedAt(n, k)
        /\ Len(ran[k]) = 0
  BY DEF IInv, OutsideUntouched
<1>3. CASE QuietStep
  <2>1. \A n \in Nodes, k \in Tasks : QueuedNext(n, k) <=> QueuedAt(n, k)
    BY <1>3 DEF QuietStep, QueuedAt, QueuedNext
  <2> QED BY <1>1, <1>2, <1>3, <2>1, OutsideFrom DEF QuietStep
<1>4. CASE AppPush
  <2>1. pc'[App] = "unlock"
    BY <1>4, Actors DEF AppPush, Goto, IInv, TypeOK
  <2>2. ASSUME NEW k \in Tasks, place'[k] = "outside"
        PROVE  /\ \A n \in Nodes : ~QueuedNext(n, k)
               /\ Len(ran'[k]) = 0
    <3>1. k # tmp_buffer[App] /\ place[k] = "outside" /\ UNCHANGED ran
      BY <1>4, <2>2, AppPushReady DEF PushReady
    <3> QED BY <1>2, <1>4, <3>1, AppPushReady, PushQueues, Actors, Chain DEF IInv, PushReady
  <2> QED BY <2>1, <2>2, OutsideFrom
<1>5. ASSUME NEW w \in WorkThreads, LeaveStep(w) PROVE OutsideUntouched'
  <2>1. /\ tmp_buffer[w] \in Tasks /\ place[tmp_buffer[w]] = "inside"
        /\ place' = [place EXCEPT ![tmp_buffer[w]] = "left"]
        /\ UNCHANGED pushed /\ UNCHANGED ran
    BY <1>5, Actors DEF LeaveStep, InHand, IInv, TypeOK, HandsOrdered
  <2>2. \A k \in Tasks : place'[k] = "outside" <=> place[k] = "outside"
    BY <2>1 DEF IInv, TypeOK
  <2>3. \A n \in Nodes, k \in Tasks : QueuedNext(n, k) <=> QueuedAt(n, k)
    BY <2>1 DEF QueuedAt, QueuedNext
  <2> QED BY <1>1, <1>2, <2>1, <2>2, <2>3, OutsideFrom
<1>6. ASSUME NEW w \in WorkThreads, Process(w) PROVE OutsideUntouched'
  <2> DEFINE k == Front(NodeOf(w))
  <2>1. k \in Tasks /\ place[k] = "inside"
    BY <1>6, ProcessTakesFront
  <2>2. /\ \A j \in Tasks \ {k} : ran'[j] = ran[j] /\ place'[j] = place[j]
        /\ place'[k] # "outside"
    BY <1>6, ProcessRuns
  <2>3. \A n \in Nodes, j \in Tasks : QueuedNext(n, j) <=> QueuedAt(n, j)
    BY <1>6 DEF Process, queueVars, QueuedAt, QueuedNext
  <2> HIDE DEF k
  <2> QED BY <1>1, <1>2, <2>1, <2>2, <2>3, OutsideFrom
<1>7. ASSUME NEW w \in WorkThreads, Save(w) PROVE OutsideUntouched'
  <2>1. /\ place[tmp_buffer[w]] = "inside" /\ UNCHANGED ran /\ UNCHANGED place
        /\ w \in Threads /\ tmp_buffer[w] \in Tasks
        /\ NodeOf(w) + 1 \in Nodes /\ PushTask(NodeOf(w) + 1, w)
    BY <1>7, SaveReady, Actors DEF PushReady
  <2>2. ASSUME NEW k \in Tasks, place'[k] = "outside", NEW n \in Nodes
        PROVE  ~QueuedNext(n, k)
    BY <1>2, <2>1, <2>2, PushQueues DEF IInv
  <2> QED BY <1>1, <1>2, <2>1, <2>2, OutsideFrom
<1> QED BY <1>3, <1>4, <1>5, <1>6, <1>7, StepKinds

LEMMA KeepsStagesInOrder == ASSUME IInv, [Next]_vars PROVE StagesInOrder'
<1>1. ASSUME NEW w \in WorkThreads, Process(w) PROVE StagesInOrder'
  <2> DEFINE k == Front(NodeOf(w))
  <2>1. k \in Tasks /\ Len(ran[k]) = NodeOf(w) - 1
    BY <1>1, ProcessTakesFront
  <2>2. /\ Len(ran'[k]) = Len(ran[k]) + 1
        /\ ran'[k][Len(ran[k]) + 1] = NodeOf(w)
        /\ \A i \in 1..Len(ran[k]) : ran'[k][i] = ran[k][i]
        /\ \A j \in Tasks \ {k} : ran'[j] = ran[j]
        /\ Len(ran[k]) \in Nat
    BY <1>1, ProcessRuns
  <2>3. NodeOf(w) \in Nat
    BY Actors, Chain
  <2> HIDE DEF k
  <2>4. ASSUME NEW j \in 1..Len(ran'[k]) PROVE ran'[k][j] = j
    <3>1. CASE j \in 1..Len(ran[k])
      BY <2>1, <2>2, <3>1 DEF IInv, StagesInOrder
    <3>2. CASE j = Len(ran[k]) + 1
      BY <2>1, <2>2, <2>3, <3>2
    <3> QED BY <2>2, <3>1, <3>2
  <2> QED BY <2>2, <2>4 DEF IInv, StagesInOrder
<1>2. CASE UNCHANGED ran
  BY <1>2 DEF IInv, StagesInOrder
<1> QED BY <1>1, <1>2, StepKinds, AppPushReady, SaveReady DEF QuietStep, LeaveStep

LEMMA NextKeepsIInv == IInv /\ [Next]_vars => IInv'
BY KeepsTypeOK, KeepsPointsOfCode, KeepsLocksMatch, KeepsQueuesOrdered, KeepsHandsOrdered,
   KeepsPoppersReady, KeepsOutsideUntouched, KeepsStagesInOrder DEF IInv

LEMMA Invariance == Spec => []IInv
BY InitEstablishesIInv, NextKeepsIInv, PTL DEF Spec
-----------------------------------------------------------------------------
\* The variables always have their types, and no node pops more than was
\* pushed (pipeline.cc:15-35, pipeline.h:54-64).
THEOREM TypeCorrect == Spec => []TypeOK
<1>1. IInv => TypeOK
  BY DEF IInv
<1> QED BY Invariance, <1>1, PTL

\* A thread that waits for a buffer lock holds none: the buffer locks cannot
\* deadlock, whatever the length of the chain (pipeline.cc:22-31,
\* pipeline.h:54-64).
THEOREM NoDeadlockOverLocks == Spec => []NoHoldAndWait
<1>1. IInv => NoHoldAndWait
  BY Actors, Chain DEF IInv, PointsOfCode, LocksMatch, HeldNode, NoHoldAndWait
<1> QED BY Invariance, <1>1, PTL

\* The task a worker pops is the one it processed (pipeline.cc:23-29).
THEOREM PopsProcessed == Spec => []PopsWhatItProcessed
<1>1. ASSUME IInv, NEW w \in WorkThreads, pc[w] = "pop"
      PROVE  LET k == Front(NodeOf(w))
             IN /\ ~Empty(NodeOf(w)) /\ ran[k] # <<>>
                /\ NodeOf(w) = ran[k][Len(ran[k])] /\ tmp_buffer[w] \in {Zero, k}
  <2> DEFINE k == Front(NodeOf(w))
  <2>1. k \in Tasks /\ Len(ran[k]) = NodeOf(w) /\ NodeOf(w) \in 1..Len(ran[k])
    BY <1>1, FrontIsTask, Actors, Chain DEF IInv, PoppersReady
  <2>2. Len(<<>>) = 0
    OBVIOUS
  <2>3. ran[k][NodeOf(w)] = NodeOf(w) /\ ran[k] # <<>>
    <3> HIDE DEF k
    <3>1. \A j \in 1..Len(ran[k]) : ran[k][j] = j
      BY <1>1, <2>1 DEF IInv, StagesInOrder
    <3>2. NodeOf(w) # 0
      BY Actors, Chain
    <3> QED BY <2>1, <2>2, <3>1, <3>2
  <2> QED BY <1>1, <2>1, <2>3 DEF IInv, PoppersReady
<1>2. IInv => PopsWhatItProcessed
  BY <1>1 DEF PopsWhatItProcessed
<1> QED BY Invariance, <1>2, PTL

LEMMA StepImplements == IInv /\ [Next]_vars => [Flow!Next]_<<place, ran>>
<1> SUFFICES ASSUME IInv, [Next]_vars PROVE Flow!Next \/ UNCHANGED <<place, ran>>
  OBVIOUS
<1>1. CASE AppPush
  <2>1. tmp_buffer[App] \in Tasks /\ place[tmp_buffer[App]] = "outside" /\ UNCHANGED ran
    BY <1>1, AppPushReady DEF PushReady
  <2>2. Flow!Enter(tmp_buffer[App])
    BY <1>1, <2>1 DEF AppPush, Flow!Enter
  <2> QED BY <2>1, <2>2 DEF Flow!Next
<1>2. ASSUME NEW w \in WorkThreads, LeaveStep(w) PROVE Flow!Next
  <2>1. /\ tmp_buffer[w] \in Tasks /\ place[tmp_buffer[w]] = "inside"
        /\ Len(ran[tmp_buffer[w]]) = NumNodes
    BY <1>2, Actors DEF LeaveStep, InHand, IInv, TypeOK, HandsOrdered
  <2>2. Flow!Leave(tmp_buffer[w])
    BY <1>2, <2>1 DEF LeaveStep, Flow!Leave
  <2> QED BY <2>1, <2>2 DEF Flow!Next
<1>3. ASSUME NEW w \in WorkThreads, Process(w) PROVE Flow!Next
  <2> DEFINE k == Front(NodeOf(w))
  <2>1. /\ k \in Tasks /\ place[k] = "inside" /\ Len(ran[k]) = NodeOf(w) - 1
        /\ NodeOf(w) \in Nat /\ NodeOf(w) <= NumNodes /\ NumNodes \in Nat
    BY <1>3, ProcessTakesFront, Actors, Chain
  <2>2. Len(ran[k]) < NumNodes /\ Len(ran[k]) + 1 = NodeOf(w)
    BY <2>1
  <2>3. /\ ran' = [ran EXCEPT ![k] = Append(@, NodeOf(w))]
        /\ place' \in {place, [place EXCEPT ![k] = "left"]}
    BY <1>3 DEF Process
  <2>4. Flow!Run(k)
    BY <2>1, <2>2, <2>3 DEF Flow!Run
  <2> QED BY <2>1, <2>4 DEF Flow!Next
<1> QED BY <1>1, <1>2, <1>3, StepKinds, SaveReady DEF QuietStep

\* A pipeline implements TaskFlow: each task enters once, goes through the
\* nodes in order, each once, and leaves after the last or where it is
\* swallowed (pipeline.cc:15-35, 67-70).
THEOREM Implementation == Spec => ImplementsTaskFlow
<1>1. Init => Flow!Init
  BY DEF Init, Flow!Init
<1> QED BY <1>1, Invariance, StepImplements, PTL DEF Spec, ImplementsTaskFlow, Flow!Spec
-----------------------------------------------------------------------------
(* Which tasks a node has: those that wait there, those it is done with,   *)
(* and those its workers have in hand.  FlowInv says where they come from, *)
(* IInv where they are not.                                                *)

Waits(n, k) == \E i \in 1..Len(pushed[n]) : i > Done(n) /\ pushed[n][i] = k
DoneWith(n, k) == \E i \in 1..Len(pushed[n]) : i <= Done(n) /\ pushed[n][i] = k
InHandAt(n, k) == \E w \in WorkThreads : NodeOf(w) = n /\ InHand(w) /\ tmp_buffer[w] = k

\* A task that is inside waits at a node or is in a worker's hands.
NoneLost == \A k \in Tasks : place[k] = "inside" =>
  \E n \in Nodes : Waits(n, k) \/ InHandAt(n, k)

\* What a node is done with is queued at the next, has left, or is in hand.
NoneSkipped == \A n \in Nodes : n < NumNodes => \A k \in Tasks : DoneWith(n, k) =>
  QueuedAt(n + 1, k) \/ place[k] = "left" \/ InHandAt(n, k)

\* The hands and the queue of the next node hold what the node is done with.
HandsFromQueue == \A w \in WorkThreads : InHand(w) => DoneWith(NodeOf(w), tmp_buffer[w])
QueueFromQueue == \A n \in Nodes : n < NumNodes => \A k \in Tasks :
  QueuedAt(n + 1, k) => DoneWith(n, k)

\* What the only worker of a node has in hand is what the node did last.
SoleHand == \A w \in WorkThreads : InHand(w) /\ n_worker_[NodeOf(w)] = 1 =>
  Done(NodeOf(w)) >= 1 /\ tmp_buffer[w] = pushed[NodeOf(w)][Done(NodeOf(w))]

\* The event loop has received the tasks in turn, and holds the last of them.
InTurn == /\ \A j, k \in Tasks : place[j] = "outside" /\ j < k => place[k] = "outside"
          /\ pc[App] = "new" => \A j \in Tasks : j < tmp_buffer[App] => place[j] # "outside"

FlowInv == /\ NoneLost /\ NoneSkipped /\ HandsFromQueue /\ QueueFromQueue /\ SoleHand
           /\ InTurn

LEMMA InitEstablishesFlowInv == Init => FlowInv
<1> SUFFICES ASSUME Init PROVE FlowInv
  OBVIOUS
<1> USE Actors, Chain DEF Init, InHand
<1>1. NoneLost /\ InTurn
  BY DEF NoneLost, InTurn
<1>2. HandsFromQueue /\ SoleHand
  BY DEF HandsFromQueue, SoleHand
<1>3. NoneSkipped /\ QueueFromQueue
  BY DEF NoneSkipped, QueueFromQueue, QueuedAt, DoneWith
<1> QED BY <1>1, <1>2, <1>3 DEF FlowInv

LEMMA DoneIsPosition ==
  ASSUME IInv, NEW n \in Nodes
  PROVE  /\ Done(n) \in Nat /\ Len(pushed[n]) \in Nat /\ Done(n) <= Len(pushed[n])
         /\ \A i \in 1..Len(pushed[n]) : pushed[n][i] \in Tasks
<1>1. /\ popped[n] \in Nat /\ Len(pushed[n]) \in Nat /\ popped[n] <= Len(pushed[n])
      /\ \A i \in 1..Len(pushed[n]) : pushed[n][i] \in Tasks
  BY DEF IInv, TypeOK
<1>2. Popping(n) => popped[n] # Len(pushed[n])
  BY DEF IInv, PoppersReady, Popping, Empty
<1> QED BY <1>1, <1>2 DEF Done
-----------------------------------------------------------------------------
(* What each kind of step does to these.                                   *)

\* The four predicates in the next state.
WaitsNext(n, k) == \E i \in 1..Len(pushed'[n]) : i > Done(n)' /\ pushed'[n][i] = k
DoneNext(n, k) == \E i \in 1..Len(pushed'[n]) : i <= Done(n)' /\ pushed'[n][i] = k
HandNext(n, k) == \E w \in WorkThreads : NodeOf(w) = n /\ InHand(w)' /\ tmp_buffer'[w] = k

\* The positions a step does not disturb.
SamePositions == /\ UNCHANGED pushed
                 /\ \A n \in Nodes : Done(n)' = Done(n)

LEMMA PositionsStay ==
  ASSUME SamePositions, NEW n \in Nodes, NEW k \in Tasks
  PROVE  /\ WaitsNext(n, k) <=> Waits(n, k)
         /\ DoneNext(n, k) <=> DoneWith(n, k)
         /\ QueuedNext(n, k) <=> QueuedAt(n, k)
BY DEF SamePositions, WaitsNext, Waits, DoneNext, DoneWith, QueuedNext, QueuedAt

\* A push makes one task wait at one node.
LEMMA PushPositions ==
  ASSUME IInv, NEW n \in Nodes, NEW t \in Threads, PushTask(n, t), PushReady(n, t),
         \A m \in Nodes : Done(m)' = Done(m),
         NEW m \in Nodes, NEW k \in Tasks
  PROVE  /\ WaitsNext(m, k) <=> Waits(m, k) \/ (m = n /\ k = tmp_buffer[t])
         /\ DoneNext(m, k) <=> DoneWith(m, k)
         /\ QueuedNext(m, k) <=> QueuedAt(m, k) \/ (m = n /\ k = tmp_buffer[t])
<1> DEFINE L == Len(pushed[n])
<1>1. /\ \A l \in Nodes \ {n} : pushed'[l] = pushed[l]
      /\ Len(pushed'[n]) = L + 1
      /\ \A i \in 1..L : pushed'[n][i] = pushed[n][i]
      /\ pushed'[n][L + 1] = tmp_buffer[t]
  BY PushAddsOne DEF IInv, PushReady
<1>2. L \in Nat /\ Done(n) \in Nat /\ Done(n) <= L
  BY DoneIsPosition
<1>3. CASE m # n
  BY <1>1, <1>3 DEF WaitsNext, Waits, DoneNext, DoneWith, QueuedNext, QueuedAt
<1>4. CASE m = n
  <2> HIDE DEF L
  <2>0. /\ 1..(L + 1) = (1..L) \cup {L + 1} /\ L + 1 > Done(n)
        /\ ~(L + 1 <= Done(n)) /\ Done(n)' = Done(n)
    BY <1>2
  <2>1. WaitsNext(n, k) <=> Waits(n, k) \/ k = tmp_buffer[t]
    <3>1. WaitsNext(n, k) <=> \E i \in 1..(L + 1) : i > Done(n) /\ pushed'[n][i] = k
      BY <1>1, <2>0 DEF WaitsNext
    <3>2. Waits(n, k) <=> \E i \in 1..L : i > Done(n) /\ pushed[n][i] = k
      BY DEF Waits, L
    <3> QED BY <1>1, <2>0, <3>1, <3>2
  <2>2. DoneNext(n, k) <=> DoneWith(n, k)
    <3>1. DoneNext(n, k) <=> \E i \in 1..(L + 1) : i <= Done(n) /\ pushed'[n][i] = k
      BY <1>1, <2>0 DEF DoneNext
    <3>2. DoneWith(n, k) <=> \E i \in 1..L : i <= Done(n) /\ pushed[n][i] = k
      BY DEF DoneWith, L
    <3> QED BY <1>1, <2>0, <3>1, <3>2
  <2>3. QueuedNext(n, k) <=> QueuedAt(n, k) \/ k = tmp_buffer[t]
    <3>1. QueuedNext(n, k) <=> \E i \in 1..(L + 1) : pushed'[n][i] = k
      BY <1>1 DEF QueuedNext
    <3>2. QueuedAt(n, k) <=> \E i \in 1..L : pushed[n][i] = k
      BY DEF QueuedAt, L
    <3> QED BY <1>1, <2>0, <3>1, <3>2
  <2> QED BY <1>4, <2>1, <2>2, <2>3
<1> QED BY <1>3, <1>4

\* Process is done with the front of its node, which waited there.
LEMMA ProcessPositions ==
  ASSUME IInv, NEW w \in WorkThreads, Process(w), NEW m \in Nodes, NEW k \in Tasks
  PROVE  LET n == NodeOf(w)
             f == Front(n)
         IN /\ Waits(m, k) <=> WaitsNext(m, k) \/ (m = n /\ k = f)
            /\ DoneNext(m, k) <=> DoneWith(m, k) \/ (m = n /\ k = f)
            /\ QueuedNext(m, k) <=> QueuedAt(m, k)
<1> DEFINE n == NodeOf(w)
           f == Front(n)
           d == popped[n] + 1
<1>1. /\ d \in 1..Len(pushed[n]) /\ f = pushed[n][d] /\ Done(n) = popped[n]
  BY ProcessTakesFront
<1>2. Done(n)' = d /\ \A l \in Nodes \ {n} : Done(l)' = Done(l)
  BY ProcessCounts
<1>3. UNCHANGED pushed /\ popped[n] \in Nat /\ Len(pushed[n]) \in Nat
  BY Actors DEF Process, queueVars, IInv, TypeOK
<1>4. QueuedNext(m, k) <=> QueuedAt(m, k)
  BY <1>3 DEF QueuedNext, QueuedAt
<1>5. CASE m # n
  BY <1>2, <1>3, <1>4, <1>5 DEF WaitsNext, Waits, DoneNext, DoneWith
<1>6. CASE m = n
  <2> HIDE DEF n, f
  <2>1. \A i \in 1..Len(pushed[n]) : i > Done(n) <=> i > Done(n)' \/ i = d
    BY <1>1, <1>2, <1>3
  <2>2. \A i \in 1..Len(pushed[n]) : i <= Done(n)' <=> i <= Done(n) \/ i = d
    BY <1>1, <1>2, <1>3
  <2> HIDE DEF d
  <2>3. Waits(n, k) <=> WaitsNext(n, k) \/ k = f
    BY <1>1, <1>3, <2>1 DEF Waits, WaitsNext
  <2>4. DoneNext(n, k) <=> DoneWith(n, k) \/ k = f
    BY <1>1, <1>3, <2>2 DEF DoneNext, DoneWith
  <2> QED BY <1>4, <1>6, <2>3, <2>4 DEF n, f
<1> QED BY <1>5, <1>6

\* In a worker's hands, Process puts the front, unless the task has left.
LEMMA ProcessHands ==
  ASSUME IInv, NEW w \in WorkThreads, Process(w)
  PROVE  /\ ~InHand(w)
         /\ \/ InHand(w)' /\ tmp_buffer'[w] = Front(NodeOf(w))
            \/ ~InHand(w)' /\ place'[Front(NodeOf(w))] = "left"
         /\ \A v \in WorkThreads \ {w} : /\ InHand(v)' <=> InHand(v)
                                         /\ tmp_buffer'[v] = tmp_buffer[v]
<1> USE Actors DEF IInv, TypeOK, InHand
<1>1. pc[w] = "lock" /\ pc'[w] = "pop"
  BY DEF Process, Goto
<1>2. \A v \in WorkThreads \ {w} : pc'[v] = pc[v] /\ tmp_buffer'[v] = tmp_buffer[v]
  BY DEF Process, Goto
<1>3. Front(NodeOf(w)) \in Tasks /\ Zero \notin Tasks
  BY ProcessTakesFront, NoTaskIsZero
<1>4. \/ tmp_buffer'[w] = Front(NodeOf(w))
      \/ tmp_buffer'[w] = Zero /\ place'[Front(NodeOf(w))] = "left"
  BY ProcessRuns
<1> QED BY <1>1, <1>2, <1>3, <1>4

\* What a worker has in hand it keeps, but for what w has.
HandsStayBut(w) == \A v \in WorkThreads \ {w} : /\ InHand(v)' <=> InHand(v)
                                                /\ InHand(v) => tmp_buffer'[v] = tmp_buffer[v]

LEMMA StayInHand ==
  ASSUME NEW w, HandsStayBut(w), NEW n, NEW k, InHandAt(n, k),
         InHand(w) => tmp_buffer[w] # k
  PROVE  HandNext(n, k)
BY DEF HandsStayBut, InHandAt, HandNext

LEMMA QuietSteps ==
  ASSUME QuietStep PROVE SamePositions /\ HandsStayBut(App) /\ UNCHANGED place /\ UNCHANGED ran
BY DEF QuietStep, SamePositions, HandsStayBut

LEMMA AppPushSteps ==
  ASSUME IInv, AppPush
  PROVE  /\ HandsStayBut(App) /\ ~InHand(App)
         /\ tmp_buffer[App] \in Tasks /\ place[tmp_buffer[App]] = "outside"
         /\ place'[tmp_buffer[App]] = "inside"
         /\ \A k \in Tasks \ {tmp_buffer[App]} : place'[k] = place[k]
         /\ \A m \in Nodes : \A k \in Tasks :
              /\ WaitsNext(m, k) <=> Waits(m, k) \/ (m = 1 /\ k = tmp_buffer[App])
              /\ DoneNext(m, k) <=> DoneWith(m, k)
              /\ QueuedNext(m, k) <=> QueuedAt(m, k) \/ (m = 1 /\ k = tmp_buffer[App])
<1>1. HandsStayBut(App) /\ ~InHand(App)
  BY AppPushReady, Actors DEF AppPush, Goto, InHand, IInv, TypeOK, HandsStayBut
<1>2. /\ PushTask(1, App) /\ PushReady(1, App) /\ 1 \in Nodes /\ App \in Threads
      /\ \A n \in Nodes : Done(n)' = Done(n)
  BY AppPushReady, Actors, Chain
<1> QED BY <1>1, <1>2, AppPushReady, PushPositions DEF PushReady

LEMMA LeaveSteps ==
  ASSUME IInv, NEW w \in WorkThreads, LeaveStep(w)
  PROVE  /\ SamePositions /\ HandsStayBut(w) /\ ~InHand(w)' /\ NodeOf(w) = NumNodes
         /\ tmp_buffer[w] \in Tasks /\ place'[tmp_buffer[w]] = "left"
         /\ place[tmp_buffer[w]] = "inside"
         /\ \A k \in Tasks \ {tmp_buffer[w]} : place'[k] = place[k]
<1>1. tmp_buffer[w] \in Tasks /\ place[tmp_buffer[w]] = "inside"
  BY Actors DEF LeaveStep, InHand, IInv, TypeOK, HandsOrdered
<1>2. /\ place'[tmp_buffer[w]] = "left"
      /\ \A k \in Tasks \ {tmp_buffer[w]} : place'[k] = place[k]
  BY <1>1 DEF LeaveStep, IInv, TypeOK
<1> QED BY <1>1, <1>2 DEF LeaveStep, SamePositions, HandsStayBut

LEMMA ProcessSteps ==
  ASSUME IInv, NEW w \in WorkThreads, Process(w)
  PROVE  LET n == NodeOf(w)
             f == Front(n)
         IN /\ n \in Nodes /\ f \in Tasks /\ place[f] = "inside"
            /\ HandsStayBut(w) /\ ~InHand(w)
            /\ \/ InHand(w)' /\ tmp_buffer'[w] = f /\ place'[f] = "inside"
               \/ ~InHand(w)' /\ place'[f] = "left"
            /\ \A k \in Tasks \ {f} : place'[k] = place[k]
            /\ \A m \in Nodes : \A k \in Tasks :
                 /\ Waits(m, k) <=> WaitsNext(m, k) \/ (m = n /\ k = f)
                 /\ DoneNext(m, k) <=> DoneWith(m, k) \/ (m = n /\ k = f)
                 /\ QueuedNext(m, k) <=> QueuedAt(m, k)
<1>1. \/ InHand(w)' /\ tmp_buffer'[w] = Front(NodeOf(w)) /\ place'[Front(NodeOf(w))] = "inside"
      \/ ~InHand(w)' /\ place'[Front(NodeOf(w))] = "left"
  BY ProcessHands, ProcessRuns, ProcessTakesFront, NoTaskIsZero DEF InHand
<1>2. HandsStayBut(w) /\ ~InHand(w)
  BY ProcessHands DEF HandsStayBut
<1>3. /\ NodeOf(w) \in Nodes /\ Front(NodeOf(w)) \in Tasks /\ place[Front(NodeOf(w))] = "inside"
      /\ \A k \in Tasks \ {Front(NodeOf(w))} : place'[k] = place[k]
  BY ProcessTakesFront, ProcessRuns, Actors
<1> QED BY <1>1, <1>2, <1>3, ProcessPositions

LEMMA SaveSteps ==
  ASSUME IInv, NEW w \in WorkThreads, Save(w)
  PROVE  /\ NodeOf(w) \in Nodes /\ NodeOf(w) + 1 \in Nodes
         /\ HandsStayBut(w) /\ InHand(w) /\ ~InHand(w)'
         /\ tmp_buffer[w] \in Tasks /\ UNCHANGED place
         /\ \A m \in Nodes : \A k \in Tasks :
              /\ WaitsNext(m, k) <=> Waits(m, k) \/ (m = NodeOf(w) + 1 /\ k = tmp_buffer[w])
              /\ DoneNext(m, k) <=> DoneWith(m, k)
              /\ QueuedNext(m, k) <=> QueuedAt(m, k) \/ (m = NodeOf(w) + 1 /\ k = tmp_buffer[w])
<1>1. /\ PushTask(NodeOf(w) + 1, w) /\ PushReady(NodeOf(w) + 1, w)
      /\ NodeOf(w) + 1 \in Nodes /\ w \in Threads /\ NodeOf(w) \in Nodes
      /\ \A n \in Nodes : Done(n)' = Done(n)
  BY SaveReady, Actors
<1>2. HandsStayBut(w)
  BY SaveReady DEF HandsStayBut
<1> QED BY <1>1, <1>2, SaveReady, PushPositions DEF PushReady
-----------------------------------------------------------------------------
(* One lemma per conjunct of FlowInv, one case per kind of step; before it *)
(* the conjunct in the next state, spelled out.                            *)

LEMMA NoneLostFrom ==
  ASSUME \A k \in Tasks : place'[k] = "inside" =>
           \E n \in Nodes : WaitsNext(n, k) \/ HandNext(n, k)
  PROVE  NoneLost'
BY DEF NoneLost, Waits, WaitsNext, InHandAt, HandNext

LEMMA KeepsNoneLost == ASSUME IInv, FlowInv, [Next]_vars PROVE NoneLost'
<1> SUFFICES ASSUME NEW k \in Tasks, place'[k] = "inside"
             PROVE  \E n \in Nodes : WaitsNext(n, k) \/ HandNext(n, k)
  BY NoneLostFrom
<1>0. place[k] = "inside" => \E n \in Nodes : Waits(n, k) \/ InHandAt(n, k)
  BY DEF FlowInv, NoneLost
<1>1. CASE QuietStep
  BY <1>0, <1>1, QuietSteps, PositionsStay, StayInHand, Actors DEF InHandAt, HandsStayBut, HandNext
<1>2. CASE AppPush
  <2>1. CASE k = tmp_buffer[App]
    BY <1>2, <2>1, AppPushSteps, Chain
  <2>2. CASE k # tmp_buffer[App]
    <3>1. PICK n \in Nodes : Waits(n, k) \/ InHandAt(n, k)
      BY <1>0, <1>2, <2>2, AppPushSteps
    <3> QED BY <1>2, <3>1, AppPushSteps, StayInHand
  <2> QED BY <2>1, <2>2
<1>3. ASSUME NEW w \in WorkThreads, LeaveStep(w)
      PROVE  \E n \in Nodes : WaitsNext(n, k) \/ HandNext(n, k)
  <2>1. k # tmp_buffer[w] /\ place[k] = "inside"
    BY <1>3, LeaveSteps
  <2>2. PICK n \in Nodes : Waits(n, k) \/ InHandAt(n, k)
    BY <1>0, <2>1
  <2> QED BY <1>3, <2>1, <2>2, LeaveSteps, PositionsStay, StayInHand
<1>4. ASSUME NEW w \in WorkThreads, Process(w)
      PROVE  \E n \in Nodes : WaitsNext(n, k) \/ HandNext(n, k)
  <2>1. CASE k = Front(NodeOf(w))
    <3>1. InHand(w)' /\ tmp_buffer'[w] = k /\ NodeOf(w) \in Nodes
      BY <1>4, <2>1, ProcessSteps
    <3> QED BY <3>1 DEF HandNext
  <2>2. CASE k # Front(NodeOf(w))
    <3>1. PICK n \in Nodes : Waits(n, k) \/ InHandAt(n, k)
      BY <1>0, <1>4, <2>2, ProcessSteps
    <3>2. Waits(n, k) => WaitsNext(n, k)
      BY <1>4, <2>2, ProcessSteps
    <3>3. InHandAt(n, k) => HandNext(n, k)
      BY <1>4, ProcessSteps, StayInHand
    <3> QED BY <3>1, <3>2, <3>3
  <2> QED BY <2>1, <2>2
<1>5. ASSUME NEW w \in WorkThreads, Save(w)
      PROVE  \E n \in Nodes : WaitsNext(n, k) \/ HandNext(n, k)
  <2>1. CASE k = tmp_buffer[w]
    BY <1>5, <2>1, SaveSteps
  <2>2. CASE k # tmp_buffer[w]
    <3>1. PICK n \in Nodes : Waits(n, k) \/ InHandAt(n, k)
      BY <1>0, <1>5, SaveSteps
    <3> QED BY <1>5, <2>2, <3>1, SaveSteps, StayInHand
  <2> QED BY <2>1, <2>2
<1> QED BY <1>1, <1>2, <1>3, <1>4, <1>5, StepKinds DEF IInv

LEMMA NoneSkippedFrom ==
  ASSUME \A n \in Nodes : n < NumNodes => \A k \in Tasks : DoneNext(n, k) =>
           QueuedNext(n + 1, k) \/ place'[k] = "left" \/ HandNext(n, k)
  PROVE  NoneSkipped'
BY DEF NoneSkipped, DoneWith, DoneNext, InHandAt, HandNext, QueuedAt, QueuedNext

LEMMA KeepsNoneSkipped == ASSUME IInv, FlowInv, [Next]_vars PROVE NoneSkipped'
<1> SUFFICES ASSUME NEW n \in Nodes, n < NumNodes, NEW k \in Tasks, DoneNext(n, k)
             PROVE  QueuedNext(n + 1, k) \/ place'[k] = "left" \/ HandNext(n, k)
  BY NoneSkippedFrom
<1>0. /\ n + 1 \in Nodes
      /\ DoneWith(n, k) => QueuedAt(n + 1, k) \/ place[k] = "left" \/ InHandAt(n, k)
  BY Chain DEF FlowInv, NoneSkipped
<1>1. CASE QuietStep
  BY <1>0, <1>1, QuietSteps, PositionsStay, StayInHand, Actors DEF InHandAt, HandsStayBut, HandNext
<1>2. CASE AppPush
  BY <1>0, <1>2, AppPushSteps, StayInHand
<1>3. ASSUME NEW w \in WorkThreads, LeaveStep(w)
      PROVE  QueuedNext(n + 1, k) \/ place'[k] = "left" \/ HandNext(n, k)
  <2>1. CASE k = tmp_buffer[w]
    BY <1>3, <2>1, LeaveSteps
  <2>2. CASE k # tmp_buffer[w]
    BY <1>0, <1>3, <2>2, LeaveSteps, PositionsStay, StayInHand
  <2> QED BY <2>1, <2>2
<1>4. ASSUME NEW w \in WorkThreads, Process(w)
      PROVE  QueuedNext(n + 1, k) \/ place'[k] = "left" \/ HandNext(n, k)
  <2>1. CASE n = NodeOf(w) /\ k = Front(NodeOf(w))
    BY <1>4, <2>1, ProcessSteps DEF HandNext
  <2>2. CASE ~(n = NodeOf(w) /\ k = Front(NodeOf(w)))
    <3>1. DoneWith(n, k) /\ (QueuedNext(n + 1, k) <=> QueuedAt(n + 1, k))
      BY <1>0, <1>4, <2>2, ProcessSteps
    <3>2. place[k] = "left" => place'[k] = "left"
      BY <1>4, ProcessSteps
    <3>3. InHandAt(n, k) => HandNext(n, k)
      BY <1>4, ProcessSteps, StayInHand
    <3> QED BY <1>0, <3>1, <3>2, <3>3
  <2> QED BY <2>1, <2>2
<1>5. ASSUME NEW w \in WorkThreads, Save(w)
      PROVE  QueuedNext(n + 1, k) \/ place'[k] = "left" \/ HandNext(n, k)
  <2>1. CASE InHandAt(n, k) /\ ~HandNext(n, k)
    <3>1. NodeOf(w) = n /\ tmp_buffer[w] = k
      BY <1>5, <2>1, SaveSteps DEF InHandAt, HandNext, HandsStayBut
    <3> QED BY <1>0, <1>5, <3>1, SaveSteps
  <2>2. CASE ~InHandAt(n, k)
    BY <1>0, <1>5, <2>2, SaveSteps
  <2> QED BY <2>1, <2>2
<1> QED BY <1>1, <1>2, <1>3, <1>4, <1>5, StepKinds DEF IInv

LEMMA HandsFromQueueFrom ==
  ASSUME \A v \in WorkThreads : InHand(v)' => DoneNext(NodeOf(v), tmp_buffer'[v])
  PROVE  HandsFromQueue'
BY DEF HandsFromQueue, DoneWith, DoneNext

LEMMA InHandIsTask ==
  ASSUME IInv, NEW v \in WorkThreads, InHand(v)
  PROVE  tmp_buffer[v] \in Tasks /\ NodeOf(v) \in Nodes
BY Actors DEF IInv, TypeOK, InHand

LEMMA KeepsHandsFromQueue == ASSUME IInv, FlowInv, [Next]_vars PROVE HandsFromQueue'
<1> SUFFICES ASSUME NEW v \in WorkThreads, InHand(v)'
             PROVE  DoneNext(NodeOf(v), tmp_buffer'[v])
  BY HandsFromQueueFrom
<1>0. InHand(v) => /\ DoneWith(NodeOf(v), tmp_buffer[v])
                   /\ tmp_buffer[v] \in Tasks /\ NodeOf(v) \in Nodes
  BY InHandIsTask DEF FlowInv, HandsFromQueue
<1>1. CASE QuietStep
  BY <1>0, <1>1, QuietSteps, PositionsStay, Actors DEF HandsStayBut
<1>2. CASE AppPush
  BY <1>0, <1>2, AppPushSteps, Actors DEF HandsStayBut
<1>3. ASSUME NEW w \in WorkThreads, LeaveStep(w) PROVE DoneNext(NodeOf(v), tmp_buffer'[v])
  BY <1>0, <1>3, LeaveSteps, PositionsStay DEF HandsStayBut
<1>4. ASSUME NEW w \in WorkThreads, Process(w) PROVE DoneNext(NodeOf(v), tmp_buffer'[v])
  <2>1. CASE v = w
    BY <1>4, <2>1, ProcessSteps
  <2>2. CASE v # w
    <3>1. InHand(v) /\ tmp_buffer'[v] = tmp_buffer[v]
      BY <1>4, <2>2, ProcessSteps DEF HandsStayBut
    <3> QED BY <1>0, <1>4, <3>1, ProcessSteps
  <2> QED BY <2>1, <2>2
<1>5. ASSUME NEW w \in WorkThreads, Save(w) PROVE DoneNext(NodeOf(v), tmp_buffer'[v])
  BY <1>0, <1>5, SaveSteps DEF HandsStayBut
<1> QED BY <1>1, <1>2, <1>3, <1>4, <1>5, StepKinds DEF IInv

LEMMA QueueFromQueueFrom ==
  ASSUME \A n \in Nodes : n < NumNodes => \A k \in Tasks :
           QueuedNext(n + 1, k) => DoneNext(n, k)
  PROVE  QueueFromQueue'
BY DEF QueueFromQueue, DoneWith, DoneNext, QueuedAt, QueuedNext

LEMMA KeepsQueueFromQueue == ASSUME IInv, FlowInv, [Next]_vars PROVE QueueFromQueue'
<1> SUFFICES ASSUME NEW n \in Nodes, n < NumNodes, NEW k \in Tasks, QueuedNext(n + 1, k)
             PROVE  DoneNext(n, k)
  BY QueueFromQueueFrom
<1>0. n + 1 \in Nodes /\ n + 1 # 1 /\ (QueuedAt(n + 1, k) => DoneWith(n, k))
  BY Chain DEF FlowInv, QueueFromQueue
<1>1. CASE QuietStep
  BY <1>0, <1>1, QuietSteps, PositionsStay
<1>2. CASE AppPush
  BY <1>0, <1>2, AppPushSteps
<1>3. ASSUME NEW w \in WorkThreads, LeaveStep(w) PROVE DoneNext(n, k)
  BY <1>0, <1>3, LeaveSteps, PositionsStay
<1>4. ASSUME NEW w \in WorkThreads, Process(w) PROVE DoneNext(n, k)
  <2>1. QueuedAt(n + 1, k)
    BY <1>0, <1>4, ProcessSteps
  <2> QED BY <1>0, <1>4, <2>1, ProcessSteps
<1>5. ASSUME NEW w \in WorkThreads, Save(w) PROVE DoneNext(n, k)
  <2>1. CASE QueuedAt(n + 1, k)
    BY <1>0, <1>5, <2>1, SaveSteps
  <2>2. CASE n + 1 = NodeOf(w) + 1 /\ k = tmp_buffer[w]
    <3>1. n = NodeOf(w)
      BY <2>2, Actors, Chain
    <3> QED BY <1>5, <2>2, <3>1, SaveSteps DEF FlowInv, HandsFromQueue
  <2> QED BY <1>0, <1>5, <2>1, <2>2, SaveSteps
<1> QED BY <1>1, <1>2, <1>3, <1>4, <1>5, StepKinds DEF IInv

\* The only worker of a node is the only one.
LEMMA OnlyWorker ==
  ASSUME NEW v \in WorkThreads, NEW w \in WorkThreads, NodeOf(v) = NodeOf(w),
         n_worker_[NodeOf(w)] = 1
  PROVE  v = w
<1>1. PICK n \in Nodes : v \in {n} \X (1..n_worker_[n])
  BY DEF WorkThreads
<1>2. PICK m \in Nodes : w \in {m} \X (1..n_worker_[m])
  BY DEF WorkThreads
<1>3. v = <<n, v[2]>> /\ v[2] \in 1..n_worker_[n] /\ w = <<m, w[2]>> /\ w[2] \in 1..n_worker_[m]
  BY <1>1, <1>2
<1>4. n = m /\ n_worker_[n] = 1
  BY <1>3 DEF NodeOf
<1>5. v[2] = 1 /\ w[2] = 1
  BY <1>3, <1>4
<1> QED BY <1>3, <1>4, <1>5

LEMMA KeepsSoleHand == ASSUME IInv, FlowInv, [Next]_vars PROVE SoleHand'
<1> SUFFICES ASSUME NEW v \in WorkThreads, InHand(v)', n_worker_[NodeOf(v)] = 1
             PROVE  /\ Done(NodeOf(v))' >= 1
                    /\ tmp_buffer'[v] = pushed'[NodeOf(v)][Done(NodeOf(v))']
  BY DEF SoleHand
<1> DEFINE n == NodeOf(v)
           d == Done(n)
           Held == InHand(v) /\ tmp_buffer'[v] = tmp_buffer[v]
           Kept == d' = d /\ pushed'[n][d] = pushed[n][d]
<1>0. n \in Nodes /\ d \in Nat /\ d <= Len(pushed[n]) /\ Len(pushed[n]) \in Nat
  BY DoneIsPosition, Actors
<1>1. SUFFICES ASSUME ~(Held /\ (d >= 1 => Kept)) PROVE d' >= 1 /\ tmp_buffer'[v] = pushed'[n][d']
  BY DEF FlowInv, SoleHand
<1>2. CASE QuietStep
  BY <1>0, <1>1, <1>2, QuietSteps, Actors DEF HandsStayBut, SamePositions
<1>3. CASE AppPush
  <2>1. Held
    BY <1>3, AppPushSteps, Actors DEF HandsStayBut
  <2>2. PushTask(1, App) /\ tmp_buffer[App] \in Tasks /\ 1 \in Nodes /\ App \in Threads /\ d' = d
    BY <1>0, <1>3, AppPushReady, Actors, Chain DEF PushReady
  <2>3. d >= 1 => pushed'[n][d] = pushed[n][d]
    BY <1>0, <2>2, PushAddsOne DEF IInv
  <2> QED BY <1>1, <2>1, <2>2, <2>3
<1>4. ASSUME NEW w \in WorkThreads, LeaveStep(w) PROVE FALSE
  BY <1>0, <1>1, <1>4, LeaveSteps DEF HandsStayBut, SamePositions
<1>5. ASSUME NEW w \in WorkThreads, Process(w)
      PROVE  d' >= 1 /\ tmp_buffer'[v] = pushed'[n][d']
  <2>1. CASE v = w
    <3>1. /\ Front(n) = pushed[n][popped[n] + 1] /\ d' = popped[n] + 1
          /\ popped[n] + 1 \in 1..Len(pushed[n]) /\ tmp_buffer'[v] = Front(n)
          /\ UNCHANGED pushed
      BY <1>5, <2>1, ProcessTakesFront, ProcessCounts, ProcessSteps DEF Process, queueVars
    <3> HIDE DEF n, d
    <3> QED BY <3>1
  <2>2. CASE v # w
    <3>1. NodeOf(w) # n
      BY <2>2, OnlyWorker
    <3>2. Held /\ Kept
      BY <1>0, <1>5, <2>2, <3>1, ProcessSteps, ProcessCounts DEF HandsStayBut, Process, queueVars
    <3> QED BY <1>1, <3>2
  <2> QED BY <2>1, <2>2
<1>6. ASSUME NEW w \in WorkThreads, Save(w) PROVE FALSE
  <2>1. Held
    BY <1>6, SaveSteps DEF HandsStayBut
  <2>2. /\ PushTask(NodeOf(w) + 1, w) /\ tmp_buffer[w] \in Tasks /\ NodeOf(w) + 1 \in Nodes
        /\ w \in Threads /\ d' = d
    BY <1>0, <1>6, SaveReady, Actors DEF PushReady
  <2>3. d >= 1 => pushed'[n][d] = pushed[n][d]
    BY <1>0, <2>2, PushAddsOne DEF IInv
  <2> QED BY <1>1, <2>1, <2>2, <2>3
<1> QED BY <1>2, <1>3, <1>4, <1>5, <1>6, StepKinds DEF IInv

\* Only the event loop brings a task inside, and only its first step takes one.
LEMMA OutsideStays ==
  ASSUME IInv, [Next]_vars, ~AppPush
  PROVE  \A k \in Tasks : place'[k] = "outside" <=> place[k] = "outside"
<1>1. ASSUME NEW w \in WorkThreads, LeaveStep(w)
      PROVE  \A k \in Tasks : place'[k] = "outside" <=> place[k] = "outside"
  BY <1>1, LeaveSteps
<1>2. ASSUME NEW w \in WorkThreads, Process(w)
      PROVE  \A k \in Tasks : place'[k] = "outside" <=> place[k] = "outside"
  BY <1>2, ProcessSteps
<1> QED BY <1>1, <1>2, StepKinds, SaveSteps DEF QuietStep

LEMMA KeepsInTurn == ASSUME IInv, FlowInv, [Next]_vars PROVE InTurn'
<1> USE DEF FlowInv, InTurn
<1>1. CASE AppPush
  <2>1. pc'[App] # "new" /\ pc[App] = "new"
    BY <1>1, Actors DEF AppPush, Goto, IInv, TypeOK
  <2>2. ASSUME NEW j \in Tasks, NEW k \in Tasks, place'[j] = "outside", j < k
        PROVE  place'[k] = "outside"
    <3>1. j # tmp_buffer[App] /\ place[j] = "outside" /\ tmp_buffer[App] \in Tasks
      BY <1>1, <2>2, AppPushSteps
    <3>2. place[k] = "outside" /\ k # tmp_buffer[App]
      BY <2>1, <2>2, <3>1
    <3> QED BY <1>1, <3>2, AppPushSteps
  <2> QED BY <2>1, <2>2
<1>2. CASE ~AppPush
  <2>1. \A k \in Tasks : place'[k] = "outside" <=> place[k] = "outside"
    BY <1>2, OutsideStays
  <2>2. ASSUME pc'[App] = "new", NEW j \in Tasks, j < tmp_buffer'[App]
        PROVE  place[j] # "outside"
    <3>1. CASE Receive
      <4>1. PICK k \in Tasks : /\ \A i \in 1..k - 1 : place[i] # "outside"
                               /\ tmp_buffer' = [tmp_buffer EXCEPT ![App] = k]
        BY <3>1 DEF Receive
      <4>2. tmp_buffer'[App] = k
        BY <4>1, Actors DEF IInv, TypeOK
      <4>3. j \in 1..k - 1
        BY <2>2, <4>2, PipeAssumption DEF Tasks
      <4> QED BY <4>1, <4>3
    <3>2. CASE ~Receive
      <4>1. pc[App] = "new" /\ tmp_buffer'[App] = tmp_buffer[App]
        <5>1. CASE AppUnlock
          BY <2>2, <5>1, Actors DEF AppUnlock, Goto, IInv, TypeOK
        <5>2. CASE UNCHANGED vars
          BY <2>2, <5>2 DEF vars
        <5> QED BY <1>2, <2>2, <3>2, <5>1, <5>2, AppUndisturbed DEF Next, AppStep
      <4> QED BY <2>2, <4>1
    <3> QED BY <3>1, <3>2
  <2> QED BY <2>1, <2>2
<1> QED BY <1>1, <1>2

LEMMA FlowInvariance == Spec => [](IInv /\ FlowInv)
<1>1. IInv /\ FlowInv /\ [Next]_vars => (IInv /\ FlowInv)'
  BY NextKeepsIInv, KeepsNoneLost, KeepsNoneSkipped, KeepsHandsFromQueue,
     KeepsQueueFromQueue, KeepsSoleHand, KeepsInTurn DEF FlowInv
<1> QED BY InitEstablishesIInv, InitEstablishesFlowInv, <1>1, PTL DEF Spec
-----------------------------------------------------------------------------
(* OneHolder.                                                              *)

LEMMA WaitsInIsPastDone ==
  ASSUME IInv, NEW n \in Nodes, NEW i \in 1..Len(pushed[n])
  PROVE  WaitsIn(n, i) <=> i > Done(n)
BY DEF WaitsIn, Done, Popping, IInv, TypeOK

\* A queue is never longer than there are tasks: none comes twice.
LEMMA QueueIsShort ==
  ASSUME IInv, NEW n \in Nodes PROVE Len(pushed[n]) <= NumTasks
<1> DEFINE L == Len(pushed[n])
<1>1. L \in Nat /\ NumTasks \in Nat
  BY DoneIsPosition, PipeAssumption
<1> DEFINE f == [i \in 1..L |-> pushed[n][i]]
<1>2. f \in [1..L -> 1..NumTasks]
  BY DoneIsPosition DEF Tasks
<1>3. \A i, j \in 1..L : f[i] = f[j] => i = j
  BY DEF IInv, QueuesOrdered
<1>4. /\ IsFiniteSet(1..L) /\ Cardinality(1..L) = L
      /\ IsFiniteSet(1..NumTasks) /\ Cardinality(1..NumTasks) = NumTasks
  <2> HIDE DEF L
  <2>1. \A m \in Nat : IsFiniteSet(1..m) /\ Cardinality(1..m) = m
    BY FS_Interval
  <2> QED BY <1>1, <2>1
<1> HIDE DEF L, f
<1>5. ASSUME NumTasks < L PROVE FALSE
  <2> DEFINE S == 1..L
             T == 1..NumTasks
  <2>1. IsFiniteSet(S) /\ IsFiniteSet(T) /\ Cardinality(T) < Cardinality(S) /\ f \in [S -> T]
    BY <1>1, <1>2, <1>4, <1>5
  <2> HIDE DEF S, T
  <2>2. \E x, y \in S : x # y /\ f[x] = f[y]
    BY <2>1, FS_PigeonHole
  <2> QED BY <1>3, <2>2 DEF S
<1> QED BY <1>1, <1>5 DEF L

LEMMA WaitingAtIs ==
  ASSUME IInv, NEW k \in Tasks, NEW p
  PROVE  p \in WaitingAt(k) <=>
           \E n \in Nodes : \E i \in 1..Len(pushed[n]) :
             p = <<n, i>> /\ i > Done(n) /\ pushed[n][i] = k
<1>1. ASSUME p \in WaitingAt(k)
      PROVE  \E n \in Nodes : \E i \in 1..Len(pushed[n]) :
               p = <<n, i>> /\ i > Done(n) /\ pushed[n][i] = k
  <2>1. /\ p = <<p[1], p[2]>> /\ p[1] \in Nodes /\ p[2] \in 1..NumTasks
        /\ WaitsIn(p[1], p[2]) /\ pushed[p[1]][p[2]] = k
    BY <1>1 DEF WaitingAt
  <2>2. p[2] \in 1..Len(pushed[p[1]])
    BY <2>1, DoneIsPosition, PipeAssumption DEF WaitsIn
  <2>3. p[2] > Done(p[1])
    BY <2>1, <2>2, WaitsInIsPastDone
  <2> QED BY <2>1, <2>2, <2>3
<1>2. ASSUME NEW n \in Nodes, NEW i \in 1..Len(pushed[n]),
             p = <<n, i>>, i > Done(n), pushed[n][i] = k
      PROVE  p \in WaitingAt(k)
  <2>1. WaitsIn(n, i) /\ i \in 1..NumTasks
    BY <1>2, WaitsInIsPastDone, QueueIsShort, DoneIsPosition, PipeAssumption
  <2> QED BY <1>2, <2>1 DEF WaitingAt
<1> QED BY <1>1, <1>2

LEMMA InHandOfIs ==
  ASSUME NEW k \in Tasks
  PROVE  InHandOf(k) = {w \in WorkThreads : InHand(w) /\ tmp_buffer[w] = k}
BY NoTaskIsZero DEF InHandOf, InHand

LEMMA HolderIsInside ==
  ASSUME IInv, NEW k \in Tasks, WaitingAt(k) # {} \/ InHandOf(k) # {}
  PROVE  place[k] = "inside"
<1>1. CASE WaitingAt(k) # {}
  BY <1>1, WaitingAtIs DEF IInv, QueuesOrdered
<1>2. CASE InHandOf(k) # {}
  BY <1>2, InHandOfIs DEF IInv, HandsOrdered
<1> QED BY <1>1, <1>2

LEMMA OnePlace ==
  ASSUME IInv, NEW k \in Tasks
  PROVE  /\ \A p, q \in WaitingAt(k) : p = q
         /\ \A v, w \in InHandOf(k) : v = w
         /\ WaitingAt(k) = {} \/ InHandOf(k) = {}
<1>1. ASSUME NEW p \in WaitingAt(k), NEW q \in WaitingAt(k) PROVE p = q
  <2>1. PICK n \in Nodes : \E i \in 1..Len(pushed[n]) :
               p = <<n, i>> /\ i > Done(n) /\ pushed[n][i] = k
    BY WaitingAtIs
  <2>2. PICK i \in 1..Len(pushed[n]) : p = <<n, i>> /\ i > Done(n) /\ pushed[n][i] = k
    BY <2>1
  <2>3. PICK m \in Nodes : \E j \in 1..Len(pushed[m]) :
               q = <<m, j>> /\ j > Done(m) /\ pushed[m][j] = k
    BY WaitingAtIs
  <2>4. PICK j \in 1..Len(pushed[m]) : q = <<m, j>> /\ j > Done(m) /\ pushed[m][j] = k
    BY <2>3
  <2>5. Len(ran[k]) = n - 1 /\ Len(ran[k]) = m - 1
    BY <2>2, <2>4 DEF IInv, QueuesOrdered
  <2>6. n = m
    <3>1. n \in Nat /\ m \in Nat
      BY Chain
    <3> QED BY <2>5, <3>1
  <2>7. i = j
    BY <2>2, <2>4, <2>6 DEF IInv, QueuesOrdered
  <2> QED BY <2>2, <2>4, <2>6, <2>7
<1>2. \A v, w \in InHandOf(k) : v = w
  BY InHandOfIs DEF IInv, HandsOrdered
<1>3. ASSUME NEW p \in WaitingAt(k), NEW w \in InHandOf(k) PROVE FALSE
  <2>1. PICK n \in Nodes : \E i \in 1..Len(pushed[n]) : i > Done(n) /\ pushed[n][i] = k
    BY WaitingAtIs
  <2>2. Len(ran[k]) = n - 1 /\ QueuedAt(n, k)
    BY <2>1 DEF IInv, QueuesOrdered, QueuedAt
  <2>3. /\ w \in WorkThreads /\ InHand(w) /\ Len(ran[k]) = NodeOf(w)
        /\ NodeOf(w) < NumNodes => ~QueuedAt(NodeOf(w) + 1, k)
    BY InHandOfIs DEF IInv, HandsOrdered
  <2>4. NodeOf(w) + 1 = n /\ NodeOf(w) < NumNodes
    <3>1. n \in Nat /\ n <= NumNodes /\ NodeOf(w) \in Nat /\ NumNodes \in Nat
      BY <2>3, Actors, Chain
    <3> QED BY <2>2, <2>3, <3>1
  <2> QED BY <2>2, <2>3, <2>4
<1> QED BY <1>1, <1>2, <1>3

LEMMA SomePlace ==
  ASSUME IInv, FlowInv, NEW k \in Tasks, place[k] = "inside"
  PROVE  WaitingAt(k) # {} \/ InHandOf(k) # {}
<1>1. PICK n \in Nodes : Waits(n, k) \/ InHandAt(n, k)
  BY DEF FlowInv, NoneLost
<1>2. CASE Waits(n, k)
  <2>1. PICK i \in 1..Len(pushed[n]) : i > Done(n) /\ pushed[n][i] = k
    BY <1>2 DEF Waits
  <2>2. <<n, i>> \in WaitingAt(k)
    BY <2>1, WaitingAtIs
  <2> QED BY <2>2
<1>3. CASE InHandAt(n, k)
  BY <1>3, InHandOfIs DEF InHandAt
<1> QED BY <1>1, <1>2, <1>3

LEMMA SingleOrNone ==
  ASSUME NEW S, \A x, y \in S : x = y
  PROVE  Cardinality(S) = IF S = {} THEN 0 ELSE 1
<1>1. CASE S = {}
  BY <1>1, FS_EmptySet
<1>2. CASE S # {}
  <2>1. PICK x \in S : TRUE
    BY <1>2
  <2>2. S = {x}
    BY <2>1
  <2> QED BY <1>2, <2>2, FS_Singleton
<1> QED BY <1>1, <1>2

\* A task that is inside is in exactly one place, one that is not is nowhere:
\* none is lost on its way from a worker's tmp_buffer to the next node's
\* deque, none is there twice (pipeline.cc:19-33, pipeline.h:54-64).
THEOREM TasksConserved == Spec => []OneHolder
<1>1. ASSUME IInv, FlowInv, NEW k \in Tasks
      PROVE  Cardinality(WaitingAt(k)) + Cardinality(InHandOf(k))
               = IF place[k] = "inside" THEN 1 ELSE 0
  <2>1. /\ Cardinality(WaitingAt(k)) = IF WaitingAt(k) = {} THEN 0 ELSE 1
        /\ Cardinality(InHandOf(k)) = IF InHandOf(k) = {} THEN 0 ELSE 1
        /\ WaitingAt(k) = {} \/ InHandOf(k) = {}
    BY <1>1, OnePlace, SingleOrNone
  <2>2. place[k] = "inside" <=> WaitingAt(k) # {} \/ InHandOf(k) # {}
    BY <1>1, HolderIsInside, SomePlace
  <2> QED BY <2>1, <2>2
<1>2. IInv /\ FlowInv => OneHolder
  BY <1>1 DEF OneHolder
<1> QED BY FlowInvariance, <1>2, PTL

\* Between two nodes a task is overtaken only while a worker has it in hand:
\* the node is done with all that came before a task that is queued further on
\* (pipeline.cc:22-33).
THEOREM OvertakingBounded == Spec => []OvertakenOnlyInHand
<1>1. ASSUME IInv, FlowInv, NEW n \in 1..NumNodes - 1, NEW j \in 1..Len(pushed[n]),
             NEW i \in 1..j - 1, QueuedAt(n + 1, pushed[n][j])
      PROVE  \/ QueuedAt(n + 1, pushed[n][i]) \/ place[pushed[n][i]] = "left"
             \/ \E w \in InHandOf(pushed[n][i]) : NodeOf(w) = n
  <2>1. /\ n \in Nodes /\ n + 1 \in Nodes /\ n \in Nat /\ n < NumNodes
        /\ Done(n) \in Nat /\ Len(pushed[n]) \in Nat
        /\ i \in 1..Len(pushed[n]) /\ pushed[n][i] \in Tasks /\ pushed[n][j] \in Tasks
    <3>1. n \in Nodes /\ n \in Nat /\ n < NumNodes
      BY PipeAssumption DEF Nodes
    <3>2. n + 1 \in Nodes
      BY <3>1, Chain
    <3>3. Done(n) \in Nat /\ Len(pushed[n]) \in Nat
      BY <1>1, <3>1, DoneIsPosition
    <3>4. i \in 1..Len(pushed[n])
      BY <3>3
    <3> QED BY <1>1, <3>1, <3>2, <3>3, <3>4, DoneIsPosition
  <2>2. ~(j > Done(n))
    <3> SUFFICES ASSUME j > Done(n) PROVE FALSE
      OBVIOUS
    <3>1. Len(ran[pushed[n][j]]) = n - 1
      BY <1>1, <2>1 DEF IInv, QueuesOrdered
    <3>2. Len(ran[pushed[n][j]]) >= (n + 1) - 1
      BY <1>1, <2>1 DEF IInv, QueuesOrdered, QueuedAt
    <3> QED BY <2>1, <3>1, <3>2
  <2>3. i <= Done(n)
    BY <2>1, <2>2
  <2>4. DoneWith(n, pushed[n][i])
    BY <2>1, <2>3 DEF DoneWith
  <2>5. QueuedAt(n + 1, pushed[n][i]) \/ place[pushed[n][i]] = "left" \/ InHandAt(n, pushed[n][i])
    BY <1>1, <2>1, <2>4 DEF FlowInv, NoneSkipped
  <2> QED BY <2>1, <2>5, InHandOfIs DEF InHandAt
<1>2. IInv /\ FlowInv => OvertakenOnlyInHand
  BY <1>1 DEF OvertakenOnlyInHand
<1> QED BY FlowInvariance, <1>2, PTL
-----------------------------------------------------------------------------
(* KeepsOrder.                                                             *)

Increasing(n) == \A j \in 1..Len(pushed[n]) : \A i \in 1..j - 1 : pushed[n][i] < pushed[n][j]
OneWorkerBefore(n) == \A m \in 1..n - 1 : n_worker_[m] = 1

\* A queue stays in order when what is pushed is above all that is there.
LEMMA PushInOrder ==
  ASSUME IInv, NEW n \in Nodes, NEW t \in Threads, PushTask(n, t), PushReady(n, t),
         Increasing(n), \A i \in 1..Len(pushed[n]) : pushed[n][i] < tmp_buffer[t]
  PROVE  Increasing(n)'
<1> DEFINE L == Len(pushed[n])
<1>1. /\ Len(pushed'[n]) = L + 1
      /\ \A i \in 1..L : pushed'[n][i] = pushed[n][i]
      /\ pushed'[n][L + 1] = tmp_buffer[t]
  BY PushAddsOne DEF IInv, PushReady
<1>2. L \in Nat
  BY DoneIsPosition
<1> SUFFICES ASSUME NEW j \in 1..L + 1, NEW i \in 1..j - 1 PROVE pushed'[n][i] < pushed'[n][j]
  BY <1>1 DEF Increasing
<1>3. i \in 1..L /\ pushed'[n][i] = pushed[n][i]
  <2> HIDE DEF L
  <2>1. i \in 1..L
    BY <1>2
  <2> QED BY <1>1, <2>1
<1>4. CASE j = L + 1
  BY <1>1, <1>3, <1>4
<1>5. CASE j # L + 1
  <2> HIDE DEF L
  <2>1. j \in 1..L
    BY <1>2, <1>5
  <2>2. pushed'[n][j] = pushed[n][j]
    BY <1>1, <2>1
  <2>3. pushed[n][i] < pushed[n][j]
    BY <2>1 DEF Increasing, L
  <2> QED BY <1>3, <2>2, <2>3
<1> QED BY <1>4, <1>5

\* What the event loop pushes is above all it has pushed before.
LEMMA AppPushInOrder ==
  ASSUME IInv, FlowInv, AppPush, NEW i \in 1..Len(pushed[1])
  PROVE  pushed[1][i] < tmp_buffer[App]
<1> DEFINE k == pushed[1][i]
           t == tmp_buffer[App]
<1>1. k \in Tasks /\ t \in Tasks /\ place[t] = "outside" /\ QueuedAt(1, k)
  BY AppPushSteps, DoneIsPosition, Chain DEF QueuedAt
<1>2. place[k] # "outside"
  BY <1>1, Chain DEF IInv, OutsideUntouched
<1>3. k # t /\ ~(t < k)
  BY <1>1, <1>2 DEF FlowInv, InTurn
<1> HIDE DEF k, t
<1>4. k \in Nat /\ t \in Nat
  BY <1>1, PipeAssumption DEF Tasks
<1> QED BY <1>3, <1>4 DEF k, t

\* What the only worker of a node saves is above all it has saved before: it
\* is what the node did last, and those are tasks the node did earlier.
LEMMA SaveInOrder ==
  ASSUME IInv, FlowInv, NEW w \in WorkThreads, Save(w), n_worker_[NodeOf(w)] = 1,
         Increasing(NodeOf(w)), NEW i \in 1..Len(pushed[NodeOf(w) + 1])
  PROVE  pushed[NodeOf(w) + 1][i] < tmp_buffer[w]
<1> DEFINE n == NodeOf(w)
           k == pushed[n + 1][i]
           t == tmp_buffer[w]
           d == Done(n)
<1>1. /\ n \in Nodes /\ n + 1 \in Nodes /\ n < NumNodes
      /\ InHand(w) /\ t \in Tasks /\ ~QueuedAt(n + 1, t)
  <2>1. n \in Nodes /\ n + 1 \in Nodes /\ InHand(w) /\ t \in Tasks /\ ~QueuedAt(n + 1, t)
    BY SaveReady, SaveSteps DEF PushReady
  <2>2. n < NumNodes
    <3> HIDE DEF n
    <3> QED BY <2>1, PipeAssumption DEF Nodes
  <2> QED BY <2>1, <2>2
<1>2. t = pushed[n][d] /\ d >= 1 /\ d \in Nat /\ Len(pushed[n]) \in Nat /\ d <= Len(pushed[n])
  BY <1>1, DoneIsPosition DEF FlowInv, SoleHand
<1>3. k \in Tasks /\ QueuedAt(n + 1, k) /\ k # t
  BY <1>1, DoneIsPosition DEF QueuedAt
<1>4. DoneWith(n, k)
  BY <1>1, <1>3 DEF FlowInv, QueueFromQueue
<1>5. PICK h \in 1..Len(pushed[n]) : h <= d /\ pushed[n][h] = k
  BY <1>4 DEF DoneWith
<1>6. Increasing(n)
  OBVIOUS
<1> HIDE DEF n, k, t, d
<1>7. h # d /\ d \in 1..Len(pushed[n]) /\ h \in 1..d - 1
  BY <1>2, <1>3, <1>5
<1>8. pushed[n][h] < pushed[n][d]
  BY <1>6, <1>7 DEF Increasing
<1> QED BY <1>2, <1>5, <1>8 DEF n, k, t

Ordered == \A n \in Nodes : OneWorkerBefore(n) => Increasing(n)

LEMMA KeepsOrdered == ASSUME IInv, FlowInv, Ordered, [Next]_vars PROVE Ordered'
<1> SUFFICES ASSUME NEW n \in Nodes, OneWorkerBefore(n) PROVE Increasing(n)'
  BY DEF Ordered, OneWorkerBefore
<1>0. Increasing(n)
  BY DEF Ordered
<1>1. CASE pushed'[n] = pushed[n]
  BY <1>0, <1>1 DEF Increasing
<1>2. CASE AppPush
  <2>1. CASE n = 1
    BY <1>0, <1>2, <2>1, AppPushReady, AppPushInOrder, PushInOrder, Actors
  <2>2. CASE n # 1
    <3>1. 1 \in Nodes /\ App \in Threads /\ PushTask(1, App) /\ tmp_buffer[App] \in Tasks
      BY <1>2, AppPushReady, Actors, Chain DEF PushReady
    <3> QED BY <1>1, <2>2, <3>1, PushAddsOne DEF IInv
  <2> QED BY <2>1, <2>2
<1>3. ASSUME NEW w \in WorkThreads, Save(w) PROVE Increasing(n)'
  <2>1. /\ NodeOf(w) \in Nodes /\ NodeOf(w) + 1 \in Nodes /\ w \in Threads
        /\ PushTask(NodeOf(w) + 1, w) /\ PushReady(NodeOf(w) + 1, w)
        /\ tmp_buffer[w] \in Tasks
    BY <1>3, SaveReady, Actors DEF PushReady
  <2>2. CASE n = NodeOf(w) + 1
    <3>1. NodeOf(w) \in Nat /\ NodeOf(w) >= 1
      BY <2>1, Chain
    <3>2. NodeOf(w) \in 1..n - 1 /\ \A m \in 1..NodeOf(w) - 1 : m \in 1..n - 1
      BY <2>2, <3>1
    <3>3. n_worker_[NodeOf(w)] = 1 /\ OneWorkerBefore(NodeOf(w))
      BY <3>2 DEF OneWorkerBefore
    <3>4. Increasing(NodeOf(w))
      BY <2>1, <3>3 DEF Ordered
    <3>5. \A i \in 1..Len(pushed[n]) : pushed[n][i] < tmp_buffer[w]
      BY <1>3, <2>2, <3>3, <3>4, SaveInOrder
    <3> QED BY <1>0, <2>1, <2>2, <3>5, PushInOrder
  <2>3. CASE n # NodeOf(w) + 1
    BY <1>1, <2>1, <2>3, PushAddsOne DEF IInv
  <2> QED BY <2>2, <2>3
<1>4. CASE UNCHANGED pushed
  BY <1>1, <1>4
<1> QED BY <1>2, <1>3, <1>4, StepKinds DEF QuietStep, LeaveStep, Process, queueVars

\* As long as the nodes before it have one worker each, a node is given the
\* tasks in the order of the requests (pipeline.cc:22-33, soarapp.h:83-91).
THEOREM OrderKept == Spec => []KeepsOrder
<1>1. Init => Ordered
  BY DEF Init, Ordered, Increasing
<1>2. IInv /\ FlowInv /\ Ordered /\ [Next]_vars => Ordered'
  BY KeepsOrdered
<1>3. Ordered => KeepsOrder
  BY DEF Ordered, KeepsOrder, OneWorkerBefore, Increasing
<1> QED BY FlowInvariance, <1>1, <1>2, <1>3, PTL DEF Spec
=============================================================================
