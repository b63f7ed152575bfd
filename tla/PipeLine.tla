------------------------------ MODULE PipeLine ------------------------------
(***************************************************************************)
(* A running pipeline (components/scheduling/pipeline.h, pipeline.cc): a   *)
(* chain of PipeNodes, each with a deque input_buffer_ under buffer_lock_  *)
(* and n_worker_ threads in work_thread_callback_, fed by the event loop   *)
(* of SoarApp (soarapp.h:83-91), which calls NewTask on the first node.    *)
(*                                                                         *)
(* A worker first asks input_buffer_.empty() without the lock.  That reads *)
(* the deque's two end positions one after the other while other threads   *)
(* move them, so it is two steps; the queue of a node is kept as the tasks *)
(* ever pushed and the number popped, the two positions empty() compares.  *)
(* The process function runs under the lock, before the pop.               *)
(***************************************************************************)
EXTENDS Naturals, Sequences, FiniteSets

CONSTANTS NumNodes,    \* nodes in the pipeline
          n_worker_,   \* how many workers each node has
          NumTasks,    \* bound on the tasks the event loop passes in
          MayHang      \* nodes with a process function that may not return

ASSUME PipeAssumption == /\ NumNodes \in Nat \ {0} /\ NumTasks \in Nat
                         /\ n_worker_ \in [1..NumNodes -> Nat \ {0}]
                         /\ MayHang \subseteq 1..NumNodes

Nodes == 1..NumNodes
Tasks == 1..NumTasks
WorkThreads == UNION {{n} \X (1..n_worker_[n]) : n \in Nodes}
App == <<0, "app">>
Threads == WorkThreads \cup {App}
Zero == 0      \* a SoarDataBlock of length 0 or without data

VARIABLES pushed,         \* per node, the tasks ever pushed: its end is _M_finish
          popped,         \* per node, how many were popped: _M_start
          buffer_lock_,
          pc,
          finish,         \* the end position a worker read in empty(), then 0
          tmp_buffer,     \* the block a thread has in hand
          place, ran      \* history: what TaskFlow observes

queueVars == <<pushed, popped>>
history == <<place, ran>>
vars == <<pushed, popped, buffer_lock_, pc, finish, tmp_buffer, place, ran>>

NodeOf(w) == w[1]

Init == /\ pushed = [n \in Nodes |-> <<>>]
        /\ popped = [n \in Nodes |-> 0]
        /\ buffer_lock_ = [n \in Nodes |-> {}]
        /\ pc = [t \in Threads |-> IF t = App THEN "wait" ELSE "look"]
        /\ finish = [w \in WorkThreads |-> 0]
        /\ tmp_buffer = [t \in Threads |-> Zero]
        /\ place = [k \in Tasks |-> "outside"]
        /\ ran = [k \in Tasks |-> <<>>]

Goto(t, from, to) == /\ pc[t] = from
                     /\ pc' = [pc EXCEPT ![t] = to]

\* Mutants: a lock that does not wait, an unlock left out; memset left out; a
\* pop left out; SaveTask on the node itself; back() in place of begin().
Lock_NotWaiting(n, t) == buffer_lock_' = [buffer_lock_ EXCEPT ![n] = {t}]
Unlock_Forgotten(n, t) == UNCHANGED buffer_lock_
Cleared_NoMemset(w) == tmp_buffer[w]
PoppedAfter_NoPop(n) == popped[n]
next__Itself(n) == n
Front_Back(n) == pushed[n][Len(pushed[n])]

Lock(n, t) == /\ buffer_lock_[n] = {}
              /\ buffer_lock_' = [buffer_lock_ EXCEPT ![n] = {t}]

Unlock(n, t) == /\ buffer_lock_[n] = {t}
                /\ buffer_lock_' = [buffer_lock_ EXCEPT ![n] = {}]

\* memset(&tmp_buffer, 0, sizeof(tmp_buffer))
Cleared(w) == Zero

\* input_buffer_.pop_front()
PoppedAfter(n) == popped[n] + 1

Empty(n) == popped[n] = Len(pushed[n])
Front(n) == pushed[n][popped[n] + 1]

\* PipeNode::next_, 0 for NULL
next_(n) == IF n < NumNodes THEN n + 1 ELSE 0

\* PipeNode::NewTask: Lock and push_back, which finds the memory it needs (bad_alloc
\* would leave with the lock held, and nobody catches it: the end of the process).
PushTask(n, t) ==
  /\ Lock(n, t)
  /\ pushed' = [pushed EXCEPT ![n] = Append(@, tmp_buffer[t])]
-----------------------------------------------------------------------------
(* The event loop.                                                         *)

\* The distributor has received a message; requests are numbered as they come.
Receive == \E k \in Tasks :
  /\ place[k] = "outside" /\ \A j \in 1..k - 1 : place[j] # "outside"
  /\ Goto(App, "wait", "new")
  /\ tmp_buffer' = [tmp_buffer EXCEPT ![App] = k]
  /\ UNCHANGED <<queueVars, buffer_lock_, finish, history>>

\* PipeLine::NewTask
AppPush ==
  /\ Goto(App, "new", "unlock")
  /\ PushTask(1, App)
  /\ place' = [place EXCEPT ![tmp_buffer[App]] = "inside"]
  /\ UNCHANGED <<popped, finish, tmp_buffer, ran>>

AppUnlock ==
  /\ Goto(App, "unlock", "wait")
  /\ Unlock(1, App)
  /\ tmp_buffer' = [tmp_buffer EXCEPT ![App] = Zero]
  /\ UNCHANGED <<queueVars, finish, history>>
-----------------------------------------------------------------------------
(* work_thread_callback_.                                                  *)

\* The loop starts over: memset, and the first load of empty().
Look(w) ==
  /\ Goto(w, "look", "compare")
  /\ tmp_buffer' = [tmp_buffer EXCEPT ![w] = Cleared(w)]
  /\ finish' = [finish EXCEPT ![w] = Len(pushed[NodeOf(w)])]
  /\ UNCHANGED <<queueVars, buffer_lock_, history>>

\* The end of the loop body: SaveTask when there is a block, and next_ is set.
Deliver(w, from) ==
  IF tmp_buffer[w] = Zero
  THEN Goto(w, from, "look") /\ UNCHANGED place
  ELSE IF next_(NodeOf(w)) = 0
  THEN Goto(w, from, "look") /\ place' = [place EXCEPT ![tmp_buffer[w]] = "left"]
  ELSE Goto(w, from, "save") /\ UNCHANGED place

\* The second load of empty().
SeesEmpty(w) ==
  /\ finish[w] = popped[NodeOf(w)]
  /\ Deliver(w, "compare")
  /\ finish' = [finish EXCEPT ![w] = 0]
  /\ UNCHANGED <<queueVars, buffer_lock_, tmp_buffer, ran>>

SeesTasks(w) ==
  /\ finish[w] # popped[NodeOf(w)]
  /\ Goto(w, "compare", "lock")
  /\ finish' = [finish EXCEPT ![w] = 0]
  /\ UNCHANGED <<queueVars, buffer_lock_, tmp_buffer, history>>

\* Lock; the buffer is still not empty; process_func_ runs on its front and
\* returns a block or nothing.
Process(w) ==
  /\ Goto(w, "lock", "pop") /\ Lock(NodeOf(w), w)
  /\ ~Empty(NodeOf(w))
  /\ LET k == Front(NodeOf(w))
     IN /\ ran' = [ran EXCEPT ![k] = Append(@, NodeOf(w))]
        /\ \/ tmp_buffer' = [tmp_buffer EXCEPT ![w] = k] /\ UNCHANGED place
           \/ tmp_buffer' = [tmp_buffer EXCEPT ![w] = Zero]
              /\ place' = [place EXCEPT ![k] = "left"]
  /\ UNCHANGED <<queueVars, finish>>

\* Or it does not return, like process_request (sample/main.cc:56) on a GET: there
\* it appends to a string until no memory is left, and bad_alloc ends the process
\* with all its threads.  What is shown is the long time before.
ProcessHangs(w) ==
  /\ NodeOf(w) \in MayHang
  /\ Goto(w, "lock", "hung") /\ Lock(NodeOf(w), w)
  /\ ~Empty(NodeOf(w))
  /\ UNCHANGED <<queueVars, finish, tmp_buffer, history>>

PopFront(w) ==
  /\ Goto(w, "pop", "unlock")
  /\ popped' = [popped EXCEPT ![NodeOf(w)] = PoppedAfter(NodeOf(w))]
  /\ UNCHANGED <<pushed, buffer_lock_, finish, tmp_buffer, history>>

\* Lock; another worker was faster.
FindsNothing(w) ==
  /\ Goto(w, "lock", "unlock") /\ Lock(NodeOf(w), w)
  /\ Empty(NodeOf(w))
  /\ UNCHANGED <<queueVars, finish, tmp_buffer, history>>

WorkerUnlock(w) ==
  /\ Unlock(NodeOf(w), w)
  /\ Deliver(w, "unlock")
  /\ UNCHANGED <<queueVars, finish, tmp_buffer, ran>>

\* SaveTask: NewTask on the next node.
Save(w) ==
  /\ Goto(w, "save", "saved")
  /\ PushTask(next_(NodeOf(w)), w)
  /\ UNCHANGED <<popped, finish, tmp_buffer, history>>

SaveUnlock(w) ==
  /\ Goto(w, "saved", "look")
  /\ Unlock(next_(NodeOf(w)), w)
  /\ UNCHANGED <<queueVars, finish, tmp_buffer, history>>
-----------------------------------------------------------------------------
WorkerStep(w) == \/ Look(w) \/ SeesEmpty(w) \/ SeesTasks(w)
                 \/ Process(w) \/ ProcessHangs(w) \/ PopFront(w) \/ FindsNothing(w)
                 \/ WorkerUnlock(w) \/ Save(w) \/ SaveUnlock(w)

AppStep == AppPush \/ AppUnlock

Next == Receive \/ AppStep \/ \E w \in WorkThreads : WorkerStep(w)

\* Every thread runs again and again; usleep ends, a process function returns
\* or hangs.  No message has to arrive.
Fairness == /\ WF_vars(AppStep)
            /\ \A w \in WorkThreads : WF_vars(WorkerStep(w))

Spec == Init /\ [][Next]_vars
FairSpec == Spec /\ Fairness
-----------------------------------------------------------------------------
TypeOK == /\ pushed \in [Nodes -> Seq(Tasks)]
          /\ popped \in [Nodes -> Nat]
          /\ \A n \in Nodes : popped[n] <= Len(pushed[n])
          /\ buffer_lock_ \in [Nodes -> SUBSET Threads]
          /\ pc \in [Threads -> {"wait", "new", "unlock", "look", "compare", "lock",
                                 "pop", "save", "saved", "hung"}]
          /\ finish \in [WorkThreads -> Nat]
          /\ tmp_buffer \in [Threads -> Tasks \cup {Zero}]
          /\ place \in [Tasks -> {"outside", "inside", "left"}]
          /\ ran \in [Tasks -> Seq(Nodes)]

\* The task a worker processed is the one it pops: nothing is popped from an
\* empty deque and no task goes unprocessed, although the check that led the
\* worker to the lock is stale by then.
PopsWhatItProcessed ==
  \A w \in WorkThreads : pc[w] = "pop" =>
    /\ ~Empty(NodeOf(w))
    /\ ran[Front(NodeOf(w))] # <<>>
    /\ NodeOf(w) = ran[Front(NodeOf(w))][Len(ran[Front(NodeOf(w))])]
    /\ tmp_buffer[w] \in {Zero, Front(NodeOf(w))}

\* Where a task is: waiting at a node (unless a worker has processed it and
\* is about to pop it) or in the hands of a worker.
WaitsIn(n, i) ==
  /\ i > popped[n] /\ i <= Len(pushed[n])
  /\ ~(i = popped[n] + 1 /\ \E w \in WorkThreads : NodeOf(w) = n /\ pc[w] = "pop")
WaitingAt(k) == {p \in Nodes \X (1..NumTasks) : WaitsIn(p[1], p[2]) /\ pushed[p[1]][p[2]] = k}
InHandOf(k) == {w \in WorkThreads : tmp_buffer[w] = k /\ pc[w] \in {"pop", "unlock", "save"}}

\* A task that is inside is in exactly one place, one that is not is nowhere:
\* none is lost between two nodes, none is there twice.
OneHolder == \A k \in Tasks :
  Cardinality(WaitingAt(k)) + Cardinality(InHandOf(k)) = IF place[k] = "inside" THEN 1 ELSE 0

\* A thread that waits for a buffer lock holds none, so no cycle of waiting
\* threads can form along the chain of nodes.
NoHoldAndWait == \A t \in Threads, n \in Nodes :
  t \in buffer_lock_[n] => pc[t] \notin {"lock", "new", "save"}

\* Between two nodes a task is overtaken only while a worker has it in hand:
\* if a task that came to node n later is already queued at the next node,
\* the earlier one is there too, or has left, or is in some worker's hands.
QueuedAt(n, k) == \E i \in 1..Len(pushed[n]) : pushed[n][i] = k
OvertakenOnlyInHand ==
  \A n \in 1..NumNodes - 1 : \A j \in 1..Len(pushed[n]) : \A i \in 1..j - 1 :
    QueuedAt(n + 1, pushed[n][j]) =>
      \/ QueuedAt(n + 1, pushed[n][i])
      \/ place[pushed[n][i]] = "left"
      \/ \E w \in InHandOf(pushed[n][i]) : NodeOf(w) = n

\* As long as the nodes before it have one worker each, a node is given the
\* tasks in the order of the requests.
KeepsOrder == \A n \in Nodes : (\A m \in 1..n - 1 : n_worker_[m] = 1) =>
  \A j \in 1..Len(pushed[n]) : \A i \in 1..j - 1 : pushed[n][i] < pushed[n][j]

\* The pipeline implements TaskFlow.
Flow == INSTANCE TaskFlow
ImplementsTaskFlow == Flow!Spec

\* Every task that was handed to NewTask gets through or is swallowed by a
\* process function, unless one hangs at a node it has not been through: a hang
\* holds up what comes after, and nothing that is past that node.
EveryTaskLeaves == \A k \in Tasks :
  place[k] = "inside" ~>
    \/ place[k] = "left"
    \/ \E w \in WorkThreads : pc[w] = "hung" /\ NodeOf(w) > Len(ran[k])
-----------------------------------------------------------------------------
(* The inductive invariant behind TypeOK, NoHoldAndWait,                   *)
(* PopsWhatItProcessed and ImplementsTaskFlow (module PipeLineProofs).     *)

\* Which threads are where in their loops, and what they have in hand there.
PointsOfCode ==
  /\ pc[App] \in {"wait", "new", "unlock"}
  /\ pc[App] # "wait" => tmp_buffer[App] \in Tasks
  /\ \A w \in WorkThreads :
       /\ pc[w] \in {"look", "compare", "lock", "pop", "unlock", "save", "saved", "hung"}
       /\ pc[w] \in {"compare", "lock", "hung"} => tmp_buffer[w] = Zero
       /\ pc[w] = "save" => tmp_buffer[w] # Zero
       /\ pc[w] \in {"save", "saved"} => NodeOf(w) < NumNodes

\* The node whose lock a thread holds, 0 for none.
HeldNode(t) == IF t = App THEN (IF pc[t] = "unlock" THEN 1 ELSE 0)
               ELSE IF pc[t] \in {"pop", "unlock", "hung"} THEN NodeOf(t)
               ELSE IF pc[t] = "saved" THEN NodeOf(t) + 1
               ELSE 0

LocksMatch == \A n \in Nodes :
  /\ \A t \in Threads : t \in buffer_lock_[n] <=> HeldNode(t) = n
  /\ \A s, t \in buffer_lock_[n] : s = t

\* How many tasks a node has processed: those popped, and one about to be.
Popping(n) == \E w \in WorkThreads : NodeOf(w) = n /\ pc[w] = "pop"
Done(n) == IF Popping(n) THEN popped[n] + 1 ELSE popped[n]

\* No task comes to a node twice, none before it has been through the nodes
\* before; those that wait there have been through just these and are inside.
QueuesOrdered == \A n \in Nodes : \A i \in 1..Len(pushed[n]) :
  /\ \A j \in 1..Len(pushed[n]) : pushed[n][i] = pushed[n][j] => i = j
  /\ Len(ran[pushed[n][i]]) >= n - 1
  /\ i > Done(n) => Len(ran[pushed[n][i]]) = n - 1 /\ place[pushed[n][i]] = "inside"

\* A task in a worker's hands has just been through that worker's node.
InHand(w) == pc[w] \in {"pop", "unlock", "save"} /\ tmp_buffer[w] # Zero
HandsOrdered == \A w \in WorkThreads : InHand(w) =>
  /\ Len(ran[tmp_buffer[w]]) = NodeOf(w)
  /\ place[tmp_buffer[w]] = "inside"
  /\ NodeOf(w) < NumNodes => ~QueuedAt(NodeOf(w) + 1, tmp_buffer[w])
  /\ \A v \in WorkThreads : InHand(v) /\ tmp_buffer[v] = tmp_buffer[w] => v = w

\* A worker about to pop has processed the front and has it in hand, unless
\* the process function returned nothing.
PoppersReady == \A w \in WorkThreads : pc[w] = "pop" =>
  /\ ~Empty(NodeOf(w))
  /\ Len(ran[Front(NodeOf(w))]) = NodeOf(w)
  /\ \/ tmp_buffer[w] = Front(NodeOf(w))
     \/ tmp_buffer[w] = Zero /\ place[Front(NodeOf(w))] = "left"

OutsideUntouched ==
  /\ \A k \in Tasks : place[k] = "outside" => \A n \in Nodes : ~QueuedAt(n, k)
  /\ \A k \in Tasks : place[k] = "outside" => Len(ran[k]) = 0
  /\ pc[App] = "new" => place[tmp_buffer[App]] = "outside"

StagesInOrder == \A k \in Tasks : \A j \in 1..Len(ran[k]) : ran[k][j] = j

IInv == /\ TypeOK /\ PointsOfCode /\ LocksMatch /\ QueuesOrdered /\ HandsOrdered
        /\ PoppersReady /\ OutsideUntouched /\ StagesInOrder
=============================================================================
