------------------------------ MODULE Startup ------------------------------
(***************************************************************************)
(* From main to the event loop: PipeLine::AddNode for each configured      *)
(* node, then SoarApp::Start, which switches the nodes on one after the    *)
(* other (PipeNode::SwitchON creates the node's SoarThreads and runs them) *)
(* and opens the port (soarapp.h:109-132, pipeline.cc:38-81,               *)
(* thread.cc:12-23).  One pipeline is registered, or none.                 *)
(*                                                                         *)
(* The repository holds two copies of this code that differ.  In soar/     *)
(* SwitchON joins the threads it has started and the copy constructor of   *)
(* PipeNode initialises n_worker_ with itself; in sample/soar/ the joins   *)
(* are commented out and n_worker_ is copied.                              *)
(*                                                                         *)
(* std::bad_alloc is not in the throw specification of AddNode, SwitchON   *)
(* or Start: where an allocation fails the process terminates.             *)
(***************************************************************************)
EXTENDS Integers, FiniteSets

CONSTANTS NumNodes, MaxWorkers,   \* bounds on what main configures
          RawIds,                 \* what id_ may read as in memory fresh from malloc
          CreateMayFail,          \* pthread_create may fail
          AllocMayFail            \* new and allocate may find no memory

ASSUME StartupAssumption == /\ NumNodes \in Nat \ {0} /\ MaxWorkers \in Nat \ {0}
                            /\ RawIds \subseteq Nat /\ RawIds # {}
                            /\ CreateMayFail \in BOOLEAN /\ AllocMayFail \in BOOLEAN

Nodes == 1..NumNodes

\* Values of an int that counts workers; -1 stands for all that are negative.
Counts == -1..MaxWorkers

VARIABLES copy,        \* "soar" or "sample"
          asked,       \* per node, what main passed to setNWorkers
          func_set,    \* per node, whether main called setProcessFunc
          n_worker_,   \* of the copies in PipeLine::nodes_
          id_,         \* per node, the id_ of its SoarThread objects so far
          workers,     \* the threads created: <<node, index>>
          uncreated,   \* history: those pthread_create failed to create
          node, i,     \* loop positions: the node at hand, the next thread of it
          error,       \* the SoarException in flight, or "none"
          pc           \* where main is

vars == <<copy, asked, func_set, n_worker_, id_, workers, uncreated, node, i, error, pc>>
config == <<copy, asked, func_set>>

Init == /\ copy \in {"soar", "sample"}
        /\ asked \in [Nodes -> Counts]
        /\ func_set \in [Nodes -> BOOLEAN]
        /\ n_worker_ = [n \in Nodes |-> 0]
        /\ id_ = [n \in Nodes |-> [k \in 1..MaxWorkers |-> 0]]
        /\ workers = {} /\ uncreated = {}
        /\ node = 1 /\ i = 1
        /\ error = "none" /\ pc = "build"

\* Mutants: the loop of SwitchON stops early; the loop over the nodes stays
\* where it is.
LastThread_OffByOne(n) == n_worker_[n] - 1
AfterThreads_SameNode == "switch"

\* i != n_worker_ ends the loop.
LastThread(n) == n_worker_[n]

\* The checks of PipeNode::SwitchON.
NumMissing(n) == n_worker_[n] = 0
FuncMissing(n) == ~func_set[n]

NextNode(n) == n + 1

\* Where SwitchON goes when its threads run: to the joins in soar/, back to
\* PipeLine::SwitchON in sample/soar/.
AfterThreads == IF copy = "soar" THEN "join" ELSE "next"

Throw(code) == /\ error' = code /\ pc' = "caught"

\* allocate(n_worker_ * sizeof(Thread_t)): a negative count is a huge size_t.
AllocFails(n) == AllocMayFail \/ n_worker_[n] < 0
-----------------------------------------------------------------------------
\* PipeLine::AddNode copies the node.  Initialised with itself, the n_worker_ of
\* soar/ may be any int.
AddNode ==
  /\ pc = "build" /\ node <= NumNodes
  /\ \E v \in Counts : /\ copy = "sample" => v = asked[node]
                       /\ n_worker_' = [n_worker_ EXCEPT ![node] = v]
  /\ node' = node + 1
  /\ UNCHANGED <<config, id_, workers, uncreated, i, error, pc>>

\* SoarApp::Start with a port; the loop over the nodes begins.
Start ==
  /\ pc = "build" /\ node > NumNodes
  /\ node' = 1 /\ pc' = "switch"
  /\ UNCHANGED <<config, n_worker_, id_, workers, uncreated, i, error>>

StartWithoutPort ==
  /\ pc = "build" /\ node > NumNodes
  /\ Throw("SERVICE_PORT_NOT_SET")
  /\ UNCHANGED <<config, n_worker_, id_, workers, uncreated, node, i>>

StartWithoutPipeline ==
  /\ pc = "build" /\ node > NumNodes
  /\ Throw("SERVICE_PIPELINE_EMPTY")
  /\ UNCHANGED <<config, n_worker_, id_, workers, uncreated, node, i>>

\* PipeNode::SwitchON: the checks, and raw memory for the SoarThread objects,
\* on which no constructor runs.
SwitchON ==
  /\ pc = "switch" /\ node <= NumNodes
  /\ ~NumMissing(node) /\ ~FuncMissing(node) /\ n_worker_[node] > 0
  /\ \E raw \in [1..MaxWorkers -> RawIds] : id_' = [id_ EXCEPT ![node] = raw]
  /\ i' = 1 /\ pc' = "run"
  /\ UNCHANGED <<config, n_worker_, workers, uncreated, node, error>>

NoWorkers ==
  /\ pc = "switch" /\ node <= NumNodes /\ NumMissing(node)
  /\ Throw("WORKER_NUM_NOT_SET")
  /\ UNCHANGED <<config, n_worker_, id_, workers, uncreated, node, i>>

NoFunction ==
  /\ pc = "switch" /\ node <= NumNodes /\ ~NumMissing(node) /\ FuncMissing(node)
  /\ Throw("WORKER_FUNC_NOT_SET")
  /\ UNCHANGED <<config, n_worker_, id_, workers, uncreated, node, i>>

\* SoarThread::run; the result of pthread_create is not looked at.
Run ==
  /\ pc = "run" /\ i <= LastThread(node)
  /\ id_[node][i] = 0
  /\ \/ /\ id_' = [id_ EXCEPT ![node][i] = 1]
        /\ workers' = workers \cup {<<node, i>>}
        /\ UNCHANGED uncreated
     \/ /\ CreateMayFail
        /\ uncreated' = uncreated \cup {<<node, i>>}
        /\ UNCHANGED <<id_, workers>>
  /\ i' = i + 1
  /\ UNCHANGED <<config, n_worker_, node, error, pc>>

RunRefused ==
  /\ pc = "run" /\ i <= LastThread(node)
  /\ id_[node][i] # 0
  /\ Throw("THREAD_RUNNING_IN_PROGRESS")
  /\ UNCHANGED <<config, n_worker_, id_, workers, uncreated, node, i>>

ThreadsRun ==
  /\ pc = "run" /\ i > LastThread(node)
  /\ pc' = AfterThreads /\ i' = 1
  /\ UNCHANGED <<config, n_worker_, id_, workers, uncreated, node, error>>

\* The joins of soar/.  A worker never returns from its loop (pipeline.cc:20), so
\* the join of one that was created has no step.  What pthread_join does with
\* the id_ that a failed pthread_create leaves is undefined: it returns, brings
\* the process down, or waits for ever, which is why nothing makes it step.
JoinUnset ==
  /\ pc = "join" /\ i <= n_worker_[node]
  /\ <<node, i>> \notin workers
  /\ \/ i' = i + 1 /\ UNCHANGED <<workers, pc>>
     \/ pc' = "terminated" /\ workers' = {} /\ UNCHANGED i
  /\ id_' = [id_ EXCEPT ![node][i] = 0]
  /\ UNCHANGED <<config, n_worker_, uncreated, node, error>>

Joined ==
  /\ pc = "join" /\ i > n_worker_[node]
  /\ pc' = "next"
  /\ UNCHANGED <<config, n_worker_, id_, workers, uncreated, node, i, error>>

NextSwitch ==
  /\ pc = "next"
  /\ node' = NextNode(node) /\ pc' = "switch"
  /\ UNCHANGED <<config, n_worker_, id_, workers, uncreated, i, error>>

\* ListenAndBind, SetNonBlocking, new SoarEvent: the port opens, or one fails.
Listen ==
  /\ pc = "switch" /\ node > NumNodes
  /\ pc' = "listening"
  /\ UNCHANGED <<config, n_worker_, id_, workers, uncreated, node, i, error>>

ListenFails == \E code \in {"SOCKET_CREATE_FAILED", "SOCKET_BIND_FAILED",
                            "SOCKET_SETOPT_FAILED", "EVENT_CREATED_FAILED"} :
  /\ pc = "switch" /\ node > NumNodes
  /\ Throw(code)
  /\ UNCHANGED <<config, n_worker_, id_, workers, uncreated, node, i>>

\* The handler of main prints the code and main returns: all threads end.
MainReturns ==
  /\ pc = "caught"
  /\ pc' = "exited" /\ workers' = {}
  /\ UNCHANGED <<config, n_worker_, id_, uncreated, node, i, error>>

\* new PipeNode, pipelines_.push_back, allocate in SwitchON or new SoarEvent
\* finds no memory: std::terminate ends all threads.
OutOfMemory ==
  /\ \/ pc = "build" /\ AllocMayFail
     \/ /\ pc = "switch" /\ node <= NumNodes
        /\ ~NumMissing(node) /\ ~FuncMissing(node) /\ AllocFails(node)
     \/ pc = "switch" /\ node > NumNodes /\ AllocMayFail
  /\ pc' = "terminated" /\ workers' = {}
  /\ UNCHANGED <<config, n_worker_, id_, uncreated, node, i, error>>

Proceed == \/ AddNode \/ Start \/ StartWithoutPort \/ StartWithoutPipeline
           \/ SwitchON \/ NoWorkers \/ NoFunction \/ Run \/ RunRefused
           \/ ThreadsRun \/ Joined \/ NextSwitch \/ Listen \/ ListenFails
           \/ MainReturns \/ OutOfMemory

Next == Proceed \/ JoinUnset

\* The main thread is not stopped, but for an undefined join.
Spec == Init /\ [][Next]_vars
FairSpec == Spec /\ WF_vars(Proceed)
-----------------------------------------------------------------------------
TypeOK == /\ copy \in {"soar", "sample"}
          /\ asked \in [Nodes -> Counts]
          /\ func_set \in [Nodes -> BOOLEAN]
          /\ n_worker_ \in [Nodes -> Counts]
          /\ id_ \in [Nodes -> [1..MaxWorkers -> Nat]]
          /\ workers \subseteq Nodes \X (1..MaxWorkers)
          /\ uncreated \subseteq Nodes \X (1..MaxWorkers)
          /\ node \in 1..NumNodes + 1 /\ i \in 1..MaxWorkers + 1
          /\ pc \in {"build", "switch", "run", "next", "join", "listening", "caught",
                   "exited", "terminated"}

\* The threads main asked for at a node.
Posts(n) == {n} \X (1..asked[n])

\* When the port opens, the loops of PipeLine::SwitchON and PipeNode::SwitchON
\* (pipeline.cc:44-48, 70-81) have run a thread for each worker main asked for
\* at each node, and no other.  That says nothing of the result: those that
\* pthread_create did not create are counted in.  In soar/ the port opens only
\* with no worker at all: main does not get past one that was created.
WorkersWhenOpen ==
  pc = "listening" =>
    /\ copy = "sample" => workers \cup uncreated = UNION {Posts(n) : n \in Nodes}
    /\ copy = "soar" => workers = {}

\* Start comes to rest: the service listens, main has reported an error, or the
\* process has terminated.  In soar/ main may also stay for ever in a join
\* (pipeline.cc:49-51) with a thread it has run, and then for no other reason.
StartDecides ==
  <>[](\/ pc \in {"listening", "exited", "terminated"}
       \/ copy = "soar" /\ pc = "join" /\ <<node, i>> \in workers \cup uncreated)

\* Start comes to an end: PipeLines are made "during the service's
\* initialization" (pipeline.h:73), which is over at some time.  False of soar/.
StartEnds == <>(pc \in {"listening", "exited", "terminated"})

\* The service runs with the workers it was configured with
\* (pipenode.setNWorkers(5), main.cc:68).  False: thread.cc:17 does not
\* look at what pthread_create returns.
FullyStaffed == pc = "listening" /\ copy = "sample" => workers = UNION {Posts(n) : n \in Nodes}
=============================================================================
