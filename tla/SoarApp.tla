------------------------------ MODULE SoarApp ------------------------------
(***************************************************************************)
(* SoarApp from the end of Start on (soarapp.h:41-95, 117-131): the        *)
(* listening socket is registered with SoarEvent and waiting_events runs,  *)
(* among clients that connect, send and go away.  Startup has what comes   *)
(* before, SoarSocket what a socket does, PipeLine what NewTask starts.    *)
(*                                                                         *)
(* Descriptors are small numbers, lowest first: 0 is standard input, or,   *)
(* in a process started without it, the listening socket.  Output, error   *)
(* and the descriptor of epoll are not shown.  No accepted descriptor is   *)
(* ever closed (soarapp.h:71), so the limit of the process counts all      *)
(* clients it has had.                                                     *)
(*                                                                         *)
(* Every error of a system call counts against MaxFails.  A step is one    *)
(* call of EventLoop, one event, or one turn of the accept loop.           *)
(***************************************************************************)
EXTENDS SoarEvent

CONSTANTS Clients,
          StdinOpen,   \* subset of BOOLEAN: how the process may be started
          FdLimit,     \* so many connections fit into the descriptor table
          MaxFails     \* system calls that fail, at most

ASSUME AppAssumption == /\ MAX_EVENTS \in Nat \ {0} /\ IsFiniteSet(Clients)
                        /\ StdinOpen \subseteq BOOLEAN
                        /\ FdLimit \in Nat /\ MaxFails \in Nat

VARIABLES stdin,     \* whether descriptor 0 is standard input
          state,     \* per client: "away", "waiting" to be accepted, or
                     \* accepted and "quiet", with "data", or "broken"
          fd,        \* per client, its descriptor, 0 before it is accepted
          pc, batch, \* where the loop is, and the items yet to be looked at
          fails,     \* calls that failed
          unaccepted \* history: an accept has failed

appVars == <<stdin, state, fd, pc, batch, fails, unaccepted>>
vars == <<eventVars, appVars>>

Init == /\ copy \in {"soar", "sample"} /\ stdin \in StdinOpen
        /\ interest = {} /\ pending = {} /\ error_id_ = "none"
        /\ state = [c \in Clients |-> "away"] /\ fd = [c \in Clients |-> 0]
        /\ pc = "register" /\ batch = {} /\ fails = 0
        /\ unaccepted = FALSE

core_sock_ == IF stdin THEN 1 ELSE 0
Waiting == {c \in Clients : state[c] = "waiting"}
Open == {c \in Clients : state[c] \notin {"away", "waiting"}}
Full == Cardinality(Open) = FdLimit
NextFd == core_sock_ + 1 + Cardinality(Open)

Broken == {fd[c] : c \in {d \in Open : state[d] = "broken"}}
Ready == (IF Waiting = {} THEN {} ELSE {core_sock_})
           \cup {fd[c] : c \in {d \in Open : state[d] # "quiet"}}

\* Mutant: the accept loop takes one connection.
AfterAccept_OnlyOne == "event"

\* Where an accepted connection leads: another turn of the loop.
AfterAccept == "accept"

\* The test before an item is received from: soar/ has none, the sample skips 0.
MayReceive(n) == copy = "sample" => n # 0

Fails == fails < MaxFails /\ fails' = fails + 1
-----------------------------------------------------------------------------
\* The end of Start.  What NewEvent returns is not looked at.
Register ==
  /\ pc = "register" /\ pc' = "wait"
  /\ \/ NewEvent(core_sock_, NULL, Ready) /\ UNCHANGED fails
     \/ Fails /\ NewEventFails
  /\ UNCHANGED <<copy, stdin, state, fd, batch, unaccepted>>

WaitEvents ==
  /\ pc = "wait" /\ pc' = "event"
  /\ EventLoop(Ready, Broken, batch')
  /\ UNCHANGED <<copy, stdin, state, fd, fails, unaccepted>>

WaitFails ==
  /\ pc = "wait" /\ Fails /\ EventLoopFails
  /\ UNCHANGED <<copy, stdin, state, fd, pc, batch, unaccepted>>

NoMoreItems ==
  /\ pc = "event" /\ batch = {} /\ pc' = "wait"
  /\ UNCHANGED <<eventVars, stdin, state, fd, batch, fails, unaccepted>>

\* An item with an error, or one the sample does not look at.
Skip == \E e \in batch :
  /\ pc = "event"
  /\ e.err \/ (e.fd # core_sock_ /\ ~MayReceive(e.fd))
  /\ batch' = batch \ {e}
  /\ UNCHANGED <<eventVars, stdin, state, fd, pc, fails, unaccepted>>

NewAccept == \E e \in batch :
  /\ pc = "event" /\ ~e.err /\ e.fd = core_sock_
  /\ batch' = batch \ {e} /\ pc' = "accept"
  /\ UNCHANGED <<eventVars, stdin, state, fd, fails, unaccepted>>

\* The item is readable: the distributor receives from a tmpSocket with its
\* number.  Either a block comes of it and goes to a pipeline, or an exception,
\* which ends the loop and the service.  (SoarSocket: with the Recv of soar/ it
\* is an exception, unless the distributor catches it.)
Receive == \E e \in batch :
  /\ pc = "event" /\ ~e.err /\ e.fd # core_sock_ /\ MayReceive(e.fd)
  /\ batch' = batch \ {e}
  /\ pc' \in {"event", "ended"}
  /\ state' = [c \in Clients |-> IF c \in Open /\ fd[c] = e.fd /\ state[c] = "data"
                                 THEN "quiet" ELSE state[c]]
  /\ UNCHANGED <<eventVars, stdin, fd, fails, unaccepted>>

\* One turn of the accept loop: the connection is made non-blocking and watched.
\* NewEvent reports failure as 1, the caller tests for less than 0.
Accept == \E c \in Waiting :
  /\ pc = "accept" /\ ~Full
  /\ state' = [state EXCEPT ![c] = "quiet"]
  /\ fd' = [fd EXCEPT ![c] = NextFd]
  /\ pc' = AfterAccept
  /\ \/ NewEvent(NextFd, NULL, {}) /\ UNCHANGED fails
     \/ Fails /\ NewEventFails
  /\ UNCHANGED <<copy, stdin, batch, unaccepted>>

\* SetNonBlocking fails: SOCKET_SETOPT_FAILED is thrown.
AcceptThrows == \E c \in Waiting :
  /\ pc = "accept" /\ ~Full /\ Fails
  /\ state' = [state EXCEPT ![c] = "quiet"]
  /\ fd' = [fd EXCEPT ![c] = NextFd]
  /\ pc' = "ended"
  /\ UNCHANGED <<eventVars, stdin, batch, unaccepted>>

AllProcessed ==   \* EAGAIN
  /\ pc = "accept" /\ Waiting = {} /\ pc' = "event"
  /\ UNCHANGED <<eventVars, stdin, state, fd, batch, fails, unaccepted>>

\* Any other error ends the loop as well; with a full table it is EMFILE.
AcceptFails ==
  /\ pc = "accept" /\ Waiting # {} /\ pc' = "event"
  /\ IF Full THEN UNCHANGED fails ELSE Fails
  /\ unaccepted' = TRUE
  /\ UNCHANGED <<eventVars, stdin, state, fd, batch>>
-----------------------------------------------------------------------------
\* The clients.
Arrive(c) ==
  /\ pc # "ended" /\ state[c] = "away"
  /\ state' = [state EXCEPT ![c] = "waiting"] /\ News(core_sock_)
  /\ UNCHANGED <<copy, interest, error_id_, stdin, fd, pc, batch, fails, unaccepted>>

\* It sends, or ends the stream: both can be read.
Sends(c) ==
  /\ pc # "ended" /\ state[c] = "quiet"
  /\ state' = [state EXCEPT ![c] = "data"] /\ News(fd[c])
  /\ UNCHANGED <<copy, interest, error_id_, stdin, fd, pc, batch, fails, unaccepted>>

Breaks(c) ==
  /\ pc # "ended" /\ state[c] \in {"quiet", "data"}
  /\ state' = [state EXCEPT ![c] = "broken"] /\ News(fd[c])
  /\ UNCHANGED <<copy, interest, error_id_, stdin, fd, pc, batch, fails, unaccepted>>

Client == \E c \in Clients : Arrive(c) \/ Sends(c) \/ Breaks(c)
waiting_events == \/ WaitEvents \/ WaitFails \/ NoMoreItems \/ Skip \/ NewAccept \/ Receive
                  \/ Accept \/ AcceptThrows \/ AllProcessed \/ AcceptFails
Next == Register \/ waiting_events \/ Client

\* The thread of the loop is not stopped.
Spec == Init /\ [][Next]_vars
FairSpec == Spec /\ WF_vars(Register) /\ WF_vars(waiting_events)
-----------------------------------------------------------------------------
TypeOK == /\ copy \in {"soar", "sample"} /\ stdin \in BOOLEAN
          /\ interest \subseteq [fd : Nat, word : Nat] /\ pending \subseteq {w.fd : w \in interest}
          /\ error_id_ \in ErrorIds
          /\ state \in [Clients -> {"away", "waiting", "quiet", "data", "broken"}]
          /\ fd \in [Clients -> Nat]
          /\ \A c, d \in Open : fd[c] = fd[d] => c = d
          /\ pc \in {"register", "wait", "event", "accept", "ended"}
          /\ batch \subseteq [fd : Nat, err : BOOLEAN, of : Nat]
          /\ Cardinality(batch) <= MAX_EVENTS
          /\ fails \in 0..MaxFails /\ unaccepted \in BOOLEAN

\* The listening socket is told from the others when its item comes.
Recognised == \E w \in interest : w.fd = core_sock_ /\ w.word = core_sock_

\* Once EventLoop reports the listening socket as what it is, nobody is left
\* waiting: reported by level or by edge, the accept loop takes all there are.
\* Exceptions: the service has ended, its descriptors are used up, or, with
\* edges, an accept has failed and nobody came since.
NoneStranded ==
  \A c \in Clients :
    (state[c] = "waiting" /\ Recognised) ~>
      \/ state[c] # "waiting" \/ pc = "ended" \/ Full
      \/ copy = "sample" /\ unaccepted

\* An open connection or a listening socket that nobody watches is never silent:
\* SoarApp ignores what NewEvent returns, but get_last_error() has told of it ever
\* since, also when the map of errors has no entry for the cause.  (Of something
\* that failed: the last failure is the one it names.)
FailuresAreReported ==
  (pc # "register" /\ ~\E w \in interest : w.fd = core_sock_)
    \/ (\E c \in Open : pc # "ended" /\ ~\E w \in interest : w.fd = fd[c])
  => error_id_ # "none"

\* soarapp.h:53-54: a client that waits is accepted, while the service runs.
\* False twice: an item of the listening socket is not told from the others, or
\* the descriptors are used up.
AllAccepted == \A c \in Clients :
  state[c] = "waiting" ~> (state[c] # "waiting" \/ pc = "ended")

\* soarapp.h:84, "Data tobe read from client": the client an item was reported for
\* is received from, while the service runs.  False: the item does not say which.
DataReceived == \A c \in Clients :
  state[c] = "data" ~> (state[c] # "data" \/ pc = "ended")

\* soarapp.h:78-79: a connection that cannot be watched ends the loop with the
\* error of NewEvent.  False: NewEvent says 1, the test is for less than 0.
AddFailureThrown == [][Open' # Open /\ interest' = interest => pc' = "ended"]_vars
=============================================================================
