---------------------------- MODULE SoarSocket ----------------------------
(***************************************************************************)
(* One SoarSocket object (network/socket.h, socket.cc) in a process whose  *)
(* other code opens and closes descriptors too, the peer of its            *)
(* connection, and the caller DefaultDistributor::RecvMessage              *)
(* (sample/main.cc:22-37), the one reader in the repository.               *)
(*                                                                         *)
(* Descriptors are handed out by the system, the lowest free one first,    *)
(* and 0 is one of them: a process started without standard input gets it  *)
(* for its first socket.  The bytes of a connection are numbered by their  *)
(* place in the stream.  read and write move any part of what they may.    *)
(*                                                                         *)
(* The object is used by one thread.  Operations without a loop are a step *)
(* (BIND is then never seen: listen follows in the same call); the loops   *)
(* of Send, Recv_n and RecvMessage take a step for each system call.  A    *)
(* write interrupted by a signal is repeated and changes nothing; one on a *)
(* connection that is gone fails or kills the process with SIGPIPE, which  *)
(* nothing in the repository ignores, and the next state is that of a new  *)
(* process.  A connect that fails leaves what it found, on which a later   *)
(* one may succeed.  Of a descriptor that sockfd_ does not name only the   *)
(* kind is kept: its stream and flag are any when it is named again.       *)
(***************************************************************************)
EXTENDS Integers, Sequences, FiniteSetsExt

CONSTANTS MaxFd,    \* the descriptors of the process are 0..MaxFd
          MaxSent,  \* a peer sends this many bytes at most
          Nuls,     \* the bytes of the stream that are '\0'
          MaxWant,  \* the longest Send and Recv_n asked for
          BufLen,   \* the 512 of RecvMessage
          OutCap    \* what a peer takes in during one Send at most

ASSUME SocketAssumption ==
  /\ MaxFd \in Nat /\ MaxSent \in Nat /\ Nuls \subseteq 1..MaxSent
  /\ MaxWant \in Nat /\ BufLen \in Nat \ {0} /\ OutCap \in Nat

Fds == 0..MaxFd
Statuses == {"INIT", "CREATE", "BIND", "LISTENING", "CONN", "CLOSE"}
\* What a descriptor is: not in use; somebody else's file; a socket that an
\* object made with socket(), listening, connected by Connect, or a connection
\* that accept made for it.
Files == {"free", "foreign", "sock", "listen", "conn", "accepted"}
Connected == {"conn", "accepted"}
Own == {"sock", "listen"} \cup Connected

VARIABLES copy,      \* "soar" or "sample": which socket.cc
          sockfd_, status_,
          alive,     \* between constructor and destructor
          handed,    \* history: set_fd or a constructor was handed the number, of no file or another's
          file,      \* the descriptor table
          nonblock,  \* O_NONBLOCK of what sockfd_ names
          stream,    \* of the connection: bytes sent, bytes read, whether it goes on
          call       \* the transfer under way, or one that has just ended

vars == <<copy, sockfd_, status_, alive, handed, file, nonblock, stream, call>>
object == <<copy, sockfd_, status_, alive, handed>>

\* op and want are the call; left is nleft, data what was read or sent so far;
\* for checking only: from, the place in the stream at its begin, and on, the
\* kind of file it has moved data on.
NoCall == [op |-> "none", phase |-> "idle", want |-> 0, left |-> 0, data |-> <<>>,
           from |-> 0, on |-> "none"]
Fresh == [sent |-> 0, taken |-> 0, end |-> "open"]

\* The streams a connection may have.
Streams == {s \in [sent : 0..MaxSent, taken : 0..MaxSent, end : {"open", "eof", "reset"}] :
              s.taken <= s.sent}

Init == /\ copy \in {"soar", "sample"}
        /\ sockfd_ = 0 /\ status_ = "CLOSE" /\ alive = FALSE /\ handed = FALSE
        /\ file \in [Fds -> {"free", "foreign"}]
        /\ nonblock = FALSE /\ stream = Fresh /\ call = NoCall

Idle == alive /\ call.phase # "running"
Running(op) == call.phase = "running" /\ call.op = op
KindOf(d) == IF d \in Fds THEN file[d] ELSE "free"
Kind == KindOf(sockfd_)
Avail == stream.sent - stream.taken

\* Mutants: Recv and Send of soar/ test like the sample; Close leaves the status
\* alone; what is read overwrites what was read; Recv_n goes on when it has
\* enough.
Refused_And == status_ # "CONN" /\ sockfd_ = 0
StatusAfterClose_Kept == status_
Gathered_Overwrites(data, bytes) == bytes
Enough_Beyond(n, want) == n > want

\* The test before every transfer.
Refused == IF copy = "soar" THEN status_ # "CONN" \/ sockfd_ = 0
                            ELSE status_ # "CONN" /\ sockfd_ = 0

StatusAfterClose == "CLOSE"
AfterClose(d) == [x \in Fds |-> IF x = d THEN "free" ELSE file[x]]
Gathered(data, bytes) == data \o bytes
Enough(n, want) == n >= want
\* nleft after a write of nsend bytes: it is reduced in the error branch only,
\* by the 0 that stands for EINTR.
Advance(left, nsend) == left
-----------------------------------------------------------------------------
Lowest(d) == file[d] = "free" /\ \A e \in Fds : file[e] = "free" => d <= e

Done(c) == [c EXCEPT !.phase = "returned"]
Failed(c) == [c EXCEPT !.phase = "threw"]

\* sockfd_ is set to the lowest free number, a new file k.
Names(d, k, s) ==
  /\ Lowest(d) /\ file' = [file EXCEPT ![d] = k]
  /\ sockfd_' = d /\ status_' = s /\ handed' = FALSE
  /\ nonblock' = FALSE /\ stream' = Fresh

\* sockfd_ is set to the number d, whatever it names.
Takes(d) ==
  /\ sockfd_' = d /\ UNCHANGED file
  /\ IF d = sockfd_
     THEN UNCHANGED <<nonblock, stream>>
     ELSE /\ nonblock' \in IF KindOf(d) = "free" THEN {FALSE} ELSE BOOLEAN
          /\ stream' \in IF KindOf(d) \in Connected THEN Streams ELSE {Fresh}

\* socket() has no descriptor to give; INIT or as it was.
NoSocket(s) == /\ sockfd_' = -1 /\ status_' = s /\ handed' = FALSE
               /\ nonblock' = FALSE /\ stream' = Fresh /\ UNCHANGED file
-----------------------------------------------------------------------------
Construct ==
  /\ ~alive /\ alive' = TRUE
  /\ Takes(0) /\ status_' = "INIT" /\ handed' = FALSE
  /\ call' = NoCall /\ UNCHANGED copy

\* SoarSocket(fd) and set_fd(fd): a connection accept has just made
\* (soarapp.h:71), or any number there is, as that of an event item
\* (soarapp.h:85).
Given ==
  \/ \E d \in Fds : Names(d, "accepted", "CREATE")
  \/ \E d \in Fds \cup {-1} :
       /\ Takes(d) /\ status_' = "CREATE"
       /\ handed' = (KindOf(d) \notin Own)

ConstructFd == ~alive /\ alive' = TRUE /\ Given /\ call' = NoCall /\ UNCHANGED copy
set_fd == Idle /\ Given /\ call' = NoCall /\ UNCHANGED <<copy, alive>>

\* SoarSocket(addr, port).  When there is no socket the exception ends the
\* construction; without address or port status_ is never initialised.
ConstructTo ==
  /\ ~alive /\ alive' = TRUE
  /\ \/ \E d \in Fds : Names(d, "sock", "CREATE")
     \/ Takes(0) /\ status_' \in Statuses /\ handed' = FALSE
  /\ call' = NoCall /\ UNCHANGED copy

ListenAndBind ==   \* bind or listen fails, or neither
  /\ Idle
  /\ \/ NoSocket("INIT")
     \/ \E d \in Fds : Names(d, "sock", "INIT")
     \/ \E d \in Fds : Names(d, "listen", "LISTENING")
  /\ call' = NoCall /\ UNCHANGED <<copy, alive>>

\* Connect(addr, port) with both given: a new socket, then connect.
ConnectTo ==
  /\ Idle
  /\ \/ NoSocket(status_)
     \/ \E d \in Fds : Names(d, "sock", "CREATE")
     \/ \E d \in Fds : Names(d, "conn", "CONN")
  /\ call' = NoCall /\ UNCHANGED <<copy, alive>>

\* Without: _CreateSocket returns 0, which becomes the descriptor to connect;
\* that may be a socket of somebody else.  connect keeps O_NONBLOCK.
Connectable(d) == KindOf(d) \in {"sock", "foreign"}

ConnectNowhere ==
  /\ Idle
  /\ \/ Takes(0) /\ UNCHANGED status_
     \/ /\ Connectable(0)
        /\ sockfd_' = 0 /\ status_' = "CONN"
        /\ file' = [file EXCEPT ![0] = "conn"] /\ stream' = Fresh
        /\ nonblock' \in IF sockfd_ = 0 THEN {nonblock} ELSE BOOLEAN
  /\ handed' = FALSE
  /\ call' = NoCall /\ UNCHANGED <<copy, alive>>

\* Connect() on the socket there is.
Connect ==
  /\ Idle
  /\ \/ /\ status_ = "CREATE" /\ sockfd_ # 0 /\ Connectable(sockfd_)
        /\ status_' = "CONN"
        /\ file' = [file EXCEPT ![sockfd_] = "conn"] /\ stream' = Fresh
     \/ UNCHANGED <<file, status_, stream>>
  /\ call' = NoCall /\ UNCHANGED <<copy, sockfd_, alive, handed, nonblock>>

\* fcntl; on a number without a file it fails and nothing happens.
SetNonBlocking == /\ Idle /\ Kind # "free" /\ nonblock' = TRUE /\ call' = NoCall
                  /\ UNCHANGED <<object, file, stream>>
SetBlocking == /\ Idle /\ Kind # "free" /\ nonblock' = FALSE /\ call' = NoCall
               /\ UNCHANGED <<object, file, stream>>

\* close(sockfd_): whatever the number names by now.
Close == /\ Idle
         /\ file' = AfterClose(sockfd_) /\ status_' = StatusAfterClose
         /\ nonblock' = FALSE /\ stream' = Fresh /\ call' = NoCall
         /\ UNCHANGED <<copy, sockfd_, alive, handed>>

Destruct == /\ Idle
            /\ file' = AfterClose(sockfd_) /\ status_' = StatusAfterClose
            /\ alive' = FALSE
            /\ nonblock' = FALSE /\ stream' = Fresh /\ call' = NoCall
            /\ UNCHANGED <<copy, sockfd_, handed>>
-----------------------------------------------------------------------------
\* What one read of at most room bytes may come to: bytes, none at the end of
\* file, or an error.  What somebody else's file yields (MaxSent bytes at most) is
\* no byte of the peer: 0.
Got(bytes) == [ok |-> TRUE, bytes |-> bytes]
Error == [ok |-> FALSE, bytes |-> <<>>]
Reads(room) ==
  CASE Kind \in Connected ->
         {Got([i \in 1..n |-> stream.taken + i]) : n \in {m \in 1..room : m <= Avail}}
         \cup (IF Avail = 0 /\ stream.end = "eof" THEN {Got(<<>>)} ELSE {})
         \cup (IF Avail = 0 /\ stream.end = "open" /\ nonblock THEN {Error} ELSE {})
         \cup (IF stream.end = "reset" THEN {Error} ELSE {})
    [] Kind = "foreign" ->
         {Got(<<>>), Error} \cup {b \in {Got(<<0>>)} : Len(call.data) < MaxSent}
    [] OTHER -> {Error}

\* The read has taken place.
Took(r) == stream' = IF Kind \in Connected THEN [stream EXCEPT !.taken = @ + Len(r.bytes)]
                                           ELSE stream
\* What a transfer knows after it.
With(c, data) == [c EXCEPT !.data = data, !.on = Kind]

\* A blocking read that waits is ended by a signal (EINTR).
Waiting == Kind \in Connected /\ Avail = 0 /\ stream.end = "open" /\ ~nonblock

\* A transfer begins: refused, or in its loop.
Begin(op, n) == [NoCall EXCEPT !.op = op, !.want = n, !.left = n, !.from = stream.taken,
                               !.phase = IF Refused THEN "threw" ELSE "running"]

Recv == \E n \in 1..MaxWant :
  /\ Idle
  /\ \/ /\ Refused
        /\ call' = Begin("Recv", n) /\ UNCHANGED stream
     \/ /\ ~Refused
        /\ \E r \in Reads(n) :
             /\ Took(r)
             /\ call' = IF r.ok THEN Done(With(Begin("Recv", n), r.bytes))
                                ELSE Failed(Begin("Recv", n))
     \/ /\ ~Refused /\ Waiting
        /\ call' = Failed(Begin("Recv", n)) /\ UNCHANGED stream
  /\ UNCHANGED <<object, file, nonblock>>

CallRecv_n == \E n \in 1..MaxWant :
  /\ Idle /\ call' = Begin("Recv_n", n)
  /\ UNCHANGED <<object, file, nonblock, stream>>

\* One turn of the loop of Recv_n.  At the end of file it reads nothing and
\* comes round again.
Recv_n ==
  /\ Running("Recv_n")
  /\ \/ /\ Enough(Len(call.data), call.want)
        /\ call' = Done(call) /\ UNCHANGED stream
     \/ /\ ~Enough(Len(call.data), call.want)
        /\ \E r \in Reads(call.want - Len(call.data)) :
             /\ Took(r)
             /\ call' = IF r.ok THEN With(call, Gathered(call.data, r.bytes))
                                ELSE Failed(call)
  /\ UNCHANGED <<object, file, nonblock>>

\* buffer is appended as a C string: the part before its first '\0'.
AsCString(bytes) ==
  SubSeq(bytes, 1, Min({i \in DOMAIN bytes : bytes[i] \in Nuls} \cup {Len(bytes) + 1}) - 1)

CallRecvMessage ==
  /\ Idle /\ call' = Begin("RecvMessage", 0)
  /\ UNCHANGED <<object, file, nonblock, stream>>

\* One turn of the loop of RecvMessage: it ends when Recv returns 0, and what
\* Recv throws passes through.
RecvMessage ==
  /\ Running("RecvMessage")
  /\ \E r \in Reads(BufLen) :
       /\ Took(r)
       /\ call' = CASE ~r.ok -> Failed(call)
                    [] r.ok /\ r.bytes = <<>> -> Done(call)
                    [] OTHER -> With(call, Gathered(call.data, AsCString(r.bytes)))
  /\ UNCHANGED <<object, file, nonblock>>

Interrupted ==
  /\ \/ Running("Recv_n") /\ ~Enough(Len(call.data), call.want)
     \/ Running("RecvMessage")
  /\ Waiting /\ call' = Failed(call)
  /\ UNCHANGED <<object, file, nonblock, stream>>

CallSend == \E n \in 0..MaxWant :
  /\ Idle /\ call' = Begin("Send", n)
  /\ UNCHANGED <<object, file, nonblock, stream>>

\* One turn of the loop of Send.  data is what the peer has been sent by it,
\* as places in src; the write starts at src + want - left.
Room == OutCap - Len(call.data)
Broken == Kind \in Connected => stream.end = "reset"
Send ==
  /\ Running("Send")
  /\ \/ call.left <= 0 /\ call' = Done(call)
     \/ /\ call.left > 0 /\ Kind \in Connected /\ ~Broken
        /\ \E n \in 1..call.left :
             /\ n <= Room
             /\ LET src == [i \in 1..n |-> call.want - call.left + i]
                IN  call' = [With(call, call.data \o src) EXCEPT !.left = Advance(@, n)]
     \/ /\ call.left > 0 /\ Kind = "foreign"
        /\ call' = [With(call, call.data) EXCEPT !.left = Advance(@, 1)]
     \/ /\ call.left > 0   \* the connection is gone, or full and O_NONBLOCK
        /\ Broken \/ (nonblock /\ Room = 0)
        /\ call' = Failed(call)
  /\ UNCHANGED <<object, file, nonblock, stream>>

\* The write raises SIGPIPE: the process ends, and another one starts.
Killed ==
  /\ Running("Send") /\ call.left > 0
  /\ Kind # "free" /\ Broken
  /\ sockfd_' = 0 /\ status_' = "CLOSE" /\ alive' = FALSE /\ handed' = FALSE
  /\ file' \in [Fds -> {"free", "foreign"}]
  /\ nonblock' = FALSE /\ stream' = Fresh /\ call' = NoCall
  /\ UNCHANGED copy
-----------------------------------------------------------------------------
\* The rest of the process, and the peer.
StillRunning == call' = IF call.phase = "running" THEN call ELSE NoCall

OtherOpens == \E d \in Fds :
  /\ Lowest(d) /\ file' = [file EXCEPT ![d] = "foreign"]
  /\ nonblock' \in IF d = sockfd_ THEN BOOLEAN ELSE {nonblock}
  /\ StillRunning /\ UNCHANGED <<object, stream>>

OtherCloses == \E d \in Fds :
  /\ file[d] = "foreign" /\ file' = [file EXCEPT ![d] = "free"]
  /\ StillRunning /\ UNCHANGED <<object, nonblock, stream>>

PeerSends ==
  /\ Kind \in Connected /\ stream.end = "open" /\ stream.sent < MaxSent
  /\ stream' = [stream EXCEPT !.sent = @ + 1]
  /\ StillRunning /\ UNCHANGED <<object, file, nonblock>>

PeerEnds == \E e \in {"eof", "reset"} :
  /\ Kind \in Connected /\ stream.end # "reset" /\ stream.end # e
  /\ stream' = [stream EXCEPT !.end = e]
  /\ StillRunning /\ UNCHANGED <<object, file, nonblock>>

Next == \/ Construct \/ ConstructFd \/ ConstructTo \/ set_fd \/ ListenAndBind
        \/ ConnectTo \/ ConnectNowhere \/ Connect \/ SetNonBlocking \/ SetBlocking
        \/ Close \/ Destruct \/ Recv \/ CallRecv_n \/ Recv_n
        \/ CallRecvMessage \/ RecvMessage \/ Interrupted \/ CallSend \/ Send \/ Killed
        \/ OtherOpens \/ OtherCloses \/ PeerSends \/ PeerEnds

\* A thread in the loop of Recv_n is not stopped, and a read does not wait when
\* there is something to read.
Spec == Init /\ [][Next]_vars
FairSpec == Spec /\ WF_vars(Recv_n)
-----------------------------------------------------------------------------
TypeOK == /\ copy \in {"soar", "sample"}
          /\ sockfd_ \in Fds \cup {-1} /\ status_ \in Statuses
          /\ alive \in BOOLEAN /\ handed \in BOOLEAN /\ nonblock \in BOOLEAN
          /\ file \in [Fds -> Files]
          /\ stream \in [sent : 0..MaxSent, taken : 0..MaxSent, end : {"open", "eof", "reset"}]
          /\ call.op \in {"none", "Recv", "Recv_n", "RecvMessage", "Send"}
          /\ call.phase \in {"idle", "running", "returned", "threw"}
          /\ call.on \in Files \cup {"none"} /\ call.left \in 0..MaxWant

\* The number the object closes next, by Close or by its destructor, is not that
\* of somebody else's file, but for three cases: the object was closed and kept
\* the number (socket.cc:214), the number is the 0 it was constructed with
\* (socket.h:39) or that a Connect without address left behind, or set_fd or the
\* constructor was handed a number that named no file of the object's.
AimsAtOwn == Kind = "foreign" => status_ = "CLOSE" \/ sockfd_ = 0 \/ handed

\* SOCK_CLOSE (socket.h:27) is the status of an object that has no descriptor to
\* close, and no two objects own one (DISALLOW_COPY_AND_ASSIGN, socket.h:37): so
\* the destructor of a closed object closes no file.  False: it closes whatever
\* has got the number since.  (Number 0, which an object is born with, is apart.)
ClosedOwnsNothing == alive /\ status_ = "CLOSE" /\ sockfd_ # 0 => Kind # "foreign"

\* With the test of soar/ data is only moved on a connection that Connect made:
\* never on a file of somebody else that has got the number meanwhile, and not
\* on accepted connections either, which set_fd declares unconnected.
TransfersOnOwn == copy = "soar" => call.on \in {"none", "conn"}

\* What a read hands to its caller is the next piece of the stream, without gap
\* or repetition however the system cuts it: Recv_n exactly what was asked for,
\* RecvMessage all there is up to the end if no byte is '\0'.
ReceivesInOrder ==
  call.phase = "returned" /\ Kind \in Connected =>
    /\ call.op \in {"Recv", "Recv_n"} =>
         \A i \in DOMAIN call.data : call.data[i] = call.from + i
    /\ call.op = "Recv_n" => Len(call.data) = call.want
    /\ call.op = "RecvMessage" /\ Nuls \cap (call.from + 1)..stream.sent = {} =>
         call.data = [i \in 1..stream.sent - call.from |-> call.from + i]

\* Send(src, nlen) gives the peer no more than the nlen bytes of src: the loop is
\* to go on after what was sent (nleft -= nsend; ptr += nsend;).  False.
SendsOnce == call.op = "Send" /\ Kind \in Connected => Len(call.data) <= call.want

\* A RecvMessage that throws leaves what the client has sent ("Data tobe read from
\* client", soarapp.h:84) to be read.  False: what it has read is gone.
NothingLost ==
  call.op = "RecvMessage" /\ call.phase = "threw" /\ Kind \in Connected =>
    stream.taken = call.from

\* Recv_n comes back when what it waits for has arrived.
RecvNReturns ==
  (Running("Recv_n") /\ Avail >= call.want - Len(call.data)) ~> ~Running("Recv_n")

\* Recv_n comes back when the stream ends before it has enough: there is an error
\* for that, SOCKET_RECV_NOT_ENOUGH (exception.h:23).  False: it reads 0 bytes,
\* again and again.
RecvNGivesUp ==
  (Running("Recv_n") /\ Kind \in Connected /\ stream.end = "eof") ~> ~Running("Recv_n")
=============================================================================
