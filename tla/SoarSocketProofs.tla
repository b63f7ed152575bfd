------------------------- MODULE SoarSocketProofs -------------------------
(***************************************************************************)
(* What holds of a SoarSocket object for descriptor tables, streams and    *)
(* transfers of any size.  The invariant IInv relates the status of the    *)
(* object to what its number names in the descriptor table, and to the     *)
(* transfer under way; OrderInv, inductive beside it, the data of that     *)
(* transfer to the stream of the connection.                               *)
(***************************************************************************)
EXTENDS SoarSocket, SequenceTheorems, TLAPS

\* The record call has its fields; what Recv_n has gathered is a sequence.
CallShape ==
  /\ call = [op |-> call.op, phase |-> call.phase, want |-> call.want, left |-> call.left,
             data |-> call.data, from |-> call.from, on |-> call.on]
  /\ call.op = "Recv_n" => call.want \in Nat /\ call.data \in Seq(Nat)

StreamBounded == stream.taken <= stream.sent

\* But for the number 0, after Close, and when the object was handed it, the
\* object's number names a file of its own.
NamesOwn == sockfd_ \in Fds \ {0} /\ status_ # "CLOSE" /\ ~handed => file[sockfd_] \in Own

\* CONN means a connection made by Connect.
ConnIsConn == sockfd_ \in Fds \ {0} /\ status_ = "CONN" => file[sockfd_] = "conn"

\* A transfer of soar/ that is under way passed the test, and nothing changed since.
TestStillHolds ==
  copy = "soar" /\ call.phase = "running" => status_ = "CONN" /\ sockfd_ # 0

IInv == TypeOK /\ CallShape /\ StreamBounded /\ NamesOwn /\ ConnIsConn /\ TestStillHolds
          /\ TransfersOnOwn
-----------------------------------------------------------------------------
\* The fields of the two outcomes.
LEMMA BytesOf ==
  /\ \A b : Got(b).ok = TRUE /\ Got(b).bytes = b
  /\ Error.ok = FALSE /\ Error.bytes = <<>>
<1>1. ASSUME NEW b PROVE Got(b).ok = TRUE /\ Got(b).bytes = b
  BY DEF Got
<1>2. Error.ok = FALSE
  BY DEF Error
<1>3. Error.bytes = <<>>
  BY DEF Error
<1> QED BY <1>1, <1>2, <1>3

\* What a read yields: nothing from a number without a file or a socket that is
\* not connected, no more than there is from a connection.
LEMMA ReadOutcome ==
  ASSUME TypeOK, StreamBounded, NEW room \in Int, NEW r \in Reads(room)
  PROVE  /\ r.ok \in BOOLEAN
         /\ r.ok => Kind \in Connected \cup {"foreign"}
         /\ r.bytes \in Seq(Nat)
         /\ Kind \in Connected => Len(r.bytes) \in 0..Avail
<1>0. Avail \in Nat /\ stream.taken \in Nat
  BY SocketAssumption DEF TypeOK, StreamBounded, Avail
<1>1. CASE Kind \in Connected
  <2>1. r \in {Got([i \in 1..n |-> stream.taken + i]) : n \in {m \in 1..room : m <= Avail}}
          \/ r = Got(<<>>) \/ r = Error
    BY <1>1 DEF Reads, Connected
  <2>2. CASE r = Got(<<>>) \/ r = Error
    <3>1. <<>> \in Seq(Nat) /\ Len(<<>>) = 0
      OBVIOUS
    <3>2. r.bytes = <<>> /\ r.ok \in BOOLEAN
      BY <2>2, BytesOf
    <3> QED BY <3>1, <3>2, <1>1, <1>0
  <2>3. CASE r \in {Got([i \in 1..n |-> stream.taken + i]) : n \in {m \in 1..room : m <= Avail}}
    <3>1. PICK n \in 1..room : n <= Avail /\ r = Got([i \in 1..n |-> stream.taken + i])
      BY <2>3
    <3>2. n \in Nat
      OBVIOUS
    <3>3. [i \in 1..n |-> stream.taken + i] \in Seq(Nat)
            /\ Len([i \in 1..n |-> stream.taken + i]) = n
      BY <3>2, <1>0
    <3> QED BY <3>1, <3>2, <3>3, <1>0, <1>1 DEF Got
  <2> QED BY <2>1, <2>2, <2>3
<1>2. CASE Kind = "foreign"
  <2>1. Kind \notin Connected
    BY <1>2 DEF Connected
  <2>2. r \in {Got(<<>>), Error, Got(<<0>>)}
    BY <1>2, <2>1 DEF Reads
  <2>3. <<>> \in Seq(Nat) /\ <<0>> \in Seq(Nat)
    OBVIOUS
  <2>4. r.ok \in BOOLEAN /\ (r.bytes = <<>> \/ r.bytes = <<0>>)
    BY <2>2, BytesOf
  <2> QED BY <1>2, <2>1, <2>3, <2>4
<1>3. CASE Kind \notin Connected /\ Kind # "foreign"
  <2>1. r = Error
    BY <1>3 DEF Reads
  <2>2. <<>> \in Seq(Nat) /\ r.bytes = <<>> /\ r.ok = FALSE
    BY <2>1 DEF Error
  <2> QED BY <1>3, <2>2
<1> QED BY <1>1, <1>2, <1>3

\* A record with the fields of call.
Rec(o, p, w, l, d, f, k) == [op |-> o, phase |-> p, want |-> w, left |-> l,
                             data |-> d, from |-> f, on |-> k]

\* What the changes of a step make of it.
LEMMA Fields ==
  ASSUME NEW c, c = Rec(c.op, c.phase, c.want, c.left, c.data, c.from, c.on)
  PROVE  /\ Done(c) = Rec(c.op, "returned", c.want, c.left, c.data, c.from, c.on)
         /\ Failed(c) = Rec(c.op, "threw", c.want, c.left, c.data, c.from, c.on)
         /\ \A d : With(c, d) = Rec(c.op, c.phase, c.want, c.left, d, c.from, Kind)
         /\ \A x : [c EXCEPT !.left = x] = Rec(c.op, c.phase, c.want, x, c.data, c.from, c.on)
<1>1. Done(c) = Rec(c.op, "returned", c.want, c.left, c.data, c.from, c.on)
  BY DEF Done, Rec
<1>2. Failed(c) = Rec(c.op, "threw", c.want, c.left, c.data, c.from, c.on)
  BY DEF Failed, Rec
<1>3. ASSUME NEW d PROVE With(c, d) = Rec(c.op, c.phase, c.want, c.left, d, c.from, Kind)
  <2>1. [c EXCEPT !.data = d] = Rec(c.op, c.phase, c.want, c.left, d, c.from, c.on)
    BY DEF Rec
  <2>2. [Rec(c.op, c.phase, c.want, c.left, d, c.from, c.on) EXCEPT !.on = Kind]
          = Rec(c.op, c.phase, c.want, c.left, d, c.from, Kind)
    BY DEF Rec
  <2> QED BY <2>1, <2>2 DEF With
<1>4. ASSUME NEW x
      PROVE  [c EXCEPT !.left = x] = Rec(c.op, c.phase, c.want, x, c.data, c.from, c.on)
  BY DEF Rec
<1> QED BY <1>1, <1>2, <1>3, <1>4

LEMMA BeginFields ==
  ASSUME NEW o, NEW n
  PROVE  Begin(o, n) = Rec(o, IF Refused THEN "threw" ELSE "running", n, n, <<>>,
                           stream.taken, "none")
<1>1. NoCall = Rec("none", "idle", 0, 0, <<>>, 0, "none")
  BY DEF NoCall, Rec
<1>2. ASSUME NEW p, NEW f
      PROVE  [NoCall EXCEPT !.op = o, !.want = n, !.left = n, !.from = f, !.phase = p]
               = Rec(o, p, n, n, <<>>, f, "none")
  <2>1. [NoCall EXCEPT !.op = o] = Rec(o, "idle", 0, 0, <<>>, 0, "none")
    BY <1>1 DEF Rec
  <2>2. [Rec(o, "idle", 0, 0, <<>>, 0, "none") EXCEPT !.want = n]
          = Rec(o, "idle", n, 0, <<>>, 0, "none")
    BY DEF Rec
  <2>3. [Rec(o, "idle", n, 0, <<>>, 0, "none") EXCEPT !.left = n]
          = Rec(o, "idle", n, n, <<>>, 0, "none")
    BY DEF Rec
  <2>4. [Rec(o, "idle", n, n, <<>>, 0, "none") EXCEPT !.from = f]
          = Rec(o, "idle", n, n, <<>>, f, "none")
    BY DEF Rec
  <2>5. [Rec(o, "idle", n, n, <<>>, f, "none") EXCEPT !.phase = p]
          = Rec(o, p, n, n, <<>>, f, "none")
    BY DEF Rec
  <2>6. [NoCall EXCEPT !.op = o, !.want = n] = Rec(o, "idle", n, 0, <<>>, 0, "none")
    BY <2>1, <2>2
  <2>7. [NoCall EXCEPT !.op = o, !.want = n, !.left = n] = Rec(o, "idle", n, n, <<>>, 0, "none")
    BY <2>6, <2>3
  <2>8. [NoCall EXCEPT !.op = o, !.want = n, !.left = n, !.from = f]
          = Rec(o, "idle", n, n, <<>>, f, "none")
    BY <2>7, <2>4
  <2> QED BY <2>8, <2>5
<1> QED BY <1>2 DEF Begin

\* The part of TypeOK that is about call.
CallTyped == /\ call.op \in {"none", "Recv", "Recv_n", "RecvMessage", "Send"}
             /\ call.phase \in {"idle", "running", "returned", "threw"}
             /\ call.on \in Files \cup {"none"} /\ call.left \in 0..MaxWant
CallOK == CallTyped /\ CallShape /\ TestStillHolds /\ TransfersOnOwn

\* Init establishes the invariant.
LEMMA InitIInv == Init => IInv
<1> SUFFICES ASSUME Init PROVE IInv
  OBVIOUS
<1>1. TypeOK
  <2>1. file \in [Fds -> Files]
    BY DEF Init, Files
  <2>2. stream \in [sent : 0..MaxSent, taken : 0..MaxSent, end : {"open", "eof", "reset"}]
    BY SocketAssumption DEF Init, Fresh
  <2>3. /\ call.op = "none" /\ call.phase = "idle" /\ call.on = "none" /\ call.left = 0
    BY DEF Init, NoCall
  <2>4. copy \in {"soar", "sample"} /\ sockfd_ \in Fds /\ status_ \in Statuses
    BY SocketAssumption DEF Init, Fds, Statuses
  <2>5. alive \in BOOLEAN /\ handed \in BOOLEAN /\ nonblock \in BOOLEAN
    BY DEF Init
  <2>6. call.left \in 0..MaxWant
    BY <2>3, SocketAssumption
  <2> QED BY <2>1, <2>2, <2>3, <2>4, <2>5, <2>6 DEF TypeOK
<1>2. CallShape /\ StreamBounded /\ NamesOwn /\ ConnIsConn /\ TestStillHolds /\ TransfersOnOwn
  BY DEF Init, CallShape, StreamBounded, NamesOwn, ConnIsConn, TestStillHolds, TransfersOnOwn,
         NoCall, Fresh
<1> QED BY <1>1, <1>2 DEF IInv

-----------------------------------------------------------------------------
\* A step that leaves no transfer behind, or goes on with the one there is.
LEMMA NoCallOK == call' = NoCall => CallOK'
<1> SUFFICES ASSUME call' = NoCall PROVE CallOK'
  OBVIOUS
<1>1. /\ call'.op = "none" /\ call'.phase = "idle" /\ call'.on = "none" /\ call'.left = 0
  BY DEF NoCall
<1>2. CallTyped'
  BY <1>1, SocketAssumption DEF CallTyped
<1>3. CallShape'
  BY <1>1 DEF CallShape, NoCall
<1>4. TestStillHolds' /\ TransfersOnOwn'
  BY <1>1 DEF TestStillHolds, TransfersOnOwn
<1> QED BY <1>2, <1>3, <1>4 DEF CallOK

LEMMA StillRunningOK ==
  ASSUME CallOK, StillRunning, UNCHANGED <<copy, status_, sockfd_>>
  PROVE  CallOK'
<1>1. CASE call' = NoCall
  BY <1>1, NoCallOK
<1>2. CASE call' = call
  BY <1>2 DEF CallOK, CallTyped, CallShape, TestStillHolds, TransfersOnOwn
<1> QED BY <1>1, <1>2 DEF StillRunning

StreamOK == /\ stream \in [sent : 0..MaxSent, taken : 0..MaxSent, end : {"open", "eof", "reset"}]
            /\ StreamBounded

\* A stream just made, and one that another connection has.
LEMMA FreshOK == stream' = Fresh => StreamOK'
BY SocketAssumption DEF Fresh, StreamOK, StreamBounded

LEMMA StreamsOK == stream' \in Streams => StreamOK'
BY DEF Streams, StreamOK, StreamBounded

\* A step that leaves no transfer behind.
LEMMA QuietOK ==
  ASSUME call' = NoCall, copy' \in {"soar", "sample"}, sockfd_' \in Fds \cup {-1},
         status_' \in Statuses, alive' \in BOOLEAN, handed' \in BOOLEAN, nonblock' \in BOOLEAN,
         file' \in [Fds -> Files], StreamOK', NamesOwn', ConnIsConn'
  PROVE  IInv'
<1>1. CallOK'
  BY NoCallOK
<1>2. TypeOK'
  BY <1>1 DEF TypeOK, CallOK, CallTyped, StreamOK
<1> QED BY <1>1, <1>2 DEF IInv, CallOK, StreamOK

\* A step that gives the object a new file k, with the number d and the status s.
LEMMA NamesOK ==
  ASSUME IInv, NEW d \in Fds, NEW k \in Own, NEW s \in Statuses, s = "CONN" => k = "conn",
         Names(d, k, s), call' = NoCall, alive' \in BOOLEAN, UNCHANGED copy
  PROVE  IInv'
<1>1. file' \in [Fds -> Files] /\ file'[d] = k
  BY DEF IInv, TypeOK, Names, Own, Connected, Files
<1>2. stream' = Fresh /\ sockfd_' = d /\ status_' = s /\ nonblock' = FALSE /\ handed' = FALSE
  BY DEF Names
<1>3. NamesOwn' /\ ConnIsConn'
  BY <1>1, <1>2 DEF NamesOwn, ConnIsConn
<1> QED BY <1>1, <1>2, <1>3, FreshOK, QuietOK DEF IInv, TypeOK

\* A step that gives it a number as it is.
LEMMA TakesOK ==
  ASSUME IInv, NEW d \in Fds \cup {-1}, Takes(d), status_' \in Statuses, handed' \in BOOLEAN,
         d \in Fds \ {0} => status_' = "CREATE" /\ (~handed' => file[d] \in Own),
         call' = NoCall, alive' \in BOOLEAN, UNCHANGED copy
  PROVE  IInv'
<1>1. file' \in [Fds -> Files] /\ sockfd_' = d /\ UNCHANGED file
  BY DEF IInv, TypeOK, Takes
<1>2. StreamOK' /\ nonblock' \in BOOLEAN
  <2>1. CASE d = sockfd_
    BY <2>1 DEF IInv, TypeOK, Takes, StreamOK, StreamBounded
  <2>2. CASE d # sockfd_
    <3>1. (stream' \in Streams \/ stream' = Fresh) /\ nonblock' \in BOOLEAN
      BY <2>2 DEF Takes
    <3> QED BY <3>1, FreshOK, StreamsOK
  <2> QED BY <2>1, <2>2
<1>3. NamesOwn' /\ ConnIsConn'
  BY <1>1 DEF NamesOwn, ConnIsConn
<1> QED BY <1>1, <1>2, <1>3, QuietOK DEF IInv, TypeOK

\* A step that only moves data.
LEMMA TransferOK ==
  ASSUME IInv, UNCHANGED <<object, file>>, nonblock' \in BOOLEAN, CallOK',
         stream' \in [sent : 0..MaxSent, taken : 0..MaxSent, end : {"open", "eof", "reset"}],
         StreamBounded'
  PROVE  IInv'
<1>1. TypeOK'
  BY DEF IInv, TypeOK, CallOK, CallTyped, object
<1>2. NamesOwn' /\ ConnIsConn'
  BY DEF IInv, NamesOwn, ConnIsConn, object
<1> QED BY <1>1, <1>2 DEF IInv, CallOK

\* Close and the destructor.
LEMMA CloseOK ==
  ASSUME IInv, file' = AfterClose(sockfd_), status_' = StatusAfterClose, alive' \in BOOLEAN,
         nonblock' = FALSE, stream' = Fresh, call' = NoCall, UNCHANGED <<copy, sockfd_, handed>>
  PROVE  IInv'
<1>1. file' \in [Fds -> Files]
  BY DEF IInv, TypeOK, AfterClose, Files
<1>2. NamesOwn' /\ ConnIsConn' /\ status_' \in Statuses
  BY DEF NamesOwn, ConnIsConn, StatusAfterClose, Statuses
<1> QED BY <1>1, <1>2, FreshOK, QuietOK DEF IInv, TypeOK
-----------------------------------------------------------------------------
Ops == {"none", "Recv", "Recv_n", "RecvMessage", "Send"}
Phases == {"idle", "running", "returned", "threw"}
\* A step that sets call to a record of the right kind.
LEMMA CallIs ==
  ASSUME NEW o \in Ops, NEW p \in Phases, NEW w, NEW l \in 0..MaxWant, NEW d, NEW f,
         NEW k \in Files \cup {"none"},
         call' = Rec(o, p, w, l, d, f, k),
         o = "Recv_n" => w \in Nat /\ d \in Seq(Nat),
         copy = "soar" => k \in {"none", "conn"},
         copy = "soar" /\ p = "running" => status_ = "CONN" /\ sockfd_ # 0,
         UNCHANGED <<copy, status_, sockfd_>>
  PROVE  CallOK'
<1>1. /\ call'.op = o /\ call'.phase = p /\ call'.want = w /\ call'.left = l
      /\ call'.data = d /\ call'.from = f /\ call'.on = k
  BY DEF Rec
<1>2. CallTyped'
  BY <1>1 DEF CallTyped, Ops, Phases
<1>3. CallShape'
  BY <1>1 DEF CallShape, Rec
<1>4. TestStillHolds' /\ TransfersOnOwn'
  BY <1>1 DEF TestStillHolds, TransfersOnOwn
<1> QED BY <1>2, <1>3, <1>4 DEF CallOK

\* The file a transfer of soar/ that passed the test moves data on.
LEMMA SoarKind ==
  ASSUME IInv, copy = "soar", status_ = "CONN", sockfd_ # 0,
         Kind \in Connected \cup {"foreign"}
  PROVE  Kind = "conn"
BY DEF IInv, ConnIsConn, Kind, KindOf, Connected

LEMMA KindIsFile == IInv => Kind \in Files
BY DEF IInv, TypeOK, Kind, KindOf, Files

\* A read takes no more from the stream than was sent.
LEMMA TookOK ==
  ASSUME IInv, NEW room \in Int, NEW r \in Reads(room), Took(r)
  PROVE  StreamOK'
<1>1. Kind \in Connected => Len(r.bytes) \in 0..Avail
  BY ReadOutcome DEF IInv
<1>2. CASE Kind \in Connected
  <2>1. PICK n \in 0..Avail : n = Len(r.bytes)
    BY <1>1, <1>2
  <2>2. stream' = [stream EXCEPT !.taken = @ + n]
    BY <1>2, <2>1 DEF Took
  <2>3. stream.sent \in 0..MaxSent /\ stream.taken \in 0..MaxSent
    BY DEF IInv, TypeOK
  <2>4. stream.taken + n \in 0..stream.sent
    BY <2>1, <2>3, SocketAssumption DEF Avail, IInv, StreamBounded
  <2> QED BY <2>2, <2>3, <2>4, SocketAssumption DEF IInv, TypeOK, StreamBounded, StreamOK
<1>3. CASE Kind \notin Connected
  BY <1>3 DEF Took, IInv, TypeOK, StreamBounded, StreamOK
<1> QED BY <1>2, <1>3

\* A transfer begins.
LEMMA BeginOK ==
  ASSUME IInv, NEW o \in Ops, NEW n \in 0..MaxWant, call' = Begin(o, n),
         UNCHANGED <<copy, status_, sockfd_>>
  PROVE  CallOK'
<1> DEFINE p == IF Refused THEN "threw" ELSE "running"
<1>1. p \in Phases /\ (copy = "soar" /\ p = "running" => status_ = "CONN" /\ sockfd_ # 0)
  BY DEF Refused, Phases
<1>2. call' = Rec(o, p, n, n, <<>>, stream.taken, "none")
  BY BeginFields
<1>3. n \in Nat /\ <<>> \in Seq(Nat)
  BY SocketAssumption
<1> HIDE DEF p
<1> QED BY <1>1, <1>2, <1>3, CallIs

\* The whole of Recv.
LEMMA RecvOK ==
  ASSUME IInv, Recv
  PROVE  CallOK' /\ StreamOK'
<1>1. PICK n \in 1..MaxWant :
        \/ call' = Begin("Recv", n) /\ UNCHANGED stream
        \/ /\ ~Refused
           /\ \E r \in Reads(n) :
                /\ Took(r)
                /\ call' = IF r.ok THEN Done(With(Begin("Recv", n), r.bytes))
                                   ELSE Failed(Begin("Recv", n))
        \/ call' = Failed(Begin("Recv", n)) /\ UNCHANGED stream
  BY DEF Recv
<1>2. UNCHANGED <<copy, status_, sockfd_>>
  BY DEF Recv, object
<1>3. n \in 0..MaxWant /\ n \in Int /\ "Recv" \in Ops
  BY SocketAssumption DEF Ops
<1>4. UNCHANGED stream => StreamOK'
  BY DEF IInv, TypeOK, StreamBounded, StreamOK
<1> DEFINE b == Begin("Recv", n)
<1>5. PICK q : b = Rec("Recv", q, n, n, <<>>, stream.taken, "none")
  BY BeginFields
<1>6. /\ b.op = "Recv" /\ b.phase = q /\ b.want = n /\ b.left = n /\ b.data = <<>>
      /\ b.from = stream.taken /\ b.on = "none"
  BY <1>5 DEF Rec
<1>7. b = Rec(b.op, b.phase, b.want, b.left, b.data, b.from, b.on)
  BY <1>5, <1>6
<1>8. Failed(b) = Rec("Recv", "threw", n, n, <<>>, stream.taken, "none")
  BY <1>6, <1>7, Fields
<1>9. call' = Failed(b) => CallOK'
  BY <1>2, <1>3, <1>8, CallIs DEF Phases
<1>10. CASE call' = Begin("Recv", n) /\ UNCHANGED stream
  BY <1>2, <1>3, <1>4, <1>10, BeginOK
<1>11. CASE call' = Failed(b) /\ UNCHANGED stream
  BY <1>4, <1>9, <1>11
<1>12. ASSUME ~Refused, NEW r \in Reads(n), Took(r),
              call' = IF r.ok THEN Done(With(b, r.bytes)) ELSE Failed(b)
       PROVE  CallOK' /\ StreamOK'
  <2>1. StreamOK'
    BY <1>3, <1>12, TookOK
  <2>2. CASE ~r.ok
    BY <1>9, <1>12, <2>1, <2>2
  <2>3. CASE r.ok
    <3>1. Kind \in Connected \cup {"foreign"}
      BY <1>3, <1>12, <2>3, ReadOutcome DEF IInv
    <3>2. copy = "soar" => Kind = "conn"
      BY <1>12, <3>1, SoarKind DEF Refused
    <3>3. With(b, r.bytes) = Rec("Recv", q, n, n, r.bytes, stream.taken, Kind)
      BY <1>6, <1>7, Fields
    <3> DEFINE c == With(b, r.bytes)
    <3>4. /\ c.op = "Recv" /\ c.phase = q /\ c.want = n /\ c.left = n /\ c.data = r.bytes
          /\ c.from = stream.taken /\ c.on = Kind
      BY <3>3 DEF Rec
    <3>5. c = Rec(c.op, c.phase, c.want, c.left, c.data, c.from, c.on)
      BY <3>3, <3>4
    <3>6. Done(c) = Rec("Recv", "returned", n, n, r.bytes, stream.taken, Kind)
      BY <3>4, <3>5, Fields
    <3>7. call' = Rec("Recv", "returned", n, n, r.bytes, stream.taken, Kind)
      BY <1>12, <2>3, <3>6
    <3> QED BY <1>2, <1>3, <2>1, <3>2, <3>7, KindIsFile, CallIs DEF Phases
  <2> QED BY <2>2, <2>3
<1> QED BY <1>1, <1>10, <1>11, <1>12

\* The fields of the transfer that is under way.
LEMMA CallFields ==
  ASSUME IInv
  PROVE  /\ call = Rec(call.op, call.phase, call.want, call.left, call.data, call.from, call.on)
         /\ call.op \in Ops /\ call.left \in 0..MaxWant /\ call.on \in Files \cup {"none"}
         /\ copy = "soar" => call.on \in {"none", "conn"}
<1>1. call = Rec(call.op, call.phase, call.want, call.left, call.data, call.from, call.on)
  BY DEF IInv, CallShape, Rec
<1> QED BY <1>1 DEF IInv, TypeOK, Ops, TransfersOnOwn

\* A transfer that ends, or fails.
LEMMA EndOK ==
  ASSUME IInv, call' = Done(call) \/ call' = Failed(call), UNCHANGED <<copy, status_, sockfd_>>
  PROVE  CallOK'
<1>1. PICK p \in {"returned", "threw"} :
        call' = Rec(call.op, p, call.want, call.left, call.data, call.from, call.on)
  BY CallFields, Fields
<1>2. p \in Phases /\ p # "running"
  BY DEF Phases
<1>3. call.op = "Recv_n" => call.want \in Nat /\ call.data \in Seq(Nat)
  BY DEF IInv, CallShape
<1> QED BY <1>1, <1>2, <1>3, CallFields, CallIs

\* A transfer that moved data and goes on.
LEMMA GoesOnOK ==
  ASSUME IInv, call.phase = "running", NEW d,
         Kind \in Connected \cup {"foreign"},
         call' = Rec(call.op, "running", call.want, call.left, d, call.from, Kind),
         call.op = "Recv_n" => d \in Seq(Nat),
         UNCHANGED <<copy, status_, sockfd_>>
  PROVE  CallOK'
<1>1. copy = "soar" => status_ = "CONN" /\ sockfd_ # 0
  BY DEF IInv, TestStillHolds
<1>2. copy = "soar" => Kind = "conn"
  BY <1>1, SoarKind
<1>3. "running" \in Phases
  BY DEF Phases
<1>4. call.op = "Recv_n" => call.want \in Nat
  BY DEF IInv, CallShape
<1> QED BY <1>1, <1>2, <1>3, <1>4, CallFields, KindIsFile, CallIs

LEMMA Recv_nOK ==
  ASSUME IInv, Recv_n
  PROVE  CallOK' /\ StreamOK'
<1>1. /\ call.op = "Recv_n" /\ call.phase = "running" /\ UNCHANGED <<copy, status_, sockfd_>>
      /\ call.want \in Nat /\ call.data \in Seq(Nat)
  BY DEF Recv_n, Running, IInv, CallShape, object
<1>2. UNCHANGED stream => StreamOK'
  BY DEF IInv, TypeOK, StreamBounded, StreamOK
<1>3. CASE call' = Done(call) /\ UNCHANGED stream
  BY <1>1, <1>2, <1>3, EndOK
<1>4. ASSUME NEW r \in Reads(call.want - Len(call.data)), Took(r),
             call' = IF r.ok THEN With(call, Gathered(call.data, r.bytes)) ELSE Failed(call)
      PROVE  CallOK' /\ StreamOK'
  <2>1. call.want - Len(call.data) \in Int
    BY <1>1
  <2>2. StreamOK'
    BY <1>4, <2>1, TookOK
  <2>3. CASE ~r.ok
    BY <1>1, <1>4, <2>2, <2>3, EndOK
  <2>4. CASE r.ok
    <3>1. Kind \in Connected \cup {"foreign"} /\ r.bytes \in Seq(Nat)
      BY <1>4, <2>1, <2>4, ReadOutcome DEF IInv
    <3>2. Gathered(call.data, r.bytes) \in Seq(Nat)
      BY <1>1, <3>1 DEF Gathered
    <3>3. call' = Rec(call.op, "running", call.want, call.left,
                      Gathered(call.data, r.bytes), call.from, Kind)
      BY <1>1, <1>4, <2>4, CallFields, Fields
    <3> QED BY <1>1, <2>2, <3>1, <3>2, <3>3, GoesOnOK
  <2> QED BY <2>3, <2>4
<1> QED BY <1>3, <1>4 DEF Recv_n

LEMMA RecvMessageOK ==
  ASSUME IInv, RecvMessage
  PROVE  CallOK' /\ StreamOK'
<1>1. call.op = "RecvMessage" /\ call.phase = "running" /\ UNCHANGED <<copy, status_, sockfd_>>
  BY DEF RecvMessage, Running, object
<1>2. PICK r \in Reads(BufLen) :
        /\ Took(r)
        /\ call' = CASE ~r.ok -> Failed(call)
                     [] r.ok /\ r.bytes = <<>> -> Done(call)
                     [] OTHER -> With(call, Gathered(call.data, AsCString(r.bytes)))
  BY DEF RecvMessage
<1>3. BufLen \in Int
  BY SocketAssumption
<1>4. StreamOK'
  BY <1>2, <1>3, TookOK
<1>5. r.ok \in BOOLEAN /\ (r.ok => Kind \in Connected \cup {"foreign"})
  BY <1>3, ReadOutcome DEF IInv
<1>6. CASE ~r.ok \/ r.bytes = <<>>
  <2>1. call' = Done(call) \/ call' = Failed(call)
    BY <1>2, <1>5, <1>6
  <2> QED BY <1>1, <1>4, <2>1, EndOK
<1>7. CASE r.ok /\ r.bytes # <<>>
  <2>1. call' = With(call, Gathered(call.data, AsCString(r.bytes)))
    BY <1>2, <1>7
  <2>2. call' = Rec(call.op, "running", call.want, call.left,
                    Gathered(call.data, AsCString(r.bytes)), call.from, Kind)
    BY <1>1, <2>1, CallFields, Fields
  <2>3. call.op # "Recv_n"
    BY <1>1
  <2> HIDE DEF AsCString
  <2> QED BY <1>1, <1>4, <1>5, <1>7, <2>2, <2>3, GoesOnOK
<1> QED BY <1>6, <1>7

LEMMA SendOK ==
  ASSUME IInv, Send
  PROVE  CallOK'
<1>1. call.op = "Send" /\ call.phase = "running" /\ UNCHANGED <<copy, status_, sockfd_>>
  BY DEF Send, Running, object
<1>2. CASE call' = Done(call) \/ call' = Failed(call)
  BY <1>1, <1>2, EndOK
<1>3. ASSUME NEW d, NEW n, Kind \in Connected \cup {"foreign"},
             call' = [With(call, d) EXCEPT !.left = Advance(@, n)]
      PROVE  CallOK'
  <2> DEFINE c == With(call, d)
  <2>1. c = Rec(call.op, "running", call.want, call.left, d, call.from, Kind)
    BY <1>1, CallFields, Fields
  <2>2. /\ c.op = call.op /\ c.phase = "running" /\ c.want = call.want /\ c.left = call.left
        /\ c.data = d /\ c.from = call.from /\ c.on = Kind
    BY <2>1 DEF Rec
  <2>3. c = Rec(c.op, c.phase, c.want, c.left, c.data, c.from, c.on)
    BY <2>1, <2>2
  <2>4. call' = [c EXCEPT !.left = c.left]
    BY <1>3 DEF Advance
  <2>5. [c EXCEPT !.left = c.left] = Rec(c.op, c.phase, c.want, c.left, c.data, c.from, c.on)
    BY <2>3, Fields
  <2>6. call' = Rec(call.op, "running", call.want, call.left, d, call.from, Kind)
    BY <2>2, <2>4, <2>5
  <2> QED BY <1>1, <1>3, <2>6, GoesOnOK
<1> QED BY <1>2, <1>3 DEF Send
-----------------------------------------------------------------------------
\* Every step keeps the invariant.
LEMMA StepIInv == IInv /\ [Next]_vars => IInv'
<1> SUFFICES ASSUME IInv, [Next]_vars PROVE IInv'
  OBVIOUS
<1> USE SocketAssumption
<1>0. 0 \in Fds \cup {-1} /\ {"INIT", "CREATE", "LISTENING", "CONN", "CLOSE"} \subseteq Statuses
        /\ {"free", "foreign", "sock", "listen", "conn", "accepted"} \subseteq Files
        /\ {"sock", "listen", "conn", "accepted"} \subseteq Own
        /\ copy \in {"soar", "sample"} /\ sockfd_ \in Fds \cup {-1}
        /\ status_ \in Statuses /\ file \in [Fds -> Files] /\ alive \in BOOLEAN
        /\ nonblock \in BOOLEAN /\ handed \in BOOLEAN
  BY DEF Fds, Statuses, Files, Own, Connected, IInv, TypeOK
<1>1. CallOK /\ StreamOK
  BY DEF IInv, TypeOK, CallOK, CallTyped, StreamOK
<1>2. ASSUME Construct PROVE IInv'
  <2>1. Takes(0) /\ call' = NoCall /\ alive' \in BOOLEAN /\ UNCHANGED copy
          /\ status_' \in Statuses /\ handed' \in BOOLEAN
    BY <1>0, <1>2 DEF Construct
  <2> QED BY <1>0, <2>1, TakesOK
<1>3. ASSUME Given, call' = NoCall, alive' \in BOOLEAN, UNCHANGED copy PROVE IInv'
  <2>1. ASSUME NEW d \in Fds, Names(d, "accepted", "CREATE") PROVE IInv'
    BY <1>0, <1>3, <2>1, NamesOK
  <2>2. ASSUME NEW d \in Fds \cup {-1}, Takes(d), status_' = "CREATE",
               handed' = (KindOf(d) \notin Own)
        PROVE  IInv'
    <3>1. status_' \in Statuses /\ handed' \in BOOLEAN
      BY <1>0, <2>2
    <3>2. d \in Fds /\ ~handed' => file[d] \in Own
      BY <2>2 DEF KindOf
    <3> QED BY <1>3, <2>2, <3>1, <3>2, TakesOK
  <2> QED BY <1>3, <2>1, <2>2 DEF Given
<1>4. ASSUME ConstructTo PROVE IInv'
  <2>1. alive' \in BOOLEAN /\ call' = NoCall /\ UNCHANGED copy
    BY <1>4 DEF ConstructTo
  <2>2. ASSUME NEW d \in Fds, Names(d, "sock", "CREATE") PROVE IInv'
    BY <1>0, <2>1, <2>2, NamesOK
  <2>3. ASSUME Takes(0), status_' \in Statuses, handed' = FALSE PROVE IInv'
    <3>1. handed' \in BOOLEAN
      BY <2>3
    <3> QED BY <1>0, <2>1, <2>3, <3>1, TakesOK
  <2> QED BY <1>4, <2>2, <2>3 DEF ConstructTo
<1>5. ASSUME NEW s \in Statuses, NoSocket(s), call' = NoCall, alive' \in BOOLEAN, UNCHANGED copy
      PROVE  IInv'
  <2>1. /\ sockfd_' = -1 /\ status_' = s /\ handed' = FALSE /\ nonblock' = FALSE
        /\ stream' = Fresh /\ UNCHANGED file
    BY <1>5 DEF NoSocket
  <2>2. -1 \notin Fds
    BY DEF Fds
  <2>3. NamesOwn' /\ ConnIsConn'
    BY <2>1, <2>2 DEF NamesOwn, ConnIsConn
  <2> QED BY <1>0, <1>5, <2>1, <2>3, FreshOK, QuietOK
<1>6. ASSUME ListenAndBind PROVE IInv'
  <2>1. alive' \in BOOLEAN /\ UNCHANGED copy /\ call' = NoCall
    BY <1>0, <1>6 DEF ListenAndBind
  <2>2. ASSUME NEW d \in Fds, Names(d, "sock", "INIT") \/ Names(d, "listen", "LISTENING")
        PROVE  IInv'
    BY <1>0, <2>1, <2>2, NamesOK
  <2> QED BY <1>0, <1>5, <1>6, <2>1, <2>2 DEF ListenAndBind
<1>7. ASSUME ConnectTo PROVE IInv'
  <2>1. alive' \in BOOLEAN /\ UNCHANGED copy /\ call' = NoCall
    BY <1>0, <1>7 DEF ConnectTo
  <2>2. ASSUME NEW d \in Fds, Names(d, "sock", "CREATE") \/ Names(d, "conn", "CONN")
        PROVE  IInv'
    BY <1>0, <2>1, <2>2, NamesOK
  <2> QED BY <1>0, <1>5, <1>7, <2>1, <2>2 DEF ConnectTo
<1>8. ASSUME ConnectNowhere PROVE IInv'
  <2>1. alive' \in BOOLEAN /\ UNCHANGED copy /\ call' = NoCall /\ handed' \in BOOLEAN
    BY <1>0, <1>8 DEF ConnectNowhere
  <2>2. CASE Takes(0) /\ UNCHANGED status_
    BY <1>0, <2>1, <2>2, TakesOK
  <2>3. ASSUME sockfd_' = 0, status_' = "CONN", file' = [file EXCEPT ![0] = "conn"],
               stream' = Fresh, nonblock' \in IF sockfd_ = 0 THEN {nonblock} ELSE BOOLEAN
        PROVE  IInv'
    <3>1. file' \in [Fds -> Files] /\ nonblock' \in BOOLEAN
      BY <1>0, <2>3
    <3>2. NamesOwn' /\ ConnIsConn'
      BY <2>3 DEF NamesOwn, ConnIsConn
    <3> QED BY <1>0, <2>1, <2>3, <3>1, <3>2, FreshOK, QuietOK
  <2> QED BY <1>8, <2>2, <2>3 DEF ConnectNowhere
<1>9. ASSUME Connect PROVE IInv'
  <2>1. call' = NoCall /\ UNCHANGED <<copy, sockfd_, alive, handed, nonblock>>
    BY <1>9 DEF Connect
  <2>2. ASSUME sockfd_ # 0, Connectable(sockfd_), status_' = "CONN",
               file' = [file EXCEPT ![sockfd_] = "conn"], stream' = Fresh
        PROVE  IInv'
    <3>1. sockfd_ \in Fds
      BY <2>2 DEF Connectable, KindOf
    <3>2. file' \in [Fds -> Files] /\ file'[sockfd_] = "conn"
      BY <1>0, <2>2, <3>1
    <3>3. NamesOwn' /\ ConnIsConn'
      BY <1>0, <2>1, <3>2 DEF NamesOwn, ConnIsConn
    <3> QED BY <1>0, <2>1, <2>2, <3>2, <3>3, FreshOK, QuietOK
  <2>3. CASE UNCHANGED <<file, status_, stream>>
    <3>1. StreamOK' /\ NamesOwn' /\ ConnIsConn'
      BY <1>1, <2>1, <2>3 DEF StreamOK, StreamBounded, IInv, NamesOwn, ConnIsConn
    <3> QED BY <1>0, <2>1, <2>3, <3>1, QuietOK
  <2> QED BY <1>9, <2>2, <2>3 DEF Connect
<1>10. ASSUME SetNonBlocking \/ SetBlocking PROVE IInv'
  <2>1. call' = NoCall /\ nonblock' \in BOOLEAN
          /\ UNCHANGED <<object, file, stream>>
    BY <1>10 DEF SetNonBlocking, SetBlocking
  <2>2. StreamOK' /\ CallOK'
    BY <1>1, <2>1, NoCallOK DEF StreamOK, StreamBounded
  <2> QED BY <2>1, <2>2, TransferOK DEF StreamOK
<1>11. ASSUME Close \/ Destruct PROVE IInv'
  BY <1>0, <1>11, CloseOK DEF Close, Destruct
<1>12. ASSUME CallOK', StreamOK', UNCHANGED <<object, file, nonblock>>
       PROVE  IInv'
  BY <1>0, <1>12, TransferOK DEF StreamOK
<1>13. ASSUME Recv PROVE IInv'
  BY <1>12, <1>13, RecvOK DEF Recv
<1>14. ASSUME CallRecv_n \/ CallRecvMessage \/ CallSend PROVE IInv'
  <2>1. UNCHANGED <<object, file, nonblock, stream>>
    BY <1>14 DEF CallRecv_n, CallRecvMessage, CallSend
  <2>2. PICK o \in Ops, n \in 0..MaxWant : call' = Begin(o, n)
    BY <1>14 DEF CallRecv_n, CallRecvMessage, CallSend, Ops
  <2>3. CallOK'
    BY <2>1, <2>2, BeginOK DEF object
  <2> QED BY <1>1, <1>12, <2>1, <2>3 DEF StreamOK, StreamBounded
<1>15. ASSUME Recv_n PROVE IInv'
  BY <1>12, <1>15, Recv_nOK DEF Recv_n
<1>16. ASSUME RecvMessage PROVE IInv'
  BY <1>12, <1>16, RecvMessageOK DEF RecvMessage
<1>17. ASSUME Interrupted PROVE IInv'
  <2>1. call' = Failed(call) /\ UNCHANGED <<object, file, nonblock, stream>>
    BY <1>17 DEF Interrupted
  <2>2. CallOK'
    BY <2>1, EndOK DEF object
  <2> QED BY <1>1, <1>12, <2>1, <2>2 DEF StreamOK, StreamBounded
<1>18. ASSUME Send PROVE IInv'
  <2>1. UNCHANGED <<object, file, nonblock, stream>>
    BY <1>18 DEF Send
  <2> QED BY <1>1, <1>12, <1>18, <2>1, SendOK DEF StreamOK, StreamBounded
<1>19. ASSUME OtherOpens \/ OtherCloses PROVE IInv'
  <2>1. StillRunning /\ UNCHANGED <<copy, sockfd_, status_, alive, handed, stream>>
          /\ nonblock' \in BOOLEAN
    BY <1>0, <1>19 DEF OtherOpens, OtherCloses, object
  <2>2. CallOK'
    BY <1>1, <2>1, StillRunningOK
  <2>3. PICK d \in Fds, k \in {"free", "foreign"} :
          file[d] \in {"free", "foreign"} /\ file' = [file EXCEPT ![d] = k]
    BY <1>19 DEF OtherOpens, OtherCloses, Lowest
  <2>4. file' \in [Fds -> Files]
    BY <1>0, <2>3 DEF Files
  <2>5. TypeOK'
    BY <2>1, <2>2, <2>4 DEF IInv, TypeOK, CallOK, CallTyped
  <2>6. NamesOwn' /\ ConnIsConn'
    BY <1>0, <2>1, <2>3 DEF IInv, NamesOwn, ConnIsConn, Own, Connected
  <2> QED BY <2>1, <2>2, <2>5, <2>6 DEF IInv, CallOK, StreamBounded
<1>20. ASSUME PeerSends \/ PeerEnds PROVE IInv'
  <2>1. StillRunning /\ UNCHANGED <<object, file, nonblock>>
    BY <1>20 DEF PeerSends, PeerEnds
  <2>2. CallOK'
    BY <1>1, <2>1, StillRunningOK DEF object
  <2>3. StreamOK'
    BY <1>1, <1>20 DEF PeerSends, PeerEnds, StreamOK, StreamBounded
  <2> QED BY <1>12, <2>1, <2>2, <2>3
<1>21. CASE UNCHANGED vars
  <2>1. CallOK' /\ StreamOK'
    BY <1>1, <1>21 DEF vars, CallOK, CallTyped, CallShape, TestStillHolds, TransfersOnOwn,
                       StreamOK, StreamBounded
  <2> QED BY <1>12, <1>21, <2>1 DEF vars, object
<1>22. ASSUME Killed PROVE IInv'
  <2>1. /\ sockfd_' = 0 /\ status_' = "CLOSE" /\ alive' = FALSE /\ handed' = FALSE
        /\ file' \in [Fds -> {"free", "foreign"}]
        /\ nonblock' = FALSE /\ stream' = Fresh /\ call' = NoCall /\ UNCHANGED copy
    BY <1>22 DEF Killed
  <2>2. file' \in [Fds -> Files] /\ NamesOwn' /\ ConnIsConn'
    BY <2>1 DEF Files, NamesOwn, ConnIsConn
  <2> QED BY <1>0, <2>1, <2>2, FreshOK, QuietOK
<1>23. CASE Construct \/ ConstructFd \/ ConstructTo \/ set_fd \/ ListenAndBind
              \/ ConnectTo \/ ConnectNowhere \/ Connect
  BY <1>0, <1>2, <1>3, <1>4, <1>6, <1>7, <1>8, <1>9, <1>23 DEF ConstructFd, set_fd
<1>24. CASE Next /\ ~(Construct \/ ConstructFd \/ ConstructTo \/ set_fd \/ ListenAndBind
                        \/ ConnectTo \/ ConnectNowhere \/ Connect)
  BY <1>10, <1>11, <1>13, <1>14, <1>15, <1>16, <1>17, <1>18, <1>19, <1>20, <1>22, <1>24 DEF Next
<1> QED BY <1>21, <1>23, <1>24

\* The object, its transfer and the table keep their types: no read takes more
\* than was sent, and nleft stays within the length asked for.
THEOREM TypeCorrect == Spec => []TypeOK
<1>1. IInv => TypeOK
  BY DEF IInv
<1> QED BY <1>1, InitIInv, StepIInv, PTL DEF Spec

\* Close and the destructor of any object, in tables of any size, close no file of
\* somebody else, unless the object was closed before, has number 0, or was handed
\* the number of no file of its own.
THEOREM ClosesOwn == Spec => []AimsAtOwn
<1>1. IInv => AimsAtOwn
  BY DEF IInv, NamesOwn, AimsAtOwn, Kind, KindOf, Own, Connected
<1> QED BY <1>1, InitIInv, StepIInv, PTL DEF Spec

\* Send, Recv and Recv_n of soar/ move data on connections of Connect only.
THEOREM TransfersSafe == Spec => []TransfersOnOwn
<1>1. IInv => TransfersOnOwn
  BY DEF IInv
<1> QED BY <1>1, InitIInv, StepIInv, PTL DEF Spec
-----------------------------------------------------------------------------
(* The data a transfer on a connection has moved.                          *)

\* A transfer that has not failed, on a connection.
Going(op) == call.op = op /\ call.phase \in {"running", "returned"} /\ Kind \in Connected

\* Recv_n has what the stream holds from the place where it began, and no more
\* than it was asked for.
Recv_nInOrder == Going("Recv_n") =>
  /\ call.from \in Nat /\ Len(call.data) <= call.want
  /\ stream.taken = call.from + Len(call.data)
  /\ call.data = [i \in 1..Len(call.data) |-> call.from + i]
  /\ call.phase = "returned" => Len(call.data) = call.want

RecvInOrder == Going("Recv") /\ call.phase = "returned" =>
  \A i \in DOMAIN call.data : call.data[i] = call.from + i

\* So does RecvMessage as long as there was no '\0'; at its end nothing is left.
MessageInOrder == Going("RecvMessage") =>
  /\ call.from \in Nat /\ call.from <= stream.taken
  /\ Nuls \cap (call.from + 1)..stream.taken = {} =>
       call.data = [i \in 1..stream.taken - call.from |-> call.from + i]
  /\ call.phase = "returned" => stream.taken = stream.sent

OrderInv == Recv_nInOrder /\ RecvInOrder /\ MessageInOrder
-----------------------------------------------------------------------------
\* A read on a connection yields the next bytes of the stream, as many as asked
\* for at most, and none at all at the end only.
LEMMA ReadsNext ==
  ASSUME IInv, NEW room \in Nat, NEW r \in Reads(room), r.ok, Kind \in Connected
  PROVE  \E n \in 0..room : /\ r.bytes = [i \in 1..n |-> stream.taken + i]
                            /\ n <= Avail
                            /\ n = 0 => Avail = 0
<1>0. Avail \in Nat /\ stream.taken \in Nat
  BY SocketAssumption DEF IInv, TypeOK, StreamBounded, Avail
<1>1. \/ r \in {Got([i \in 1..n |-> stream.taken + i]) : n \in {m \in 1..room : m <= Avail}}
      \/ r = Got(<<>>) /\ Avail = 0
      \/ r = Error
  BY DEF Reads, Connected
<1>2. r # Error
  BY BytesOf
<1>3. CASE r = Got(<<>>) /\ Avail = 0
  <2>1. r.bytes = [i \in 1..0 |-> stream.taken + i]
    BY <1>3, BytesOf
  <2>2. 0 \in 0..room /\ 0 <= Avail
    BY <1>0
  <2> QED BY <1>3, <2>1, <2>2
<1>4. CASE r \in {Got([i \in 1..n |-> stream.taken + i]) : n \in {m \in 1..room : m <= Avail}}
  <2>1. PICK n \in 1..room : n <= Avail /\ r = Got([i \in 1..n |-> stream.taken + i])
    BY <1>4
  <2>2. r.bytes = [i \in 1..n |-> stream.taken + i]
    BY <2>1, BytesOf
  <2>3. n \in 0..room /\ n # 0
    OBVIOUS
  <2> QED BY <2>1, <2>2, <2>3
<1> QED BY <1>1, <1>2, <1>3, <1>4

\* Two pieces of the stream that follow one another make one.
LEMMA PiecesJoin ==
  ASSUME NEW f \in Nat, NEW k \in Nat, NEW n \in Nat
  PROVE  /\ [i \in 1..k |-> f + i] \in Seq(Nat) /\ Len([i \in 1..k |-> f + i]) = k
         /\ [i \in 1..k |-> f + i] \o [i \in 1..n |-> f + k + i] = [i \in 1..k + n |-> f + i]
<1> DEFINE s == [i \in 1..k |-> f + i]
           t == [i \in 1..n |-> f + k + i]
           u == [i \in 1..k + n |-> f + i]
<1>1. s \in Seq(Nat) /\ Len(s) = k /\ \A i \in 1..k : s[i] = f + i
  OBVIOUS
<1>2. t \in Seq(Nat) /\ Len(t) = n /\ \A i \in 1..n : t[i] = f + k + i
  OBVIOUS
<1>3. u \in Seq(Nat) /\ Len(u) = k + n /\ \A i \in 1..k + n : u[i] = f + i
  OBVIOUS
<1>4. /\ s \o t \in Seq(Nat) /\ Len(s \o t) = k + n
      /\ \A i \in 1..k + n : (s \o t)[i] = IF i <= k THEN s[i] ELSE t[i - k]
  <2> HIDE DEF s, t, u
  <2> QED BY <1>1, <1>2, ConcatProperties
<1>5. \A i \in 1..k + n : (s \o t)[i] = u[i]
  <2> SUFFICES ASSUME NEW i \in 1..k + n PROVE (s \o t)[i] = u[i]
    OBVIOUS
  <2> HIDE DEF s, t, u
  <2>1. CASE i <= k
    BY <1>1, <1>3, <1>4, <2>1
  <2>2. CASE ~(i <= k)
    <3>1. i - k \in 1..n
      BY <2>2
    <3>2. (s \o t)[i] = t[i - k]
      BY <1>4, <2>2
    <3>3. t[i - k] = f + k + (i - k)
      BY <1>2, <3>1
    <3> QED BY <1>3, <3>2, <3>3
  <2> QED BY <2>1, <2>2
<1>6. s \o t = u
  <2> HIDE DEF s, t, u
  <2>1. Len(s \o t) = Len(u) /\ s \o t \in Seq(Nat) /\ u \in Seq(Nat)
    BY <1>3, <1>4
  <2>2. \A i \in 1..Len(u) : (s \o t)[i] = u[i]
    BY <1>3, <1>5
  <2> QED BY <2>1, <2>2, SeqEqual
<1> QED BY <1>1, <1>6

\* No byte of a piece without '\0' is lost when it is appended as a C string.
LEMMA WholeString ==
  ASSUME NEW f \in Nat, NEW n \in Nat, Nuls \cap (f + 1)..(f + n) = {}
  PROVE  AsCString([i \in 1..n |-> f + i]) = [i \in 1..n |-> f + i]
<1> DEFINE b == [i \in 1..n |-> f + i]
           N == {i \in DOMAIN b : b[i] \in Nuls}
<1>1. b \in Seq(Nat) /\ Len(b) = n /\ DOMAIN b = 1..n /\ \A i \in 1..n : b[i] = f + i
  OBVIOUS
<1>2. N = {}
  <2>1. \A i \in 1..n : f + i \in (f + 1)..(f + n)
    OBVIOUS
  <2> QED BY <1>1, <2>1
<1> HIDE DEF b
<1>3. Min(N \cup {Len(b) + 1}) = n + 1
  BY <1>1, <1>2 DEF Min
<1>4. AsCString(b) = SubSeq(b, 1, Min(N \cup {Len(b) + 1}) - 1)
  BY DEF AsCString
<1>5. SubSeq(b, 1, n) = b
  BY <1>1
<1>6. Min(N \cup {Len(b) + 1}) - 1 = n
  BY <1>3
<1>7. AsCString(b) = b
  BY <1>4, <1>5, <1>6
<1> QED BY <1>7 DEF b

\* A transfer that has failed, or none at all, claims nothing.
LEMMA NothingGoing == call'.phase \in {"idle", "threw"} => OrderInv'
BY DEF OrderInv, Recv_nInOrder, RecvInOrder, MessageInOrder, Going

\* So it is when a transfer fails or is forgotten.
LEMMA EndsOrder ==
  ASSUME IInv, call' = NoCall \/ call' = Failed(call)
  PROVE  OrderInv'
<1>1. Failed(call) = Rec(call.op, "threw", call.want, call.left, call.data, call.from, call.on)
  BY CallFields, Fields
<1>2. Failed(call).phase = "threw"
  BY <1>1 DEF Rec
<1> QED BY <1>2, NothingGoing DEF NoCall

\* A transfer starts with nothing, at the place the stream has come to.
LEMMA BeginOrder ==
  ASSUME IInv, NEW o, NEW n \in Nat, call' = Begin(o, n), UNCHANGED stream, o # "Recv"
  PROVE  OrderInv'
<1>1. PICK q : call' = Rec(o, q, n, n, <<>>, stream.taken, "none")
           /\ q \in {"threw", "running"}
  BY BeginFields
<1>2. /\ call'.op = o /\ call'.phase = q /\ call'.want = n /\ call'.left = n
      /\ call'.data = <<>> /\ call'.from = stream.taken
  BY <1>1 DEF Rec
<1>3. stream.taken \in Nat
  BY SocketAssumption DEF IInv, TypeOK
<1>4. Len(<<>>) = 0 /\ <<>> = [i \in 1..0 |-> stream.taken + i]
  OBVIOUS
<1>5. Recv_nInOrder'
  BY <1>1, <1>2, <1>3, <1>4 DEF Recv_nInOrder, Going
<1>6. RecvInOrder'
  BY <1>2 DEF RecvInOrder, Going
<1>7. MessageInOrder'
  <2>1. stream.taken - stream.taken = 0
    BY <1>3
  <2> QED BY <1>1, <1>2, <1>3, <1>4, <2>1 DEF MessageInOrder, Going
<1> QED BY <1>5, <1>6, <1>7 DEF OrderInv

\* What is under way goes on when the peer sends or other descriptors change.
LEMMA KeptOrder ==
  ASSUME OrderInv, call' = call, Kind' \in Connected => Kind \in Connected,
         stream'.taken = stream.taken,
         stream'.sent = stream.sent \/ call.phase = "running"
  PROVE  OrderInv'
<1>1. Recv_nInOrder' /\ RecvInOrder'
  BY DEF OrderInv, Recv_nInOrder, RecvInOrder, Going
<1>2. MessageInOrder'
  BY DEF OrderInv, MessageInOrder, Going
<1> QED BY <1>1, <1>2 DEF OrderInv

\* The number still names the same.
LEMMA KindKept == UNCHANGED <<sockfd_, file>> => Kind' = Kind
BY DEF Kind, KindOf

\* Recv hands over the bytes it has read.
LEMMA RecvOrder ==
  ASSUME IInv, Recv
  PROVE  OrderInv'
<1>1. PICK n \in 1..MaxWant :
        \/ Refused /\ call' = Begin("Recv", n)
        \/ \E r \in Reads(n) :
             call' = IF r.ok THEN Done(With(Begin("Recv", n), r.bytes))
                             ELSE Failed(Begin("Recv", n))
        \/ call' = Failed(Begin("Recv", n))
  BY DEF Recv
<1>2. n \in Nat /\ UNCHANGED <<sockfd_, file>>
  BY SocketAssumption DEF Recv, object
<1> DEFINE b == Begin("Recv", n)
<1>3. PICK q : /\ b = Rec("Recv", q, n, n, <<>>, stream.taken, "none")
               /\ Refused => q = "threw"
  BY BeginFields
<1>4. /\ b.op = "Recv" /\ b.phase = q /\ b.want = n /\ b.left = n /\ b.data = <<>>
      /\ b.from = stream.taken /\ b.on = "none"
  BY <1>3 DEF Rec
<1>5. b = Rec(b.op, b.phase, b.want, b.left, b.data, b.from, b.on)
  BY <1>3, <1>4
<1>6. Failed(b) = Rec("Recv", "threw", n, n, <<>>, stream.taken, "none")
  BY <1>4, <1>5, Fields
<1>7. Failed(b).phase = "threw"
  BY <1>6 DEF Rec
<1>8. CASE call' = Failed(b)
  BY <1>7, <1>8, NothingGoing
<1>9. CASE Refused /\ call' = b
  BY <1>3, <1>4, <1>9, NothingGoing
<1>10. ASSUME NEW r \in Reads(n), r.ok, call' = Done(With(b, r.bytes)) PROVE OrderInv'
  <2> DEFINE c == With(b, r.bytes)
  <2>1. c = Rec("Recv", q, n, n, r.bytes, stream.taken, Kind)
    BY <1>4, <1>5, Fields
  <2>2. /\ c.op = "Recv" /\ c.phase = q /\ c.want = n /\ c.left = n /\ c.data = r.bytes
        /\ c.from = stream.taken /\ c.on = Kind
    BY <2>1 DEF Rec
  <2>3. c = Rec(c.op, c.phase, c.want, c.left, c.data, c.from, c.on)
    BY <2>1, <2>2
  <2>4. Done(c) = Rec("Recv", "returned", n, n, r.bytes, stream.taken, Kind)
    BY <2>2, <2>3, Fields
  <2>5. call' = Rec("Recv", "returned", n, n, r.bytes, stream.taken, Kind)
    BY <1>10, <2>4
  <2>6. call'.op = "Recv" /\ call'.data = r.bytes /\ call'.from = stream.taken
    BY <2>5 DEF Rec
  <2>7. RecvInOrder'
    <3>1. CASE Kind' \in Connected
      <4>1. PICK m \in 0..n : r.bytes = [i \in 1..m |-> stream.taken + i]
        BY <1>2, <1>10, <3>1, KindKept, ReadsNext
      <4> QED BY <2>6, <4>1 DEF RecvInOrder
    <3> QED BY <3>1 DEF RecvInOrder, Going
  <2> QED BY <2>6, <2>7 DEF OrderInv, Recv_nInOrder, MessageInOrder, Going
<1>11. ASSUME NEW r \in Reads(n),
              call' = IF r.ok THEN Done(With(b, r.bytes)) ELSE Failed(b)
       PROVE  OrderInv'
  BY <1>8, <1>10, <1>11
<1> HIDE DEF b
<1> QED BY <1>1, <1>8, <1>9, <1>11 DEF b

\* A turn of Recv_n adds the next bytes, and ends with as many as were asked for.
LEMMA Recv_nOrder ==
  ASSUME IInv, OrderInv, Recv_n
  PROVE  OrderInv'
<1> DEFINE k == Len(call.data)
<1>1. /\ call.op = "Recv_n" /\ call.phase = "running" /\ UNCHANGED <<sockfd_, file>>
      /\ call.want \in Nat /\ call.data \in Seq(Nat) /\ k \in Nat
  BY DEF Recv_n, Running, IInv, CallShape, object
<1>2. Kind' = Kind
  BY <1>1, KindKept
<1>3. stream.taken \in Nat /\ stream \in [sent : 0..MaxSent, taken : 0..MaxSent, end : {"open", "eof", "reset"}]
  BY SocketAssumption DEF IInv, TypeOK
<1>4. CASE call' = Failed(call)
  BY <1>4, EndsOrder
<1>5. CASE Enough(k, call.want) /\ call' = Done(call) /\ UNCHANGED stream
  <2>1. Done(call) = Rec("Recv_n", "returned", call.want, call.left, call.data, call.from, call.on)
    BY <1>1, CallFields, Fields
  <2>2. /\ call'.op = "Recv_n" /\ call'.want = call.want /\ call'.data = call.data
        /\ call'.from = call.from
    BY <1>5, <2>1 DEF Rec
  <2>3. Recv_nInOrder'
    <3>1. CASE Kind \in Connected
      <4>1. Recv_nInOrder /\ Going("Recv_n")
        BY <1>1, <3>1 DEF OrderInv, Going
      <4>2. k >= call.want
        BY <1>5 DEF Enough
      <4>3. k = call.want
        BY <1>1, <4>1, <4>2 DEF Recv_nInOrder
      <4> QED BY <1>5, <2>2, <4>1, <4>3 DEF Recv_nInOrder
    <3> QED BY <1>2, <3>1 DEF Recv_nInOrder, Going
  <2> QED BY <2>2, <2>3 DEF OrderInv, RecvInOrder, MessageInOrder, Going
<1>6. ASSUME ~Enough(k, call.want), NEW r \in Reads(call.want - k), Took(r), r.ok,
             call' = With(call, Gathered(call.data, r.bytes))
      PROVE  OrderInv'
  <2>1. call.want - k \in Nat
    BY <1>1, <1>6 DEF Enough
  <2>2. call' = Rec("Recv_n", "running", call.want, call.left, call.data \o r.bytes, call.from, Kind)
    BY <1>1, <1>6, CallFields, Fields DEF Gathered
  <2>3. /\ call'.op = "Recv_n" /\ call'.want = call.want /\ call'.data = call.data \o r.bytes
        /\ call'.from = call.from /\ call'.phase = "running"
    BY <2>2 DEF Rec
  <2>4. Recv_nInOrder'
    <3>1. CASE Kind \in Connected
      <4>1. /\ call.from \in Nat /\ k <= call.want /\ stream.taken = call.from + k
            /\ call.data = [i \in 1..k |-> call.from + i]
        BY <1>1, <3>1 DEF OrderInv, Recv_nInOrder, Going
      <4>2. PICK m \in 0..call.want - k : r.bytes = [i \in 1..m |-> stream.taken + i]
        BY <1>6, <2>1, <3>1, ReadsNext
      <4>3. m \in Nat /\ k + m <= call.want
        BY <1>1, <2>1
      <4>4. Len(r.bytes) = m
        BY <1>3, <4>2, <4>3
      <4>5. stream'.taken = stream.taken + m
        BY <1>3, <1>6, <3>1, <4>4 DEF Took
      <4>6. call'.data = [i \in 1..k + m |-> call.from + i]
        <5>1. r.bytes = [i \in 1..m |-> call.from + k + i]
          BY <4>1, <4>2
        <5>2. [i \in 1..k |-> call.from + i] \o [i \in 1..m |-> call.from + k + i]
                = [i \in 1..k + m |-> call.from + i]
          <6> HIDE DEF k
          <6> QED BY <1>1, <4>1, <4>3, PiecesJoin
        <5>3. call'.data = call.data \o r.bytes
          BY <2>3
        <5> HIDE DEF k
        <5> QED BY <4>1, <5>1, <5>2, <5>3
      <4>7. Len(call'.data) = k + m
        BY <1>1, <4>1, <4>3, <4>6, PiecesJoin
      <4>8. call'.data = [i \in 1..Len(call'.data) |-> call'.from + i]
        BY <2>3, <4>6, <4>7
      <4>9. call'.from \in Nat /\ Len(call'.data) <= call'.want
        BY <2>3, <4>1, <4>3, <4>7
      <4>10. stream'.taken = call'.from + Len(call'.data)
        <5>1. stream'.taken = call.from + k + m
          BY <4>1, <4>5
        <5>2. call.from + k + m = call.from + (k + m)
          <6> HIDE DEF k
          <6> QED BY <1>1, <4>1, <4>3
        <5> QED BY <2>3, <4>7, <5>1, <5>2
      <4> QED BY <2>3, <4>8, <4>9, <4>10 DEF Recv_nInOrder
    <3> QED BY <1>2, <3>1 DEF Recv_nInOrder, Going
  <2> QED BY <2>3, <2>4 DEF OrderInv, RecvInOrder, MessageInOrder, Going
<1> QED BY <1>4, <1>5, <1>6 DEF Recv_n

\* A turn of RecvMessage appends what it has read, whole if it has no '\0', and
\* ends when there is nothing left.
LEMMA MessageOrder ==
  ASSUME IInv, IInv', OrderInv, RecvMessage
  PROVE  OrderInv'
<1>1. /\ call.op = "RecvMessage" /\ call.phase = "running" /\ UNCHANGED <<sockfd_, file>>
  BY DEF RecvMessage, Running, object
<1>2. Kind' = Kind
  BY <1>1, KindKept
<1>3. /\ stream.taken \in Nat /\ stream.sent \in Nat /\ BufLen \in Nat
      /\ stream \in [sent : 0..MaxSent, taken : 0..MaxSent, end : {"open", "eof", "reset"}]
  BY SocketAssumption DEF IInv, TypeOK
<1>4. PICK r \in Reads(BufLen) :
        /\ Took(r)
        /\ call' = CASE ~r.ok -> Failed(call)
                     [] r.ok /\ r.bytes = <<>> -> Done(call)
                     [] OTHER -> With(call, Gathered(call.data, AsCString(r.bytes)))
  BY DEF RecvMessage
<1>5. r.ok \in BOOLEAN
  BY <1>3, ReadOutcome DEF IInv
<1>6. CASE ~r.ok
  BY <1>4, <1>6, EndsOrder
<1>7. CASE r.ok
  <2> DEFINE e == Gathered(call.data, AsCString(r.bytes))
  <2>1. CASE Kind \notin Connected
    <3>1. call'.op = "RecvMessage"
      <4>1. call' = Done(call) \/ call' = With(call, e)
        BY <1>4, <1>7
      <4>2. Done(call).op = "RecvMessage"
        <5>1. Done(call) = Rec(call.op, "returned", call.want, call.left, call.data,
                               call.from, call.on)
          BY CallFields, Fields
        <5> QED BY <1>1, <5>1 DEF Rec
      <4>3. With(call, e).op = "RecvMessage"
        <5>1. With(call, e) = Rec(call.op, call.phase, call.want, call.left, e,
                               call.from, Kind)
          <6> HIDE DEF e
          <6> QED BY CallFields, Fields
        <5> QED BY <1>1, <5>1 DEF Rec
      <4> QED BY <4>1, <4>2, <4>3
    <3> QED BY <1>2, <2>1, <3>1
            DEF OrderInv, Recv_nInOrder, RecvInOrder, MessageInOrder, Going
  <2>2. CASE Kind \in Connected
    <3>1. PICK m \in 0..BufLen : /\ r.bytes = [i \in 1..m |-> stream.taken + i]
                                 /\ m <= Avail /\ (m = 0 => Avail = 0)
      BY <1>3, <1>7, <2>2, ReadsNext
    <3>2. m \in Nat /\ Len(r.bytes) = m /\ (r.bytes = <<>> <=> m = 0)
      BY <1>3, <3>1
    <3>3. stream'.taken = stream.taken + m /\ stream'.sent = stream.sent
      BY <1>3, <1>4, <2>2, <3>2 DEF Took
    <3>4. /\ call.from \in Nat /\ call.from <= stream.taken
          /\ (Nuls \cap (call.from + 1)..stream.taken = {} =>
                call.data = [i \in 1..stream.taken - call.from |-> call.from + i])
      BY <1>1, <2>2 DEF OrderInv, MessageInOrder, Going
    <3>5. CASE m = 0
      <4>1. call' = Done(call)
        BY <1>4, <1>7, <3>2, <3>5
      <4>2. call' = Rec("RecvMessage", "returned", call.want, call.left, call.data,
                        call.from, call.on)
        BY <1>1, <4>1, CallFields, Fields
      <4>3. call'.op = "RecvMessage" /\ call'.data = call.data /\ call'.from = call.from
        BY <4>2 DEF Rec
      <4>4. stream'.taken = stream.taken /\ stream.taken = stream.sent
        BY <1>3, <3>1, <3>3, <3>5 DEF Avail
      <4>5. MessageInOrder'
        BY <3>3, <3>4, <4>3, <4>4 DEF MessageInOrder
      <4> QED BY <4>3, <4>5 DEF OrderInv, Recv_nInOrder, RecvInOrder, Going
    <3>6. CASE m # 0
      <4>1. call' = With(call, e)
        BY <1>4, <1>7, <3>2, <3>6
      <4>2. call' = Rec("RecvMessage", "running", call.want, call.left, e, call.from, Kind)
        <5> HIDE DEF e
        <5> QED BY <1>1, <4>1, CallFields, Fields
      <4>3. /\ call'.op = "RecvMessage" /\ call'.data = e /\ call'.from = call.from
            /\ call'.phase = "running"
        BY <4>2 DEF Rec
      <4>4. call'.from <= stream'.taken
        BY <1>3, <3>2, <3>3, <3>4, <4>3
      <4>5. ASSUME Nuls \cap (call'.from + 1)..stream'.taken = {}
            PROVE  call'.data = [i \in 1..stream'.taken - call'.from |-> call'.from + i]
        <5>1. /\ Nuls \cap (call.from + 1)..stream.taken = {}
              /\ Nuls \cap (stream.taken + 1)..(stream.taken + m) = {}
          BY <1>3, <3>2, <3>3, <3>4, <4>3, <4>5
        <5>2. AsCString(r.bytes) = [i \in 1..m |-> stream.taken + i]
          BY <1>3, <3>1, <3>2, <5>1, WholeString
        <5> DEFINE k == stream.taken - call.from
        <5>3. k \in Nat /\ stream.taken = call.from + k
          BY <1>3, <3>4
        <5>4. call.data = [i \in 1..k |-> call.from + i]
          BY <3>4, <5>1
        <5>5. e = [i \in 1..k |-> call.from + i] \o [i \in 1..m |-> call.from + k + i]
          BY <5>2, <5>3, <5>4 DEF Gathered
        <5>6. stream'.taken - call'.from = k + m
          BY <1>3, <3>2, <3>3, <3>4, <4>3
        <5> HIDE DEF k, e
        <5>7. e = [i \in 1..k + m |-> call.from + i]
          BY <3>2, <3>4, <5>3, <5>5, PiecesJoin
        <5> QED BY <4>3, <5>6, <5>7
      <4>6. MessageInOrder'
        BY <3>4, <4>3, <4>4, <4>5 DEF MessageInOrder
      <4> QED BY <4>3, <4>6 DEF OrderInv, Recv_nInOrder, RecvInOrder, Going
    <3> QED BY <3>5, <3>6
  <2> QED BY <2>1, <2>2
<1> QED BY <1>5, <1>6, <1>7

\* A turn of Send is no read.
LEMMA SendOrder ==
  ASSUME IInv, Send
  PROVE  OrderInv'
<1>1. call.op = "Send" /\ call.phase = "running"
  BY DEF Send, Running
<1>2. CASE call' = Failed(call)
  BY <1>2, EndsOrder
<1>3. call'.op = "Send" => OrderInv'
  BY DEF OrderInv, Recv_nInOrder, RecvInOrder, MessageInOrder, Going
<1>4. CASE call' = Done(call)
  <2>1. call' = Rec("Send", "returned", call.want, call.left, call.data, call.from, call.on)
    BY <1>1, <1>4, CallFields, Fields
  <2> QED BY <1>3, <2>1 DEF Rec
<1>5. ASSUME NEW d, NEW n, call' = [With(call, d) EXCEPT !.left = Advance(@, n)]
      PROVE  OrderInv'
  <2> DEFINE c == With(call, d)
  <2>1. c = Rec("Send", "running", call.want, call.left, d, call.from, Kind)
    BY <1>1, CallFields, Fields
  <2>2. /\ c.op = "Send" /\ c.phase = "running" /\ c.want = call.want /\ c.left = call.left
        /\ c.data = d /\ c.from = call.from /\ c.on = Kind
    BY <2>1 DEF Rec
  <2>3. c = Rec(c.op, c.phase, c.want, c.left, c.data, c.from, c.on)
    BY <2>1, <2>2
  <2>4. call' = [c EXCEPT !.left = c.left]
    BY <1>5 DEF Advance
  <2>5. [c EXCEPT !.left = c.left] = Rec(c.op, c.phase, c.want, c.left, c.data, c.from, c.on)
    BY <2>3, Fields
  <2>6. call'.op = "Send"
    BY <2>2, <2>4, <2>5 DEF Rec
  <2> QED BY <1>3, <2>6
<1> QED BY <1>2, <1>4, <1>5 DEF Send

\* Init establishes OrderInv, every step keeps it.
LEMMA InitOrder == Init => OrderInv
BY DEF Init, NoCall, OrderInv, Recv_nInOrder, RecvInOrder, MessageInOrder, Going

LEMMA StepOrder == IInv /\ IInv' /\ OrderInv /\ [Next]_vars => OrderInv'
<1> SUFFICES ASSUME IInv, IInv', OrderInv, [Next]_vars PROVE OrderInv'
  OBVIOUS
<1>1. call' = NoCall => OrderInv'
  BY EndsOrder
<1>2. CASE Construct \/ ConstructFd \/ ConstructTo \/ set_fd \/ ListenAndBind
             \/ ConnectTo \/ ConnectNowhere \/ Connect \/ SetNonBlocking \/ SetBlocking
             \/ Close \/ Destruct \/ Killed
  <2>1. CASE Construct \/ ConstructFd \/ ConstructTo \/ set_fd
    BY <1>1, <2>1 DEF Construct, ConstructFd, ConstructTo, set_fd
  <2>2. CASE ListenAndBind \/ ConnectTo \/ ConnectNowhere \/ Connect
    BY <1>1, <2>2 DEF ListenAndBind, ConnectTo, ConnectNowhere, Connect
  <2>3. CASE SetNonBlocking \/ SetBlocking \/ Close \/ Destruct \/ Killed
    BY <1>1, <2>3 DEF SetNonBlocking, SetBlocking, Close, Destruct, Killed
  <2> QED BY <1>2, <2>1, <2>2, <2>3
<1>3. CASE CallRecv_n \/ CallRecvMessage \/ CallSend
  <2>1. UNCHANGED stream
    BY <1>3 DEF CallRecv_n, CallRecvMessage, CallSend
  <2>2. \A n \in 0..MaxWant : n \in Nat
    BY SocketAssumption
  <2>3. PICK o \in {"Recv_n", "RecvMessage", "Send"}, n \in Nat : call' = Begin(o, n)
    BY <1>3, <2>2, SocketAssumption DEF CallRecv_n, CallRecvMessage, CallSend
  <2> QED BY <2>1, <2>3, BeginOrder
<1>4. CASE Interrupted
  BY <1>4, EndsOrder DEF Interrupted
<1>5. ASSUME StillRunning, stream'.taken = stream.taken, Kind' \in Connected => Kind \in Connected
      PROVE  OrderInv'
  BY <1>1, <1>5, KeptOrder DEF StillRunning
<1>6. CASE OtherOpens \/ OtherCloses
  <2>1. StillRunning /\ UNCHANGED <<sockfd_, stream>>
    BY <1>6 DEF OtherOpens, OtherCloses, object
  <2>2. PICK d \in Fds, k \in {"free", "foreign"} : file' = [file EXCEPT ![d] = k]
    BY <1>6 DEF OtherOpens, OtherCloses
  <2>3. Kind' \in Connected => Kind \in Connected
    BY <2>1, <2>2 DEF IInv, TypeOK, Kind, KindOf, Connected
  <2> QED BY <1>5, <2>1, <2>3
<1>7. CASE PeerSends \/ PeerEnds
  <2>1. StillRunning /\ UNCHANGED <<sockfd_, file>> /\ stream'.taken = stream.taken
    BY <1>7 DEF PeerSends, PeerEnds, IInv, TypeOK, object
  <2> QED BY <1>5, <2>1, KindKept
<1>8. CASE UNCHANGED vars
  BY <1>8, KindKept, KeptOrder DEF vars
<1>9. CASE Recv \/ Recv_n \/ RecvMessage \/ Send
  BY <1>9, RecvOrder, Recv_nOrder, MessageOrder, SendOrder
<1>10. CASE Next
  <2> HIDE DEF OrderInv, IInv
  <2> QED BY <1>2, <1>3, <1>4, <1>6, <1>7, <1>9, <1>10 DEF Next
<1> QED BY <1>8, <1>10

LEMMA OrderHolds == Spec => [](IInv /\ OrderInv)
BY InitIInv, StepIInv, InitOrder, StepOrder, PTL DEF Spec

\* Recv, Recv_n and RecvMessage hand over the next piece of the stream, without gap
\* or repetition, for streams, buffers and requests of any length.
THEOREM ReadsInOrder == Spec => []ReceivesInOrder
<1>1. IInv /\ OrderInv => ReceivesInOrder
  <2> SUFFICES ASSUME IInv, OrderInv, call.phase = "returned", Kind \in Connected
               PROVE  /\ call.op \in {"Recv", "Recv_n"} =>
                           \A i \in DOMAIN call.data : call.data[i] = call.from + i
                      /\ call.op = "Recv_n" => Len(call.data) = call.want
                      /\ call.op = "RecvMessage" /\ Nuls \cap (call.from + 1)..stream.sent = {} =>
                           call.data = [i \in 1..stream.sent - call.from |-> call.from + i]
    BY DEF ReceivesInOrder
  <2>1. CASE call.op = "Recv"
    BY <2>1 DEF OrderInv, RecvInOrder, Going
  <2>2. CASE call.op = "Recv_n"
    <3>1. /\ call.data = [i \in 1..Len(call.data) |-> call.from + i]
          /\ Len(call.data) = call.want
      BY <2>2 DEF OrderInv, Recv_nInOrder, Going
    <3> DEFINE k == Len(call.data)
    <3>2. call.data = [i \in 1..k |-> call.from + i]
      BY <3>1
    <3> HIDE DEF k
    <3>3. \A i \in DOMAIN call.data : call.data[i] = call.from + i
      BY <3>2
    <3> QED BY <2>2, <3>1, <3>3
  <2>3. CASE call.op = "RecvMessage"
    BY <2>3 DEF OrderInv, MessageInOrder, Going
  <2> QED BY <2>1, <2>2, <2>3
<1> QED BY <1>1, OrderHolds, PTL
=============================================================================
