--------------------------- MODULE SoarAppProofs ---------------------------
(***************************************************************************)
(* The event loop for any number of clients, any batch and any number of   *)
(* failing calls.  Why an unwatched socket is always told of.              *)
(***************************************************************************)
EXTENDS SoarApp, FiniteSetTheorems, TLAPS

\* Accepted connections have the numbers after the listening socket, each its own.
Numbered == \A c \in Open : fd[c] \in Nat /\ fd[c] < NextFd

Finite == IsFiniteSet(Open) /\ IsFiniteSet(interest) /\ IsFiniteSet(batch)

IInv == TypeOK /\ Numbered /\ Finite /\ FailuresAreReported
-----------------------------------------------------------------------------
\* Every failure leaves a reason, also those err_map_ does not know.
LEMMA ErrorsAreNamed ==
  \A e \in CtlErrnos \cup WaitErrnos : ErrorOf(e) \in ErrorIds \ {"none"}
BY DEF CtlErrnos, WaitErrnos, ErrorOf, err_map_, ErrorIds

LEMMA InitIInv == Init => IInv
<1> SUFFICES ASSUME Init PROVE IInv
  OBVIOUS
<1> USE AppAssumption
<1>1. Open = {}
  BY DEF Init, Open
<1>2. IsFiniteSet({}) /\ Cardinality({}) = 0
  BY FS_EmptySet
<1>3. TypeOK
  <2>1. Cardinality(batch) <= MAX_EVENTS
    BY <1>2 DEF Init
  <2>2. state \in [Clients -> {"away", "waiting", "quiet", "data", "broken"}] /\ fd \in [Clients -> Nat]
    BY DEF Init
  <2>3. \A c, d \in Open : fd[c] = fd[d] => c = d
    BY <1>1
  <2>4. interest \subseteq [fd : Nat, word : Nat] /\ pending \subseteq {w.fd : w \in interest}
    BY DEF Init
  <2>5. batch \subseteq [fd : Nat, err : BOOLEAN, of : Nat]
    BY DEF Init
  <2>6. copy \in {"soar", "sample"} /\ stdin \in BOOLEAN /\ unaccepted \in BOOLEAN
    BY DEF Init
  <2>7. error_id_ \in ErrorIds /\ pc \in {"register", "wait", "event", "accept", "ended"}
    BY DEF Init, ErrorIds
  <2>8. fails \in 0..MaxFails
    BY DEF Init
  <2> QED BY <2>1, <2>2, <2>3, <2>4, <2>5, <2>6, <2>7, <2>8 DEF TypeOK
<1>4. Numbered /\ Finite /\ FailuresAreReported
  BY <1>1, <1>2 DEF Init, Numbered, Finite, FailuresAreReported
<1> QED BY <1>3, <1>4 DEF IInv

\* A step that moves clients among the open ones, or among the others, opens nobody.
LEMMA OpenByState ==
  ASSUME IInv, NEW s, state' = s, s \in [Clients -> {"away", "waiting", "quiet", "data", "broken"}],
         \A c \in Clients : s[c] \in {"away", "waiting"} <=> state[c] \in {"away", "waiting"}
  PROVE  Open' = Open
BY DEF Open

\* What a failing NewEvent or EventLoop leaves.
LEMMA ReasonLeft ==
  NewEventFails \/ EventLoopFails => error_id_' \in ErrorIds \ {"none"}
BY ErrorsAreNamed DEF NewEventFails, EventLoopFails

\* A batch of at most MAX_EVENTS items.
LEMMA BatchOK ==
  ASSUME IInv, NEW ready, NEW broken, EventLoop(ready, broken, batch')
  PROVE  /\ batch' \subseteq [fd : Nat, err : BOOLEAN, of : Nat]
         /\ IsFiniteSet(batch')
         /\ Cardinality(batch') <= MAX_EVENTS
         /\ pending' \subseteq pending
<1>1. PICK ws \in SUBSET Reportable(ready) :
        /\ Cardinality(ws) <= MAX_EVENTS
        /\ batch' = {Item(w, broken) : w \in ws}
        /\ pending' = pending \ {w.fd : w \in ws}
  BY DEF EventLoop, Capacity
<1>2. ws \subseteq interest
  BY DEF Reportable
<1>3. IsFiniteSet(ws)
  BY <1>2, FS_Subset DEF IInv, Finite
<1>4. IsFiniteSet(batch')
      /\ Cardinality(batch') <= Cardinality(ws) /\ Cardinality(batch') \in Nat /\ Cardinality(ws) \in Nat
  <2> DEFINE f == [w \in ws |-> Item(w, broken)]
  <2>1. f \in Surjection(ws, batch')
    BY <1>1 DEF Surjection
  <2> QED BY <1>3, <2>1, FS_Surjection, FS_CardinalityType
<1>5. \A w \in ws : w \in [fd : Nat, word : Nat]
  BY <1>2 DEF IInv, TypeOK
<1>6. \A w \in ws : Item(w, broken) \in [fd : Nat, err : BOOLEAN, of : Nat]
  BY <1>5 DEF Item
<1> QED BY <1>1, <1>4, <1>6, AppAssumption
-----------------------------------------------------------------------------
\* A step that opens nobody, and leaves the interest list and the error alone.
LEMMA NothingOpened ==
  ASSUME IInv, Open' = Open, fd' = fd, stdin' = stdin, copy' = copy,
         interest' = interest, error_id_' = error_id_, pc # "register", pc # "ended",
         batch' \subseteq batch
  PROVE  Numbered' /\ Finite' /\ FailuresAreReported'
         /\ batch' \subseteq [fd : Nat, err : BOOLEAN, of : Nat]
         /\ Cardinality(batch') <= MAX_EVENTS
<1>1. core_sock_' = core_sock_
  BY DEF core_sock_
<1>2. NextFd' = NextFd
  BY <1>1 DEF NextFd
<1>3. IsFiniteSet(batch) /\ Cardinality(batch) <= MAX_EVENTS
      /\ batch \subseteq [fd : Nat, err : BOOLEAN, of : Nat]
  BY DEF IInv, Finite, TypeOK
<1>4. IsFiniteSet(batch') /\ Cardinality(batch') <= Cardinality(batch)
      /\ Cardinality(batch) \in Nat /\ Cardinality(batch') \in Nat
  BY <1>3, FS_Subset, FS_CardinalityType
<1>5. batch' \subseteq [fd : Nat, err : BOOLEAN, of : Nat] /\ Cardinality(batch') <= MAX_EVENTS
  BY <1>3, <1>4, AppAssumption
<1>7. Finite'
  BY <1>4 DEF IInv, Finite
<1>8. Numbered'
  BY <1>2 DEF IInv, Numbered
<1>10. FailuresAreReported'
  BY <1>1 DEF IInv, FailuresAreReported
<1> QED BY <1>5, <1>7, <1>8, <1>10

\* What TypeOK needs of a step, apart from the clients and the batch.
LEMMA FailsTyped ==
  ASSUME IInv, fails' = fails \/ Fails
  PROVE  fails' \in 0..MaxFails
<1>1. fails \in 0..MaxFails /\ MaxFails \in Nat
  BY AppAssumption DEF IInv, TypeOK
<1>2. CASE fails' = fails
  BY <1>1, <1>2
<1>3. CASE Fails
  BY <1>1, <1>3 DEF Fails
<1> QED BY <1>2, <1>3

\* A connection is accepted: it is open, under a number nobody has.
LEMMA Opened ==
  ASSUME IInv, NEW c \in Waiting, stdin' = stdin,
         state' = [state EXCEPT ![c] = "quiet"], fd' = [fd EXCEPT ![c] = NextFd]
  PROVE  /\ Open' = Open \cup {c} /\ IsFiniteSet(Open')
         /\ state' \in [Clients -> {"away", "waiting", "quiet", "data", "broken"}]
         /\ fd' \in [Clients -> Nat] /\ NextFd \in Nat /\ fd'[c] = NextFd
         /\ \A d \in Open : fd'[d] = fd[d]
         /\ \A a, b \in Open' : fd'[a] = fd'[b] => a = b
         /\ Numbered'
<1>1. state \in [Clients -> {"away", "waiting", "quiet", "data", "broken"}]
      /\ fd \in [Clients -> Nat] /\ c \in Clients /\ state[c] = "waiting"
  BY DEF IInv, TypeOK, Waiting
<1>2. state' \in [Clients -> {"away", "waiting", "quiet", "data", "broken"}]
  BY <1>1
<1>3. c \notin Open /\ Open' = Open \cup {c}
  BY <1>1 DEF Open
<1>4. IsFiniteSet(Open) /\ Cardinality(Open) \in Nat
  BY FS_CardinalityType DEF IInv, Finite
<1>5. IsFiniteSet(Open') /\ Cardinality(Open') = Cardinality(Open) + 1
  BY <1>3, <1>4, FS_AddElement
<1>6. core_sock_ \in Nat /\ core_sock_' = core_sock_
  BY DEF core_sock_
<1>7. NextFd \in Nat /\ NextFd' = NextFd + 1
  BY <1>4, <1>5, <1>6 DEF NextFd
<1>8. fd' \in [Clients -> Nat] /\ fd'[c] = NextFd /\ \A d \in Open : fd'[d] = fd[d]
  BY <1>1, <1>3, <1>7 DEF Open
<1>9. \A d \in Open : fd[d] \in Nat /\ fd[d] < NextFd
  BY DEF IInv, Numbered
<1>10. \A a, b \in Open : fd[a] = fd[b] => a = b
  BY DEF IInv, TypeOK
<1>11. \A a, b \in Open' : fd'[a] = fd'[b] => a = b
  BY <1>3, <1>7, <1>8, <1>9, <1>10
<1>12. \A a \in Open' : fd'[a] \in Nat /\ fd'[a] < NextFd'
  BY <1>3, <1>7, <1>8, <1>9
<1> QED BY <1>2, <1>3, <1>5, <1>7, <1>8, <1>11, <1>12 DEF Numbered
-----------------------------------------------------------------------------
\* What NewEvent adds to the interest list.
LEMMA EntryAdded ==
  ASSUME NEW n \in Nat, NEW S
  PROVE  /\ [fd |-> n, word |-> 0] \in [fd : Nat, word : Nat]
         /\ \E w \in S \cup {[fd |-> n, word |-> 0]} : w.fd = n
         /\ {w.fd : w \in S} \cup {n} \subseteq {w.fd : w \in S \cup {[fd |-> n, word |-> 0]}}
<1>1. [fd |-> n, word |-> 0].fd = n
  OBVIOUS
<1>2. [fd |-> n, word |-> 0] \in [fd : Nat, word : Nat]
  OBVIOUS
<1>3. \E w \in S \cup {[fd |-> n, word |-> 0]} : w.fd = n
  BY <1>1
<1>4. {w.fd : w \in S} \cup {n} \subseteq {w.fd : w \in S \cup {[fd |-> n, word |-> 0]}}
  BY <1>1
<1> QED BY <1>2, <1>3, <1>4

\* The step from one action to the next, action by action.
LEMMA RegisterStep == ASSUME IInv, Register PROVE IInv'
<1>1. Open' = Open /\ core_sock_' = core_sock_ /\ NextFd' = NextFd
  BY DEF Register, Open, core_sock_, NextFd
<1>2. fails' \in 0..MaxFails
  BY FailsTyped DEF Register
<1>3. \/ /\ interest' = interest \cup {[fd |-> core_sock_, word |-> 0]}
         /\ pending' \subseteq pending \cup {core_sock_}
         /\ error_id_' = error_id_
      \/ /\ interest' = interest /\ pending' = pending
         /\ error_id_' \in ErrorIds \ {"none"}
  BY ReasonLeft DEF Register, NewEvent, NewEventFails, Union, NULL
<1>4. core_sock_ \in Nat
  BY DEF core_sock_
<1>5. IsFiniteSet(interest')
  <2>1. IsFiniteSet(interest)
    BY DEF IInv, Finite
  <2>2. IsFiniteSet(interest \cup {[fd |-> core_sock_, word |-> 0]})
    BY <2>1, FS_AddElement
  <2> QED BY <1>3, <2>1, <2>2
<1>6. interest' \subseteq [fd : Nat, word : Nat] /\ pending' \subseteq {w.fd : w \in interest'}
  BY <1>3, <1>4, EntryAdded DEF IInv, TypeOK
<1>7. error_id_' \in ErrorIds
  BY <1>3 DEF IInv, TypeOK
<1>8. TypeOK'
  BY <1>1, <1>2, <1>6, <1>7 DEF IInv, TypeOK, Register
<1>10. Numbered'
  BY <1>1 DEF IInv, Numbered, Register
<1>11. Finite'
  BY <1>1, <1>5 DEF IInv, Finite, Register
<1>13. FailuresAreReported'
  <2>1. CASE error_id_' # "none"
    BY <2>1 DEF FailuresAreReported
  <2>2. CASE /\ interest' = interest \cup {[fd |-> core_sock_, word |-> 0]}
             /\ error_id_' = error_id_
    <3>1. \E w \in interest' : w.fd = core_sock_'
      BY <1>1, <1>4, <2>2, EntryAdded
    <3>2. \A d \in Open' : (\E w \in interest' : w.fd = fd'[d]) \/ error_id_' # "none"
      BY <1>1, <2>2 DEF IInv, FailuresAreReported, Register
    <3> QED BY <3>1, <3>2 DEF FailuresAreReported
  <2> QED BY <1>3, <2>1, <2>2
<1> QED BY <1>8, <1>10, <1>11, <1>13 DEF IInv

LEMMA WaitStep == ASSUME IInv, WaitEvents \/ WaitFails PROVE IInv'
<1>0. state' = state /\ stdin' = stdin
  BY DEF WaitEvents, WaitFails
<1>1. Open' = Open /\ core_sock_' = core_sock_ /\ NextFd' = NextFd
  BY <1>0 DEF Open, core_sock_, NextFd
<1>2. fails' \in 0..MaxFails
  BY FailsTyped DEF WaitEvents, WaitFails
<1>3. /\ interest' = interest /\ pending' \subseteq pending
      /\ error_id_' \in ErrorIds /\ (error_id_ # "none" => error_id_' # "none")
  BY ReasonLeft, BatchOK DEF WaitEvents, WaitFails, EventLoop, EventLoopFails, IInv, TypeOK
<1>4. /\ batch' \subseteq [fd : Nat, err : BOOLEAN, of : Nat]
      /\ IsFiniteSet(batch') /\ Cardinality(batch') <= MAX_EVENTS
  <2>1. CASE WaitEvents
    BY <2>1, BatchOK DEF WaitEvents
  <2>2. CASE WaitFails
    BY <2>2 DEF WaitFails, IInv, TypeOK, Finite
  <2> QED BY <2>1, <2>2
<1>5. /\ fd' = fd /\ state' = state /\ stdin' = stdin /\ copy' = copy
      /\ unaccepted' = unaccepted /\ pc = "wait" /\ pc' \in {"wait", "event"}
  BY DEF WaitEvents, WaitFails
<1>6. TypeOK'
  BY <1>1, <1>2, <1>3, <1>4, <1>5 DEF IInv, TypeOK
<1>8. Numbered'
  BY <1>1, <1>5 DEF IInv, Numbered
<1>9. Finite'
  BY <1>1, <1>3, <1>4 DEF IInv, Finite
<1>11. FailuresAreReported'
  BY <1>1, <1>3, <1>5 DEF IInv, FailuresAreReported
<1> QED BY <1>6, <1>8, <1>9, <1>11 DEF IInv

\* A step of the loop that takes an item, or a turn at which nothing is accepted.
LEMMA LoopStep ==
  ASSUME IInv, NoMoreItems \/ Skip \/ NewAccept \/ AllProcessed \/ AcceptFails
  PROVE  IInv'
<1>1. /\ eventVars' = eventVars /\ fd' = fd /\ state' = state /\ stdin' = stdin
      /\ batch' \subseteq batch
  BY DEF NoMoreItems, Skip, NewAccept, AllProcessed, AcceptFails
<1>2. /\ pc \in {"event", "accept"} /\ pc' \in {"wait", "event", "accept"}
      /\ unaccepted' \in BOOLEAN
  BY DEF NoMoreItems, Skip, NewAccept, AllProcessed, AcceptFails, IInv, TypeOK
<1>3. Open' = Open
  BY <1>1 DEF Open
<1>4. fails' \in 0..MaxFails
  BY FailsTyped DEF NoMoreItems, Skip, NewAccept, AllProcessed, AcceptFails
<1>5. /\ Numbered' /\ Finite' /\ FailuresAreReported'
      /\ batch' \subseteq [fd : Nat, err : BOOLEAN, of : Nat]
      /\ Cardinality(batch') <= MAX_EVENTS
  BY <1>1, <1>2, <1>3, NothingOpened DEF eventVars
<1>6. TypeOK'
  BY <1>1, <1>2, <1>3, <1>4, <1>5 DEF IInv, TypeOK, eventVars
<1> QED BY <1>5, <1>6 DEF IInv

\* A client that comes, sends or breaks is neither opened nor closed by it.
LEMMA ClientStep == ASSUME IInv, NEW c \in Clients, Arrive(c) \/ Sends(c) \/ Breaks(c) PROVE IInv'
<1>1. PICK new \in {"waiting", "data", "broken"}, n \in Nat :
        /\ state' = [state EXCEPT ![c] = new] /\ News(n)
        /\ new = "waiting" <=> state[c] = "away"
        /\ state[c] # "waiting"
  <2>1. core_sock_ \in Nat /\ fd[c] \in Nat
    BY DEF core_sock_, IInv, TypeOK
  <2> QED BY <2>1 DEF Arrive, Sends, Breaks
<1>2. /\ UNCHANGED <<copy, interest, error_id_, stdin, fd, pc, batch, fails, unaccepted>>
      /\ pc # "ended"
  BY DEF Arrive, Sends, Breaks
<1>3. state \in [Clients -> {"away", "waiting", "quiet", "data", "broken"}]
  BY DEF IInv, TypeOK
<1>4. state' \in [Clients -> {"away", "waiting", "quiet", "data", "broken"}]
  BY <1>1, <1>3
<1>5. \A d \in Clients : state'[d] \in {"away", "waiting"} <=> state[d] \in {"away", "waiting"}
  BY <1>1, <1>3
<1>6. Open' = Open
  BY <1>5 DEF Open
<1>7. pending' \subseteq {w.fd : w \in interest}
  <2>1. pending \subseteq {w.fd : w \in interest}
    BY DEF IInv, TypeOK
  <2> QED BY <1>1, <2>1 DEF News
<1>8. core_sock_' = core_sock_ /\ NextFd' = NextFd
  BY <1>2, <1>6 DEF core_sock_, NextFd
<1>9. TypeOK'
  BY <1>2, <1>4, <1>6, <1>7 DEF IInv, TypeOK
<1>10. Finite'
  BY <1>2, <1>6 DEF IInv, Finite
<1>11. Numbered'
  BY <1>2, <1>6, <1>8 DEF IInv, Numbered
<1>13. FailuresAreReported'
  BY <1>2, <1>6, <1>8 DEF IInv, FailuresAreReported
<1> QED BY <1>9, <1>10, <1>11, <1>13 DEF IInv

\* An item is received from: nobody is opened by it.
LEMMA ReceiveStep == ASSUME IInv, Receive PROVE IInv'
<1>1. PICK e \in batch : batch' = batch \ {e}
  BY DEF Receive
<1>2. /\ UNCHANGED <<copy, interest, pending, error_id_, stdin, fd, fails, unaccepted>>
      /\ pc = "event" /\ pc' \in {"event", "ended"}
  BY DEF Receive, eventVars
<1>3. state \in [Clients -> {"away", "waiting", "quiet", "data", "broken"}]
  BY DEF IInv, TypeOK
<1>4. \A d \in Clients : /\ state'[d] \in {"away", "waiting", "quiet", "data", "broken"}
                        /\ state'[d] \in {"away", "waiting"} <=> state[d] \in {"away", "waiting"}
  BY <1>3 DEF Receive
<1>5. state' \in [Clients -> {"away", "waiting", "quiet", "data", "broken"}]
  BY <1>3 DEF Receive
<1>6. Open' = Open
  BY <1>4 DEF Open
<1>10. core_sock_' = core_sock_ /\ NextFd' = NextFd
  BY <1>2, <1>6 DEF core_sock_, NextFd
<1>11. IsFiniteSet(batch) /\ Cardinality(batch) <= MAX_EVENTS
       /\ batch \subseteq [fd : Nat, err : BOOLEAN, of : Nat]
  BY DEF IInv, Finite, TypeOK
<1>12. IsFiniteSet(batch') /\ Cardinality(batch') <= Cardinality(batch)
       /\ Cardinality(batch) \in Nat /\ Cardinality(batch') \in Nat
  BY <1>1, <1>11, FS_Subset, FS_CardinalityType
<1>13. batch' \subseteq [fd : Nat, err : BOOLEAN, of : Nat] /\ Cardinality(batch') <= MAX_EVENTS
  BY <1>1, <1>11, <1>12, AppAssumption
<1>15. TypeOK'
  BY <1>2, <1>5, <1>6, <1>13 DEF IInv, TypeOK
<1>16. Finite'
  BY <1>1, <1>2, <1>6, <1>12 DEF IInv, Finite
<1>17. Numbered'
  BY <1>2, <1>6, <1>10 DEF IInv, Numbered
<1>18. FailuresAreReported'
  BY <1>2, <1>6, <1>10 DEF IInv, FailuresAreReported
<1> QED BY <1>15, <1>16, <1>17, <1>18 DEF IInv

\* A connection is accepted: watched, or its NewEvent has left a reason, or the
\* exception of SetNonBlocking has ended the service.
LEMMA AcceptStep == ASSUME IInv, Accept \/ AcceptThrows PROVE IInv'
<1>1. PICK c \in Waiting : /\ state' = [state EXCEPT ![c] = "quiet"]
                          /\ fd' = [fd EXCEPT ![c] = NextFd]
  BY DEF Accept, AcceptThrows
<1>2. /\ UNCHANGED <<copy, stdin, batch, unaccepted>>
      /\ pc = "accept" /\ pc' \in {"accept", "ended"}
  BY DEF Accept, AcceptThrows, AfterAccept, eventVars
<1>3. /\ Open' = Open \cup {c} /\ IsFiniteSet(Open')
      /\ state' \in [Clients -> {"away", "waiting", "quiet", "data", "broken"}]
      /\ fd' \in [Clients -> Nat] /\ NextFd \in Nat /\ fd'[c] = NextFd
      /\ \A d \in Open : fd'[d] = fd[d]
      /\ \A a, b \in Open' : fd'[a] = fd'[b] => a = b
      /\ Numbered'
  BY <1>1, <1>2, Opened
<1>4. \/ /\ interest' = interest \cup {[fd |-> NextFd, word |-> 0]}
         /\ pending' \subseteq pending \cup {NextFd}
         /\ error_id_' = error_id_
      \/ /\ interest' = interest /\ pending' = pending
         /\ error_id_' \in ErrorIds \ {"none"}
      \/ /\ interest' = interest /\ pending' = pending /\ error_id_' = error_id_
         /\ pc' = "ended"
  BY ReasonLeft DEF Accept, AcceptThrows, NewEvent, NewEventFails, Union, NULL, eventVars
<1>5. fails' \in 0..MaxFails
  BY FailsTyped DEF Accept, AcceptThrows
<1>6. IsFiniteSet(interest')
  <2>1. IsFiniteSet(interest)
    BY DEF IInv, Finite
  <2>2. IsFiniteSet(interest \cup {[fd |-> NextFd, word |-> 0]})
    BY <2>1, FS_AddElement
  <2> QED BY <1>4, <2>1, <2>2
<1>7. interest' \subseteq [fd : Nat, word : Nat] /\ pending' \subseteq {w.fd : w \in interest'}
  BY <1>3, <1>4, EntryAdded DEF IInv, TypeOK
<1>8. error_id_' \in ErrorIds
  BY <1>4 DEF IInv, TypeOK
<1>9. TypeOK'
  BY <1>2, <1>3, <1>5, <1>7, <1>8 DEF IInv, TypeOK
<1>11. Finite'
  BY <1>2, <1>3, <1>6 DEF IInv, Finite
<1>13. FailuresAreReported'
  <2>1. core_sock_' = core_sock_ /\ interest \subseteq interest'
    BY <1>2, <1>4 DEF core_sock_
  <2>2. error_id_' # "none" \/ \E w \in interest' : w.fd = core_sock_'
    BY <1>2, <1>4, <2>1 DEF IInv, FailuresAreReported
  <2>3. \A d \in Open : error_id_' # "none" \/ \E w \in interest' : w.fd = fd'[d]
    BY <1>2, <1>3, <1>4, <2>1 DEF IInv, FailuresAreReported
  <2>4. pc' = "ended" \/ error_id_' # "none" \/ \E w \in interest' : w.fd = fd'[c]
    BY <1>3, <1>4, EntryAdded
  <2> QED BY <1>3, <2>2, <2>3, <2>4 DEF FailuresAreReported
<1> QED BY <1>3, <1>9, <1>11, <1>13 DEF IInv

LEMMA StepIInv == IInv /\ [Next]_vars => IInv'
<1> SUFFICES ASSUME IInv, [Next]_vars PROVE IInv'
  OBVIOUS
<1>1. CASE Register
  BY <1>1, RegisterStep
<1>2. CASE WaitEvents \/ WaitFails
  BY <1>2, WaitStep
<1>3. CASE NoMoreItems \/ Skip \/ NewAccept \/ AllProcessed \/ AcceptFails
  BY <1>3, LoopStep
<1>4. CASE Receive
  BY <1>4, ReceiveStep
<1>5. CASE Accept \/ AcceptThrows
  BY <1>5, AcceptStep
<1>6. CASE Client
  BY <1>6, ClientStep DEF Client
<1>7. CASE UNCHANGED vars
  BY <1>7 DEF vars, appVars, eventVars, IInv, TypeOK, Numbered, Finite,
     FailuresAreReported, Open, core_sock_, NextFd
<1> QED BY <1>1, <1>2, <1>3, <1>4, <1>5, <1>6, <1>7 DEF Next, waiting_events

LEMMA Invariance == Spec => []IInv
BY InitIInv, StepIInv, PTL DEF Spec
-----------------------------------------------------------------------------
\* The variables of the service keep their types, open connections have numbers
\* of their own, and EventLoop fills no more than its caller has room for.
THEOREM TypeCorrect == Spec => []TypeOK
<1>1. IInv => TypeOK
  BY DEF IInv
<1> QED BY <1>1, Invariance, PTL

\* However the registrations fail, SoarEvent's get_last_error() tells of it as
\* long as a socket of a service that runs is not watched.
THEOREM FailuresTold == Spec => []FailuresAreReported
<1>1. IInv => FailuresAreReported
  BY DEF IInv
<1> QED BY <1>1, Invariance, PTL
=============================================================================
