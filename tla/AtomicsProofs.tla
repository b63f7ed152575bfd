--------------------------- MODULE AtomicsProofs ---------------------------
(***************************************************************************)
(* What the atomic helpers promise their callers, for any number of        *)
(* threads: in each use of the word, what it says of the threads between   *)
(* their calls, and what its value says of the calls that have returned.   *)
(***************************************************************************)
EXTENDS Atomics, FiniteSetTheorems, TLAPS

\* Only the helpers of its use are called on the word.
ResultsOfUse == \A r \in results : r.op \in OpsOf[use]

\* A thread in a call has not made all of its calls.
InCall == \A t \in Threads : pc[t] # "idle" => calls[t] < CallsIn(use)

\* While nobody subtracts the word stays above what a thread has made of it.
AddInv == \A t \in Threads : pc[t] = "reread_add" => word >= seen[t] + 1

\* A thread that releases has one call; the owners are those before the subtraction.
Owners == {t \in Threads : calls[t] = 0 /\ pc[t] # "reread_sub"}
Known == \E r \in results : \/ r.op = "fetch_then_sub" /\ r.value = 1
                            \/ r.op = "sub_then_fetch" /\ r.value = 0
ReleaseInv == use = "release" =>
  /\ word = Cardinality(Owners)
  /\ Owners = {} => Known \/ \E t \in Threads : pc[t] = "reread_sub"

\* The threads that took the word, and those who were told so.
Takes == {r \in Of("cas_value") : r.before = 0 /\ r.after = 1}
Told  == {r \in Of("cas_bool") : r.value = 1}
ClaimInv == use = "claim" =>
  /\ \/ word = 0 /\ Takes = {} /\ Told = {}
     \/ word = 1 /\ (\E x : Takes = {x}) /\ Told = {}
     \/ word = 1 /\ (\E x : Told = {x}) /\ Takes = {}
  /\ \A r \in Takes : r.value = 0
  /\ word = 0 => \A t \in Threads : pc[t] = "cas_swap" => seen[t] = 0

IInv == TypeOK /\ ResultsOfUse /\ InCall /\ AddInv /\ NeverBelowOwnSum /\ ReleaseInv /\ ClaimInv
-----------------------------------------------------------------------------
LEMMA UseFacts ==
  /\ Uses = {"add", "release", "claim"}
  /\ OpsOf["add"] = {"fetch_then_add", "add_then_fetch"}
  /\ OpsOf["release"] = {"fetch_then_sub", "sub_then_fetch"}
  /\ OpsOf["claim"] = {"cas_bool", "cas_value"}
  /\ Midway["add"] = {"reread_add"} /\ Midway["release"] = {"reread_sub"}
  /\ Midway["claim"] = {"cas_swap"}
BY DEF Uses, OpsOf, Midway

\* The use a call belongs to tells the use of the word.
LEMMA UseOf ==
  ASSUME TypeOK, NEW t \in Threads
  PROVE  /\ pc[t] \in {"fetch_then_add", "add_then_fetch", "reread_add"} => use = "add"
         /\ pc[t] \in {"fetch_then_sub", "sub_then_fetch", "reread_sub"} => use = "release"
         /\ pc[t] \in {"cas_bool", "cas_value", "cas_swap"} => use = "claim"
<1>1. pc[t] \in {"idle"} \cup OpsOf[use] \cup Midway[use] /\ use \in Uses
  BY DEF TypeOK
<1> QED BY <1>1, UseFacts

\* The bookkeeping of a call that returns.
LEMMA Returned ==
  ASSUME NEW t, NEW op, NEW before, NEW after, NEW value, Return(t, op, before, after, value)
  PROVE  \E new : /\ new.op = op /\ new.before = before /\ new.after = after /\ new.value = value
                  /\ results' = results \cup {new}
<1> DEFINE new == [thread |-> t, call |-> calls[t], op |-> op,
                   before |-> before, after |-> after, value |-> value]
<1>1. new.op = op /\ new.before = before /\ new.after = after /\ new.value = value
  OBVIOUS
<1>2. results' = results \cup {new}
  BY DEF Return
<1> QED BY <1>1, <1>2

LEMMA InitIInv == Init => IInv
<1> SUFFICES ASSUME Init PROVE IInv
  OBVIOUS
<1> USE AtomicsAssumption
<1>1. Cardinality(Threads) \in Nat
  BY FS_CardinalityType
<1>2. CallsIn(use) \in Nat
  BY DEF CallsIn
<1>3. TypeOK
  BY <1>1, <1>2 DEF Init, TypeOK, First
<1>4. ResultsOfUse /\ InCall /\ AddInv /\ NeverBelowOwnSum
  BY DEF Init, ResultsOfUse, InCall, AddInv, NeverBelowOwnSum, Of
<1>5. ReleaseInv
  <2>1. Owners = Threads
    BY DEF Init, Owners
  <2> QED BY <2>1 DEF Init, ReleaseInv, First
<1>6. ClaimInv
  <2>1. Takes = {} /\ Told = {}
    BY DEF Init, Takes, Told, Of
  <2> QED BY <2>1 DEF Init, ClaimInv, First
<1> QED BY <1>3, <1>4, <1>5, <1>6 DEF IInv

\* The variables keep their types, and results the helpers of the use.
LEMMA StepTypeOK ==
  ASSUME IInv, Next
  PROVE  TypeOK' /\ ResultsOfUse' /\ InCall'
<1>0. use' = use /\ use \in Uses
  BY DEF Next, IInv, TypeOK
<1>1. PICK t \in Threads : Step(t)
  BY DEF Next
<1>2. CallsIn(use)' = CallsIn(use) /\ CallsIn(use) \in Nat
  BY <1>0, AtomicsAssumption DEF CallsIn
<1>3. calls \in [Threads -> 0..CallsIn(use)] /\ word \in Int /\ seen \in [Threads -> Int]
      /\ pc \in [Threads -> {"idle"} \cup OpsOf[use] \cup Midway[use]]
  BY DEF IInv, TypeOK
<1>4. word' \in Int
  BY <1>1, <1>3 DEF Step, Call, FetchAdd, FetchSub, Add, RereadAdd, Sub, RereadSub, CasBool,
     CasRead, CasSwap, FetchThenAdd, FetchThenSub, AddThenFetch, SubThenFetch, Xadd, CmpXchg
<1>5. seen' \in [Threads -> Int]
  BY <1>1, <1>3 DEF Step, Call, FetchAdd, FetchSub, Add, RereadAdd, Sub, RereadSub, CasBool,
     CasRead, CasSwap
<1>6. pc' \in [Threads -> {"idle"} \cup OpsOf[use] \cup Midway[use]]
  BY <1>0, <1>1, <1>3, UseFacts, UseOf DEF IInv, Step, Call, FetchAdd, FetchSub, Add, RereadAdd,
     Sub, RereadSub, CasBool, CasRead, CasSwap, Goto
<1>7. calls' \in [Threads -> 0..CallsIn(use)] /\ InCall'
  <2>1. CASE Call(t)
    BY <1>0, <1>2, <1>3, <2>1 DEF Call, Goto, IInv, InCall
  <2>2. CASE Add(t) \/ Sub(t) \/ CasRead(t)
    BY <1>0, <1>2, <1>3, <2>2 DEF Add, Sub, CasRead, Goto, IInv, InCall
  <2>3. CASE FetchAdd(t) \/ FetchSub(t) \/ RereadAdd(t) \/ RereadSub(t) \/ CasBool(t) \/ CasSwap(t)
    <3>1. calls' = [calls EXCEPT ![t] = @ + 1] /\ pc' = [pc EXCEPT ![t] = "idle"] /\ pc[t] # "idle"
      BY <2>3 DEF FetchAdd, FetchSub, RereadAdd, RereadSub, CasBool, CasSwap, Goto, Return
    <3>2. calls[t] + 1 \in 0..CallsIn(use)
      BY <1>2, <1>3, <3>1 DEF IInv, InCall
    <3>3. calls' \in [Threads -> 0..CallsIn(use)]
      BY <1>3, <3>1, <3>2
    <3>4. InCall'
      BY <1>0, <1>2, <1>3, <3>1 DEF IInv, InCall
    <3> QED BY <3>3, <3>4
  <2> QED BY <1>1, <2>1, <2>2, <2>3 DEF Step
<1>8. ResultsOfUse'
  <2>1. CASE Call(t) \/ Add(t) \/ Sub(t) \/ CasRead(t)
    BY <1>0, <2>1 DEF Call, Add, Sub, CasRead, IInv, ResultsOfUse
  <2>2. CASE FetchAdd(t)
    BY <1>0, <2>2, UseFacts, UseOf, Returned DEF FetchAdd, Goto, IInv, ResultsOfUse
  <2>3. CASE FetchSub(t)
    BY <1>0, <2>3, UseFacts, UseOf, Returned DEF FetchSub, Goto, IInv, ResultsOfUse
  <2>4. CASE RereadAdd(t)
    BY <1>0, <2>4, UseFacts, UseOf, Returned DEF RereadAdd, Goto, IInv, ResultsOfUse
  <2>5. CASE RereadSub(t)
    BY <1>0, <2>5, UseFacts, UseOf, Returned DEF RereadSub, Goto, IInv, ResultsOfUse
  <2>6. CASE CasBool(t)
    BY <1>0, <2>6, UseFacts, UseOf, Returned DEF CasBool, Goto, IInv, ResultsOfUse
  <2>7. CASE CasSwap(t)
    BY <1>0, <2>7, UseFacts, UseOf, Returned DEF CasSwap, Goto, IInv, ResultsOfUse
  <2> QED BY <1>1, <2>1, <2>2, <2>3, <2>4, <2>5, <2>6, <2>7 DEF Step
<1>9. TypeOK'
  BY <1>0, <1>2, <1>4, <1>5, <1>6, <1>7 DEF TypeOK
<1> QED BY <1>7, <1>8, <1>9

\* A sum is read again after it was made, and nobody subtracts meanwhile.
LEMMA StepAdd ==
  ASSUME IInv, Next
  PROVE  AddInv' /\ NeverBelowOwnSum'
<1>0. TypeOK /\ word \in Int /\ seen \in [Threads -> Int] /\ DOMAIN pc = Threads
  BY DEF IInv, TypeOK
<1>1. PICK t \in Threads : Step(t)
  BY DEF Next
<1>2. CASE FetchAdd(t)
  BY <1>0, <1>2, Returned DEF FetchAdd, Goto, FetchThenAdd, Xadd, IInv, AddInv, NeverBelowOwnSum, Of
<1>3. CASE Add(t)
  <2>1. word' = word + 1 /\ seen' = [seen EXCEPT ![t] = word] /\ results' = results
        /\ pc' = [pc EXCEPT ![t] = "reread_add"]
    BY <1>3 DEF Add, Goto, AddThenFetch, Xadd
  <2>2. AddInv'
    BY <1>0, <2>1 DEF IInv, AddInv
  <2> QED BY <2>1, <2>2 DEF IInv, NeverBelowOwnSum, Of
<1>4. CASE RereadAdd(t)
  <2>1. /\ pc[t] = "reread_add" /\ pc' = [pc EXCEPT ![t] = "idle"] /\ word' = word /\ seen' = seen
        /\ Return(t, "add_then_fetch", seen[t], AddThenFetch(seen[t]), Reread(t))
    BY <1>4 DEF RereadAdd, Goto
  <2>2. PICK new : /\ new.op = "add_then_fetch" /\ new.after = AddThenFetch(seen[t])
                   /\ new.value = Reread(t) /\ results' = results \cup {new}
    BY <2>1, Returned
  <2>3. new.value >= new.after
    BY <1>0, <2>1, <2>2 DEF IInv, AddInv, AddThenFetch, Xadd, Reread
  <2>4. AddInv'
    BY <1>0, <2>1 DEF IInv, AddInv
  <2> QED BY <2>2, <2>3, <2>4 DEF IInv, NeverBelowOwnSum, Of
<1>5. CASE Call(t)
  BY <1>0, <1>5, UseFacts DEF Call, Goto, IInv, AddInv, NeverBelowOwnSum, Of, TypeOK
<1>6. ASSUME use # "add", ResultsOfUse', TypeOK', use' = use PROVE AddInv' /\ NeverBelowOwnSum'
  <2>1. \A u \in Threads : pc'[u] # "reread_add"
    BY <1>6, UseFacts DEF TypeOK
  <2>2. \A r \in results' : r.op # "add_then_fetch"
    BY <1>6, UseFacts DEF ResultsOfUse, TypeOK
  <2> QED BY <2>1, <2>2 DEF AddInv, NeverBelowOwnSum, Of
<1>7. CASE FetchSub(t) \/ Sub(t) \/ RereadSub(t) \/ CasBool(t) \/ CasRead(t) \/ CasSwap(t)
  <2>1. use # "add"
    BY <1>0, <1>7, UseOf DEF FetchSub, Sub, RereadSub, CasBool, CasRead, CasSwap, Goto
  <2> QED BY <1>6, <2>1, StepTypeOK DEF Next
<1> QED BY <1>1, <1>2, <1>3, <1>4, <1>5, <1>7 DEF Step

\* The word counts the owners; the last one to subtract knows, or is about to.
LEMMA StepRelease ==
  ASSUME IInv, Next, use = "release"
  PROVE  ReleaseInv'
<1>0. TypeOK /\ word \in Int /\ DOMAIN pc = Threads /\ DOMAIN calls = Threads /\ use' = use
  BY DEF IInv, TypeOK, Next
<1>1. PICK t \in Threads : Step(t)
  BY DEF Next
<1>2. /\ word = Cardinality(Owners) /\ IsFiniteSet(Owners)
      /\ Owners = {} => Known \/ \E u \in Threads : pc[u] = "reread_sub"
  BY AtomicsAssumption, FS_Subset DEF IInv, ReleaseInv, Owners
<1>3. pc[t] # "idle" => calls[t] = 0
  BY <1>0 DEF IInv, InCall, TypeOK, CallsIn
<1>4. pc[t] \in {"idle", "fetch_then_sub", "sub_then_fetch", "reread_sub"}
  BY <1>0, UseFacts DEF TypeOK
<1>5. CASE Call(t)
  <2>1. /\ word' = word /\ calls' = calls /\ results' = results /\ pc[t] = "idle"
        /\ \E op \in {"fetch_then_sub", "sub_then_fetch"} : pc' = [pc EXCEPT ![t] = op]
    BY <1>5, UseFacts DEF Call, Goto
  <2>2. Owners' = Owners
    BY <1>0, <2>1 DEF Owners
  <2>3. \A u \in Threads : pc[u] = "reread_sub" => pc'[u] = "reread_sub"
    BY <1>0, <2>1
  <2> QED BY <1>2, <2>1, <2>2, <2>3 DEF ReleaseInv, Known
<1>6. CASE FetchSub(t)
  <2>1. /\ pc[t] = "fetch_then_sub" /\ pc' = [pc EXCEPT ![t] = "idle"] /\ word' = word - 1
        /\ calls' = [calls EXCEPT ![t] = @ + 1] /\ calls[t] = 0
        /\ Return(t, "fetch_then_sub", word, word', word)
    BY <1>0, <1>3, <1>6 DEF FetchSub, Goto, FetchThenSub, Xadd, Return
  <2>2. t \in Owners /\ Owners' = Owners \ {t}
    BY <1>0, <2>1 DEF Owners
  <2>3. Cardinality(Owners') = Cardinality(Owners) - 1
    BY <1>2, <2>2, FS_RemoveElement
  <2>4. PICK new : /\ new.op = "fetch_then_sub" /\ new.value = word
                   /\ results' = results \cup {new}
    BY <2>1, Returned
  <2>5. ASSUME Owners' = {} PROVE Known'
    <3>1. Cardinality(Owners') = 0
      BY <2>5, FS_EmptySet
    <3>2. Cardinality(Owners) \in Nat
      BY <1>2, FS_CardinalityType
    <3>3. word = 1
      BY <1>2, <2>3, <3>1, <3>2
    <3> QED BY <2>4, <3>3 DEF Known
  <2> QED BY <1>2, <2>1, <2>3, <2>5 DEF ReleaseInv
<1>7. CASE Sub(t)
  <2>1. /\ pc[t] = "sub_then_fetch" /\ pc' = [pc EXCEPT ![t] = "reread_sub"] /\ word' = word - 1
        /\ calls' = calls /\ calls[t] = 0
    BY <1>0, <1>3, <1>7 DEF Sub, Goto, SubThenFetch, Xadd
  <2>2. t \in Owners /\ Owners' = Owners \ {t}
    BY <1>0, <2>1 DEF Owners
  <2>3. Cardinality(Owners') = Cardinality(Owners) - 1
    BY <1>2, <2>2, FS_RemoveElement
  <2>4. pc'[t] = "reread_sub"
    BY <1>0, <2>1
  <2> QED BY <1>2, <2>1, <2>3, <2>4 DEF ReleaseInv
<1>8. CASE RereadSub(t)
  <2>1. /\ pc[t] = "reread_sub" /\ pc' = [pc EXCEPT ![t] = "idle"] /\ word' = word
        /\ calls' = [calls EXCEPT ![t] = @ + 1] /\ calls[t] = 0
        /\ Return(t, "sub_then_fetch", seen[t], SubThenFetch(seen[t]), Reread(t))
    BY <1>0, <1>3, <1>8 DEF RereadSub, Goto, Return
  <2>2. Owners' = Owners
    BY <1>0, <2>1 DEF Owners
  <2>3. PICK new : /\ new.op = "sub_then_fetch" /\ new.value = word
                   /\ results' = results \cup {new}
    BY <2>1, Returned DEF Reread
  <2>4. ASSUME Owners' = {} PROVE Known'
    <3>1. word = 0
      BY <1>2, <2>2, <2>4, FS_EmptySet
    <3> QED BY <2>3, <3>1 DEF Known
  <2> QED BY <1>2, <2>1, <2>2, <2>4 DEF ReleaseInv
<1>9. Call(t) \/ FetchSub(t) \/ Sub(t) \/ RereadSub(t)
  BY <1>1, <1>4 DEF Step, FetchAdd, Add, RereadAdd, CasBool, CasRead, CasSwap, Goto
<1> QED BY <1>5, <1>6, <1>7, <1>8, <1>9

\* Who finds the word 0 takes it, and it stays taken.
LEMMA StepClaim ==
  ASSUME IInv, Next, use = "claim"
  PROVE  ClaimInv'
<1>0. TypeOK /\ DOMAIN pc = Threads /\ DOMAIN seen = Threads /\ use' = use
  BY DEF IInv, TypeOK, Next
<1>1. PICK t \in Threads : Step(t)
  BY DEF Next
<1>2. /\ \/ word = 0 /\ Takes = {} /\ Told = {}
         \/ word = 1 /\ (\E x : Takes = {x}) /\ Told = {}
         \/ word = 1 /\ (\E x : Told = {x}) /\ Takes = {}
      /\ \A r \in Takes : r.value = 0
      /\ word = 0 => \A u \in Threads : pc[u] = "cas_swap" => seen[u] = 0
  BY DEF IInv, ClaimInv
<1>3. pc[t] \in {"idle", "cas_bool", "cas_value", "cas_swap"}
  BY <1>0, UseFacts DEF TypeOK
<1>4. CASE Call(t)
  <2>1. /\ word' = word /\ seen' = seen /\ results' = results
        /\ \E op \in {"cas_bool", "cas_value"} : pc' = [pc EXCEPT ![t] = op]
    BY <1>4, UseFacts DEF Call, Goto
  <2>2. Takes' = Takes /\ Told' = Told
    BY <2>1 DEF Takes, Told, Of
  <2>3. \A u \in Threads : pc'[u] = "cas_swap" => pc[u] = "cas_swap"
    BY <1>0, <2>1
  <2> QED BY <1>2, <2>1, <2>2, <2>3 DEF ClaimInv
<1>5. CASE CasRead(t)
  <2>1. /\ word' = word /\ seen' = [seen EXCEPT ![t] = word] /\ results' = results
        /\ pc' = [pc EXCEPT ![t] = "cas_swap"]
    BY <1>5 DEF CasRead, Goto
  <2>2. Takes' = Takes /\ Told' = Told
    BY <2>1 DEF Takes, Told, Of
  <2>3. word = 0 => \A u \in Threads : pc'[u] = "cas_swap" => seen'[u] = 0
    BY <1>0, <1>2, <2>1
  <2> QED BY <1>2, <2>1, <2>2, <2>3 DEF ClaimInv
<1>6. CASE CasBool(t)
  <2>1. /\ word' = IF word = 0 THEN 1 ELSE word
        /\ pc' = [pc EXCEPT ![t] = "idle"] /\ seen' = seen
        /\ Return(t, "cas_bool", word, word', IF word = 0 THEN 1 ELSE 0)
    BY <1>6 DEF CasBool, Goto, CmpXchg, Swapped
  <2>2. PICK new : /\ new.op = "cas_bool" /\ new.value = (IF word = 0 THEN 1 ELSE 0)
                   /\ results' = results \cup {new}
    BY <2>1, Returned
  <2>3. Takes' = Takes
    BY <2>2 DEF Takes, Of
  <2>4. Told' = IF word = 0 THEN Told \cup {new} ELSE Told
    BY <2>2 DEF Told, Of
  <2>5. \A u \in Threads : pc'[u] = "cas_swap" => pc[u] = "cas_swap"
    BY <1>0, <2>1
  <2>6. CASE word = 0
    <3>1. word' = 1 /\ Takes' = {} /\ Told' = {new}
      BY <1>2, <2>1, <2>3, <2>4, <2>6
    <3>2. (\E x : Told' = {x}) /\ (\A r \in Takes' : r.value = 0) /\ word' # 0
      BY <3>1
    <3> QED BY <3>1, <3>2 DEF ClaimInv
  <2>7. CASE word = 1
    <3>1. word' = word /\ Takes' = Takes /\ Told' = Told
      BY <2>1, <2>3, <2>4, <2>7
    <3>2. word # 0 /\ word' # 0
      BY <2>7, <3>1
    <3> QED BY <1>2, <3>1, <3>2 DEF ClaimInv
  <2> QED BY <1>2, <2>6, <2>7
<1>7. CASE CasSwap(t)
  <2>1. /\ word' = (IF word = 0 THEN 1 ELSE word) /\ pc[t] = "cas_swap"
        /\ pc' = [pc EXCEPT ![t] = "idle"] /\ seen' = seen
        /\ Return(t, "cas_value", word, word', seen[t])
    BY <1>7 DEF CasSwap, Goto, CmpXchg
  <2>2. PICK new : /\ new.op = "cas_value" /\ new.before = word /\ new.after = word'
                   /\ new.value = seen[t] /\ results' = results \cup {new}
    BY <2>1, Returned
  <2>3. Told' = Told
    BY <2>2 DEF Told, Of
  <2>4. Takes' = IF word = 0 THEN Takes \cup {new} ELSE Takes
    BY <1>2, <2>1, <2>2 DEF Takes, Of
  <2>5. word = 0 => new.value = 0
    BY <1>2, <2>1, <2>2
  <2>6. \A u \in Threads : pc'[u] = "cas_swap" => pc[u] = "cas_swap"
    BY <1>0, <2>1
  <2>7. CASE word = 0
    <3>1. word' = 1 /\ Takes' = {new} /\ Told' = {}
      BY <1>2, <2>1, <2>3, <2>4, <2>7
    <3>2. (\E x : Takes' = {x}) /\ (\A r \in Takes' : r.value = 0) /\ word' # 0
      BY <2>5, <2>7, <3>1
    <3> QED BY <3>1, <3>2 DEF ClaimInv
  <2>8. CASE word = 1
    <3>1. word' = word /\ Takes' = Takes /\ Told' = Told
      BY <2>1, <2>3, <2>4, <2>8
    <3>2. word # 0 /\ word' # 0
      BY <2>8, <3>1
    <3> QED BY <1>2, <3>1, <3>2 DEF ClaimInv
  <2> QED BY <1>2, <2>7, <2>8
<1>8. Call(t) \/ CasBool(t) \/ CasRead(t) \/ CasSwap(t)
  BY <1>1, <1>3 DEF Step, FetchAdd, FetchSub, Add, RereadAdd, Sub, RereadSub, Goto
<1> QED BY <1>4, <1>5, <1>6, <1>7, <1>8

LEMMA Invariance == Spec => []IInv
<1>1. IInv /\ [Next]_vars => IInv'
  <2> SUFFICES ASSUME IInv, [Next]_vars PROVE IInv'
    OBVIOUS
  <2>1. CASE Next
    <3>1. use' = use
      BY <2>1 DEF Next
    <3>2. ReleaseInv'
      BY <2>1, <3>1, StepRelease DEF ReleaseInv
    <3>3. ClaimInv'
      BY <2>1, <3>1, StepClaim DEF ClaimInv
    <3> QED BY <2>1, <3>2, <3>3, StepTypeOK, StepAdd DEF IInv
  <2>2. CASE UNCHANGED vars
    BY <2>2 DEF vars, IInv, TypeOK, ResultsOfUse, InCall, AddInv, NeverBelowOwnSum, Of, ReleaseInv,
       Owners, Known, ClaimInv, Takes, Told, CallsIn
  <2> QED BY <2>1, <2>2
<1> QED BY <1>1, InitIInv, PTL DEF Spec
-----------------------------------------------------------------------------
\* The word and what its callers keep are of their types; only the helpers of a
\* use are under way.
THEOREM TypeCorrect == Spec => []TypeOK
<1>1. IInv => TypeOK
  BY DEF IInv
<1> QED BY <1>1, Invariance, PTL

\* atomic_add_then_fetch returns at least the caller's own sum, with any number
\* of threads that add and of additions.
THEOREM OwnSum == Spec => []NeverBelowOwnSum
<1>1. IInv => NeverBelowOwnSum
  BY DEF IInv
<1> QED BY <1>1, Invariance, PTL

\* Of any number of owners that release a count one learns that it was the last,
\* whichever of the two helpers each of them calls.
THEOREM LastKnows == Spec => []LastOwnerKnows
<1>1. ASSUME IInv, use = "release", \A t \in Threads : calls[t] = 1 PROVE Known
  <2>1. Owners = {}
    BY <1>1 DEF Owners
  <2>2. \A t \in Threads : pc[t] # "reread_sub"
    BY <1>1 DEF IInv, InCall, CallsIn
  <2> QED BY <1>1, <2>1, <2>2 DEF IInv, ReleaseInv
<1>2. IInv => LastOwnerKnows
  BY <1>1 DEF LastOwnerKnows, Known
<1> QED BY <1>2, Invariance, PTL

\* Of any number of threads that claim the word exactly one takes it.
THEOREM OneTakes == Spec => []OneClaimant
<1>1. \A x : Cardinality({x}) = 1
  BY FS_Singleton
<1>2. Cardinality({}) = 0
  BY FS_EmptySet
<1>3. ASSUME IInv, use = "claim"
      PROVE  /\ Cardinality(Takes) + Cardinality(Told) = IF word = 1 THEN 1 ELSE 0
             /\ \A r \in Takes : r.value = 0
  <2>1. \A r \in Takes : r.value = 0
    BY <1>3 DEF IInv, ClaimInv
  <2>2. CASE word = 0 /\ Takes = {} /\ Told = {}
    BY <1>2, <2>1, <2>2
  <2>3. CASE word = 1 /\ (\E x : Takes = {x}) /\ Told = {}
    <3>1. Cardinality(Takes) = 1 /\ Cardinality(Told) = 0
      BY <1>1, <1>2, <2>3
    <3> QED BY <2>1, <2>3, <3>1
  <2>4. CASE word = 1 /\ (\E x : Told = {x}) /\ Takes = {}
    <3>1. Cardinality(Takes) = 0 /\ Cardinality(Told) = 1
      BY <1>1, <1>2, <2>4
    <3> QED BY <2>1, <2>4, <3>1
  <2> QED BY <1>3, <2>2, <2>3, <2>4 DEF IInv, ClaimInv
<1>4. IInv => OneClaimant
  BY <1>3 DEF OneClaimant, Takes, Told
<1> QED BY <1>4, Invariance, PTL
=============================================================================
