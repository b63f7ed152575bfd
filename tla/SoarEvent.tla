----------------------------- MODULE SoarEvent -----------------------------
(***************************************************************************)
(* A SoarEvent object over epoll (network/event.h, event/epoll.cc): the    *)
(* interest list of the system, the descriptors with news since they were  *)
(* last reported, and the error kept by the object.  soar/ registers level *)
(* triggered, sample/soar/ edge triggered (EPOLLET).                       *)
(*                                                                         *)
(* What is ready is not known here: the operators are given the ready and  *)
(* the broken descriptors.  SoarApp uses NewEvent and EventLoop, with a    *)
(* positive capacity (its refusal of another one is not reached);          *)
(* ModifyEvent and DeleteEvent have no caller in the repository.           *)
(***************************************************************************)
EXTENDS Naturals, FiniteSets

CONSTANT MAX_EVENTS    \* the capacity EventLoop is called with

VARIABLES copy,        \* "soar" or "sample"
          interest,    \* entries [fd, word]: word is the data union
          pending,     \* descriptors with news not yet reported
          error_id_    \* what get_last_error() returns, "none" for 0

eventVars == <<copy, interest, pending, error_id_>>

\* Mutants: no fallback for an errno the map does not know; EventLoop fills one
\* item too many.
ErrorOf_NoFallback(errno) ==
  CASE errno \in {"EINVAL", "EBADF", "ENOENT"} -> "INVALID"
    [] errno = "EEXIST" -> "ALREAD_IN_WATCH"
    [] errno = "ENOMEM" -> "NOMEM"
    [] errno = "EINTR" -> "INTERRUPT"
    [] OTHER -> "none"
Capacity_OneMore == MAX_EVENTS + 1

\* err_map_: what it has no entry for is 0.
err_map_(errno) == CASE errno \in {"EINVAL", "EBADF", "ENOENT"} -> "INVALID"
                     [] errno = "ENFILE" -> "FDLIMIT"
                     [] errno = "ENOMEM" -> "NOMEM"
                     [] errno = "EEXIST" -> "ALREAD_IN_WATCH"
                     [] errno = "EFAULT" -> "UNWRITABLE_MEM"
                     [] errno = "EINTR" -> "INTERRUPT"
                     [] OTHER -> "none"
ErrorOf(errno) == IF err_map_(errno) = "none" THEN "OTHER_ERR" ELSE err_map_(errno)

ErrorIds == {"none", "OTHER_ERR", "INVALID", "FDLIMIT", "NOMEM", "ALREAD_IN_WATCH",
             "UNWRITABLE_MEM", "INTERRUPT"}
\* The errors epoll_ctl and epoll_wait may give here; ENOSPC is in no map.
CtlErrnos == {"ENOMEM", "ENOSPC"}
WaitErrnos == {"EINTR"}

\* ev.data.fd is stored, then ev.data.ptr over it.
Union(fd, ptr) == ptr
NULL == 0

Capacity == MAX_EVENTS
-----------------------------------------------------------------------------
\* NewEvent(item): returns 0.  epoll reports what is ready when it is added.
NewEvent(fd, data, ready) ==
  /\ interest' = interest \cup {[fd |-> fd, word |-> Union(fd, data)]}
  /\ pending' = IF fd \in ready THEN pending \cup {fd} ELSE pending
  /\ UNCHANGED error_id_

\* Returns 1.
NewEventFails ==
  /\ \E errno \in CtlErrnos : error_id_' = ErrorOf(errno)
  /\ UNCHANGED <<interest, pending>>

\* The system has news of a descriptor.
News(fd) == pending' = IF \E w \in interest : w.fd = fd THEN pending \cup {fd} ELSE pending

\* What epoll_wait would report: ready, and for the sample not yet reported.
Reportable(ready) ==
  {w \in interest : w.fd \in ready /\ (copy = "sample" => w.fd \in pending)}

\* An EventItem as filled by EventLoop: get_fd() is what the union holds, and
\* is_erroccured(); of is the descriptor it came from, for checking only.
Item(w, broken) == [fd |-> w.word, err |-> w.fd \in broken, of |-> w.fd]

\* EventLoop returns the items out: all there are, or as many as fit.
EventLoop(ready, broken, out) ==
  /\ \E ws \in SUBSET Reportable(ready) :
       /\ ws # {}
       /\ Cardinality(ws) <= Capacity
       /\ ws = Reportable(ready) \/ Cardinality(ws) = Capacity
       /\ out = {Item(w, broken) : w \in ws}
       /\ pending' = pending \ {w.fd : w \in ws}
  /\ UNCHANGED <<interest, error_id_>>

\* It returns 0 and leaves the reason (and, in the sample, the array evs, which it
\* has taken from the heap).
EventLoopFails ==
  /\ \E errno \in WaitErrnos : error_id_' = ErrorOf(errno)
  /\ UNCHANGED <<interest, pending>>
=============================================================================
