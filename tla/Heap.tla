-------------------------------- MODULE Heap --------------------------------
(***************************************************************************)
(* What an allocator promises its clients: the memory regions it has given *)
(* out and not taken back never share a byte.                              *)
(***************************************************************************)
EXTENDS Integers

VARIABLE regions    \* the regions clients own, as [lo |-> first byte, hi |-> one past the last]

Init == regions = {}

Apart(r, s) == r.hi <= s.lo \/ s.hi <= r.lo

Give == \E r \in regions' : /\ r \notin regions
                            /\ r.lo < r.hi
                            /\ \A s \in regions : Apart(r, s)
                            /\ regions' = regions \cup {r}

TakeBack == \E r \in regions : regions' = regions \ {r}

Next == Give \/ TakeBack

Spec == Init /\ [][Next]_regions
=============================================================================
