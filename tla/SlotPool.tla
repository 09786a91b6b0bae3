------------------------------- MODULE SlotPool -------------------------------
(***************************************************************************)
(* What a pool promises its clients: a set of used slots, to which Alloc   *)
(* adds one that was free, and refuses to only when none is.               *)
(***************************************************************************)
EXTENDS Integers

CONSTANTS Capacities

VARIABLES N,       \* number of slots
          used,    \* slots in use
          index    \* what the last Alloc found, -1 when the pool was full

Slots == 0 .. N - 1

Init == N \in Capacities /\ used = {} /\ index = -1

Alloc == /\ \/ \E x \in Slots \ used : index' = x /\ used' = used \cup {x}
            \/ used = Slots /\ index' = -1 /\ used' = used
         /\ N' = N

Claim(x)   == used' = used \cup {x} /\ UNCHANGED <<N, index>>
Release(x) == used' = used \ {x} /\ UNCHANGED <<N, index>>

Next == Alloc \/ \E x \in Slots : Claim(x) \/ Release(x)

Spec == Init /\ [][Next]_<<N, used, index>>
=============================================================================
