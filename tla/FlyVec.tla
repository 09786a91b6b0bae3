-------------------------------- MODULE FlyVec --------------------------------
(***************************************************************************)
(* ty_flyvec: a vector that keeps its length and its values' address only. *)
(* The room it has is not kept: a push makes more when the length is a     *)
(* power of two.  A vector here is its length and the bytes it was given.  *)
(***************************************************************************)
EXTENDS Integers

CONSTANT FlySizeT       \* 2^64

ASSUME FlyVecAssumption == FlySizeT \in Nat \ {0}

\* (len & (len - 1)) == 0, for len < FlySizeT.
IsPowerOfTwoOrZero(len) == len = 0 \/ \E k \in 0 .. len : 2^k = len

NewFlyCapacity(len) == IF len = 0 THEN 1 ELSE (len * 2) % FlySizeT

\* MUTANT of FlyCapacityFits: the bytes are not checked for wrapping round.
FlyCapacityFitsUnchecked(len, capacity, size) == capacity > len

FlyCapacityFits(len, capacity, size) ==
    capacity <= (FlySizeT - 1) \div size /\ capacity > len

\* flyvec_resize_: what it may leave; realloc may fail, and then nothing changes.
FlyResize(vec, size) ==
    LET capacity == NewFlyCapacity(vec.len)
        failed   == [ok |-> FALSE, vec |-> vec]
    IN  IF ~IsPowerOfTwoOrZero(vec.len) THEN {[ok |-> TRUE, vec |-> vec]}
        ELSE {failed} \cup
             IF FlyCapacityFits(vec.len, capacity, size)
             THEN {[ok |-> TRUE, vec |-> [vec EXCEPT !.bytes = (size * capacity) % FlySizeT]]}
             ELSE {}

\* FLY_PUSH writes the value at the old length.
FlyPush(vec, size) ==
    {IF r.ok THEN [r EXCEPT !.vec.len = @ + 1] ELSE r : r \in FlyResize(vec, size)}
=============================================================================
