-------------------------------- MODULE Vector --------------------------------
(***************************************************************************)
(* A Vector of ty_alloc in an arena it shares with another client: the     *)
(* client of Arena, whose blocks keep the vector's from being the last and *)
(* fill the arena's blocks.  Elements are one byte.                        *)
(***************************************************************************)
EXTENDS Arena

CONSTANTS FirstCapacity,\* elements a vector first has room for (16)
          Element,      \* the client's i-th element is Element + i
          MaxPushN,     \* bound: most elements pushed at once
          MaxElements   \* bound: most elements in the vector

ASSUME VectorAssumption == /\ {MaxPushN, MaxElements, Element} \subseteq Nat
                           /\ FirstCapacity \in Nat \ {0}

\* The capacity of a vector of MaxElements.  A careful client's vector stays so
\* small that ...
LargestCapacity == Doubled(FirstCapacity, MaxElements)

\* ... no block for it needs more than UINT32_MAX bytes.
ASSUME CapacityAssumption == Careful => Bearable(LargestCapacity)

VARIABLES vec,          \* [size, capacity, data]
          pushed        \* what was pushed and neither popped nor cleared

vectorVars == <<vars, vec, pushed>>

\* Vector_init
EmptyVector == [size |-> 0, capacity |-> 0, data |-> NULL]

VectorInit == Init /\ vec = EmptyVector /\ pushed = <<>>

\* The capacity, or 16, doubled until it is enough.
NewCapacity(v, needed) ==
    Doubled(IF v.capacity = 0 THEN FirstCapacity ELSE v.capacity, needed)

\* MUTANT of Ensure: the capacity grows even if the block does not.
EnsureAnyway(v, add) ==
    LET capacity == NewCapacity(v, v.size + add)
    IN  IF v.size + add <= v.capacity
        THEN {[ok |-> TRUE, blocks |-> blocks, current |-> current, vec |-> v]}
        ELSE {[ok |-> o.buf # NULL, blocks |-> o.blocks, current |-> o.current,
               vec |-> [v EXCEPT !.capacity = capacity,
                                 !.data = IF o.buf = NULL THEN @ ELSE o.buf]] :
                 o \in ArenaRemap(blocks, current, v.data, capacity)}

\* Vector_ensure: whether there is room for "add" more, and what it changed.
Ensure(v, add) ==
    LET capacity == NewCapacity(v, v.size + add)
    IN  IF v.size + add <= v.capacity
        THEN {[ok |-> TRUE, blocks |-> blocks, current |-> current, vec |-> v]}
        ELSE {[ok |-> o.buf # NULL, blocks |-> o.blocks, current |-> o.current,
               vec |-> IF o.buf = NULL
                       THEN v
                       ELSE [v EXCEPT !.capacity = capacity, !.data = o.buf]] :
                 o \in ArenaRemap(blocks, current, v.data, capacity)}

\* memcpy of n elements of the client behind the ones the vector has.
Written(mem, from, size, n) ==
    [a \in DOMAIN mem |-> IF a \in from + size .. from + size + n - 1
                          THEN Element + (a - from + 1) ELSE mem[a]]

\* Vector_push, for n = 1, and Vector_pushN.
PushN(n) ==
    /\ vec.size + n <= MaxElements
    /\ vec.size + n > vec.capacity => Usable
    /\ \E e \in Ensure(vec, n) :
          /\ current' = e.current
          /\ IF e.ok
             THEN /\ blocks' = [e.blocks EXCEPT ![BlockOf(e.vec.data)].mem =
                                   Written(@, Offset(e.vec.data), e.vec.size, n)]
                  /\ vec' = [e.vec EXCEPT !.size = @ + n]
                  /\ pushed' = pushed \o [i \in 1 .. n |-> Element + vec.size + i]
             ELSE blocks' = e.blocks /\ vec' = e.vec /\ UNCHANGED pushed
    /\ UNCHANGED <<first_block_size, live>>

\* Vector_pop
Pop == /\ vec.size > 0
       /\ vec' = [vec EXCEPT !.size = @ - 1]
       /\ pushed' = SubSeq(pushed, 1, Len(pushed) - 1)
       /\ UNCHANGED vars

\* Vector_clear
Clear == /\ vec' = [vec EXCEPT !.size = 0]
         /\ pushed' = <<>>
         /\ UNCHANGED vars

\* Vector_deinit.  Of a vector that never had a block it hands NULL to the
\* arena's free, which dies on it.
VectorDeinit ==
    /\ vec.data # NULL
    /\ Usable
    /\ blocks' = ArenaRelease(blocks, current, vec.data)
    /\ vec' = EmptyVector
    /\ pushed' = <<>>
    /\ UNCHANGED <<first_block_size, current, live>>

\* A step of the other client.
OtherClient ==
    /\ \/ \E n \in Sizes, tag \in Tags : Alloc(n, tag) \/ RemapNull(n, tag)
       \/ \E p \in DOMAIN live : Free(p) \/ \E n \in Sizes : Remap(p, n)
    /\ UNCHANGED <<vec, pushed>>

\* The arena is emptied and the vector, whose data is gone with it, is
\* initialized anew.  A careful client minds the vector's sizes in a reset too.
StartOver ==
    /\ \/ /\ Careful => LargestCapacity + HeaderSize <= first_block_size
          /\ Reset
       \/ Deinit
    /\ vec' = EmptyVector
    /\ pushed' = <<>>

VectorNext == \/ \E n \in 1 .. MaxPushN : PushN(n)
              \/ Pop
              \/ Clear
              \/ VectorDeinit
              \/ OtherClient
              \/ StartOver

VectorSpec == VectorInit /\ [][VectorNext]_vectorVars

-----------------------------------------------------------------------------
(* Properties.                                                             *)

\* The vector never believes it has more room than the arena gave it.
RoomIsReal ==
    /\ vec.size <= vec.capacity
    /\ vec.capacity > 0 => vec.data # NULL /\ vec.capacity <= OldSize(blocks, vec.data)

\* The vector holds what was pushed, in order, wherever growing moved it and
\* whichever pushes failed for want of memory.
HoldsPushed ==
    /\ vec.size = Len(pushed)
    /\ \A i \in 1 .. vec.size :
          blocks[BlockOf(vec.data)].mem[Offset(vec.data) + i - 1] = pushed[i]
=============================================================================
