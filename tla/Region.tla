-------------------------------- MODULE Region --------------------------------
(***************************************************************************)
(* region_t with a client that holds any number of its blocks, fills each  *)
(* one with a byte of its own, and remaps and frees them in any order.     *)
(***************************************************************************)
EXTENDS BumpBlock, Sequences

CONSTANTS Capacity,     \* bytes of the buffer given to region_init
          Sizes,        \* sizes the client asks for, below SIZE_MAX by a
                        \* header and a padding: no sum wraps round
          Tags          \* bytes the client fills its blocks with

ASSUME RegionAssumption == /\ Capacity \in Nat
                           /\ Sizes \subseteq Nat
                           /\ Tags \subseteq Nat

VARIABLES region,       \* [size, capacity, mem]
          live          \* the client's blocks: from address to [len, tag]

vars == <<region, live>>

Init == /\ region = [size |-> 0, capacity |-> Capacity,
                     mem |-> [a \in 0 .. Capacity - 1 |-> 0]]
        /\ live = <<>>

\* The client's blocks once the one at p is gone and q is as b says.
Moved(p, q, b) ==
    [x \in (DOMAIN live \ {p}) \cup {q} |-> IF x = q THEN b ELSE live[x]]

\* The client fills the bytes it did not have in the block before.
Written(block, buf, had, n, tag) ==
    [block EXCEPT !.mem = Fill(@, buf + had, n - had, tag)]

Alloc(n, tag) ==
    LET new == RegionAlloc(region, n)
    IN  IF new.buf = NULL
        THEN UNCHANGED vars
        ELSE /\ region' = Written(new.block, new.buf, 0, n, tag)
             /\ live' = Moved(new.buf, new.buf, [len |-> n, tag |-> tag])

\* region_remap(NULL, n) allocates.
RemapNull(n, tag) ==
    LET new == RegionRemap(region, NULL, n)
    IN  IF new.buf = NULL
        THEN UNCHANGED vars
        ELSE /\ region' = Written(new.block, new.buf, 0, n, tag)
             /\ live' = Moved(new.buf, new.buf, [len |-> n, tag |-> tag])

Remap(p, n) ==
    LET new == RegionRemap(region, p, n)
        old == live[p]
    IN  IF new.buf = NULL
        THEN UNCHANGED vars
        ELSE /\ region' = Written(new.block, new.buf, old.len, n, old.tag)
             /\ live' = Moved(p, new.buf, [len |-> n, tag |-> old.tag])

Free(p) ==
    /\ region' = Release(region, p)
    /\ live' = [x \in DOMAIN live \ {p} |-> live[x]]

Next == \/ \E n \in Sizes, tag \in Tags : Alloc(n, tag) \/ RemapNull(n, tag)
        \/ \E p \in DOMAIN live :
              \/ \E n \in Sizes : Remap(p, n)
              \/ Free(p)

Spec == Init /\ [][Next]_vars

-----------------------------------------------------------------------------
(* Properties.                                                             *)

\* Bytes the allocation at p occupies, header included, as its header says.
Start(p) == p - HeaderSize
End(p)   == p + BufferSize(region, p)

TypeOK ==
    /\ region \in [size : 0 .. Capacity, capacity : {Capacity},
                   mem : [0 .. Capacity - 1 -> Nat]]
    /\ DOMAIN live \subseteq HeaderSize .. Capacity
    /\ live \in [DOMAIN live -> [len : Nat, tag : Tags]]

\* Every live block, with its header, lies in the used part of the region and
\* overlaps no other; the header still holds a size that covers the block.
BlocksDisjoint ==
    /\ \A p \in DOMAIN live : /\ Start(p) >= 0
                              /\ live[p].len <= BufferSize(region, p)
                              /\ End(p) <= region.size
    /\ \A p, q \in DOMAIN live : p < q => End(p) <= Start(q)

\* Headers stay aligned through every free and remap: without it a remap of
\* the last block would not grow it in place.
HeadersAligned == \A p \in DOMAIN live : Start(p) % MaxAlign = 0

\* The client finds in each block the bytes it wrote, wherever it was moved.
ContentsKept ==
    \A p \in DOMAIN live : \A i \in 0 .. live[p].len - 1 :
        region.mem[p + i] = live[p].tag

\* What the client sees in its blocks.
Seen == [p \in DOMAIN live |-> [i \in 1 .. live[p].len |-> region.mem[p + i - 1]]]

\* The region implements the abstract allocator.
Abstract == INSTANCE Heap WITH blocks <- Seen
ImplementsHeap == Abstract!Spec
=============================================================================
