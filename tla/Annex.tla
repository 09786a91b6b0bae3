--------------------------------- MODULE Annex ---------------------------------
(***************************************************************************)
(* annex_t: a region, and an allocator to fall back on when it is full.    *)
(* The fallback is any allocator_t: it may fail whenever it is asked, and  *)
(* gives blocks at addresses of its own, outside the region's buffer.      *)
(***************************************************************************)
EXTENDS BumpBlock, Sequences

CONSTANTS Capacity,     \* bytes of the region's buffer
          Sizes,        \* sizes the client asks for
          Tags,         \* bytes the client fills its blocks with
          FarAddresses  \* where the fallback puts blocks, far enough apart

ASSUME AnnexAssumption ==
    /\ Capacity \in Nat
    /\ Sizes \subseteq Nat
    /\ Tags \subseteq Nat
    /\ FarAddresses \subseteq Nat
    /\ \A p \in FarAddresses : p > Capacity
    /\ \A p, q \in FarAddresses, n \in Sizes : p < q => p + n <= q

VARIABLES near,         \* the region: [size, capacity, mem]
          far,          \* the fallback's blocks: from address to contents
          live          \* the client's blocks: from address to [len, tag]

vars == <<near, far, live>>

Init == /\ near = [size |-> 0, capacity |-> Capacity,
                   mem |-> [a \in 0 .. Capacity - 1 |-> 0]]
        /\ far = <<>>
        /\ live = <<>>

-----------------------------------------------------------------------------
(* The fallback: what each call may return, and the blocks it then has.    *)

WithBlock(f, q, c) == [x \in DOMAIN f \cup {q} |-> IF x = q THEN c ELSE f[x]]
Without(f, q)      == [x \in DOMAIN f \ {q} |-> f[x]]

FallbackFails(f) == [far |-> f, buf |-> NULL]

FallbackAlloc(f, n) ==
    {FallbackFails(f)} \cup
    {[far |-> WithBlock(f, q, [i \in 1 .. n |-> 0]), buf |-> q] :
        q \in FarAddresses \ DOMAIN f}

\* As much of c as n bytes hold, and zeros.
Resized(c, n) == [i \in 1 .. n |-> IF i <= Len(c) THEN c[i] ELSE 0]

FallbackRemap(f, buf, n) ==
    IF buf = NULL
    THEN FallbackAlloc(f, n)
    ELSE {FallbackFails(f)} \cup
         {[far |-> WithBlock(Without(f, buf), q, Resized(f[buf], n)), buf |-> q] :
             q \in (FarAddresses \ DOMAIN f) \cup {buf}}

-----------------------------------------------------------------------------
(* annex_t: the new region and fallback, and the address returned.         *)

\* region_is_owned.  No address of a block is NULL, which is owned by none.
IsOwned(buf) == buf # NULL /\ buf < Capacity

\* The outcome once the fallback has returned "r".
Outcome(b, r) == [near |-> b, far |-> r.far, buf |-> r.buf]

AnnexAlloc(b, f, n) ==
    LET new == RegionAlloc(b, n)
    IN  IF new.buf # NULL
        THEN {[near |-> new.block, far |-> f, buf |-> new.buf]}
        ELSE {Outcome(b, r) : r \in FallbackAlloc(f, n)}

\* memcpy from the region to the block at q of the fallback.
CopyOut(b, buf, f, q) ==
    [f EXCEPT ![q] = [i \in DOMAIN @ |->
                        IF i <= BufferSize(b, buf) THEN b.mem[buf + i - 1] ELSE @[i]]]

\* MUTANT of AnnexRemapOwned: the contents stay behind.
AnnexRemapOwnedEmpty(b, f, buf, n) ==
    LET new == RegionRemap(b, buf, n)
    IN  IF new.buf # NULL
        THEN {[near |-> new.block, far |-> f, buf |-> new.buf]}
        ELSE {Outcome(b, r) : r \in FallbackAlloc(f, n)}

\* annex_remap of a block in the region.  What moves out is not freed there.
AnnexRemapOwned(b, f, buf, n) ==
    LET new == RegionRemap(b, buf, n)
    IN  IF new.buf # NULL
        THEN {[near |-> new.block, far |-> f, buf |-> new.buf]}
        ELSE {IF r.buf = NULL
              THEN Outcome(b, r)
              ELSE [near |-> b, far |-> CopyOut(b, buf, r.far, r.buf), buf |-> r.buf] :
                 r \in FallbackAlloc(f, n)}

\* annex_remap.  The block allocated for NULL is dropped, and the fallback is
\* asked for another.
AnnexRemap(b, f, buf, n) ==
    LET onFallback(a) == {Outcome(a.near, r) : r \in FallbackRemap(a.far, buf, n)}
    IN  IF buf = NULL
        THEN UNION {onFallback(a) : a \in AnnexAlloc(b, f, n)}
        ELSE IF IsOwned(buf)
        THEN AnnexRemapOwned(b, f, buf, n)
        ELSE onFallback([near |-> b, far |-> f])

-----------------------------------------------------------------------------
(* The client.                                                             *)

\* The client fills the bytes of its n that it did not have before, and gets
\* the block at "buf" for the one at p.
Receives(o, p, had, n, tag) ==
    /\ IF IsOwned(o.buf)
       THEN /\ near' = [o.near EXCEPT !.mem = Fill(@, o.buf + had, n - had, tag)]
            /\ far' = o.far
       ELSE /\ near' = o.near
            /\ far' = [o.far EXCEPT ![o.buf] =
                         [i \in DOMAIN @ |-> IF i > had THEN tag ELSE @[i]]]
    /\ live' = [x \in (DOMAIN live \ {p}) \cup {o.buf} |->
                   IF x = o.buf THEN [len |-> n, tag |-> tag] ELSE live[x]]

\* A NULL is all the client gets; the allocator may have changed all the same.
ReceivesNone(o) == near' = o.near /\ far' = o.far /\ UNCHANGED live

Alloc(n, tag) ==
    \E o \in AnnexAlloc(near, far, n) :
        IF o.buf = NULL THEN ReceivesNone(o) ELSE Receives(o, NULL, 0, n, tag)

RemapNull(n, tag) ==
    \E o \in AnnexRemap(near, far, NULL, n) :
        IF o.buf = NULL THEN ReceivesNone(o) ELSE Receives(o, NULL, 0, n, tag)

Remap(p, n) ==
    \E o \in AnnexRemap(near, far, p, n) :
        IF o.buf = NULL THEN ReceivesNone(o)
                        ELSE Receives(o, p, live[p].len, n, live[p].tag)

Free(p) ==
    /\ IF IsOwned(p) THEN near' = Release(near, p) /\ UNCHANGED far
                     ELSE far' = Without(far, p) /\ UNCHANGED near
    /\ live' = Without(live, p)

Next == \/ \E n \in Sizes, tag \in Tags : Alloc(n, tag) \/ RemapNull(n, tag)
        \/ \E p \in DOMAIN live :
              \/ \E n \in Sizes : Remap(p, n)
              \/ Free(p)

Spec == Init /\ [][Next]_vars

-----------------------------------------------------------------------------
(* Properties.                                                             *)

\* Each block of the client is one of the allocator annex_free and annex_remap
\* hand it to: in the used part of the region, or one of the fallback's.
EachHasItsOwner ==
    \A p \in DOMAIN live :
        IF IsOwned(p) THEN p + live[p].len <= near.size ELSE p \in DOMAIN far

\* What the client sees in its blocks.
Seen == [p \in DOMAIN live |->
            IF IsOwned(p) THEN [i \in 1 .. live[p].len |-> near.mem[p + i - 1]] ELSE far[p]]

\* The annex keeps the promise of an allocator, across the move of a block from
\* the region to the fallback too.
Abstract == INSTANCE Heap WITH blocks <- Seen
ImplementsHeap == Abstract!Spec
=============================================================================
