------------------------------- MODULE BumpBlock -------------------------------
(***************************************************************************)
(* The arithmetic of ty_alloc's bump allocation, as operators on a record  *)
(* [size, capacity, mem]: a region_t, or a block of an arena_t.  Memory is *)
(* a function of byte addresses relative to "data"; an allocation is a     *)
(* header of HeaderSize bytes that holds its size, and the payload, whose  *)
(* address is what the client gets.  NULL is address 0, which is that of   *)
(* no payload.                                                             *)
(***************************************************************************)
EXTENDS Integers

CONSTANTS HeaderSize,   \* sizeof(size_t)
          MaxAlign,     \* ALLOCATOR_MAX_ALIGNMENT
          U32           \* one more than UINT32_MAX

ASSUME BumpAssumption == /\ HeaderSize \in Nat \ {0}
                         /\ MaxAlign \in Nat \ {0}
                         /\ U32 \in Nat \ {0}

NULL == 0

\* MUTANT of AlignmentLoss: the offset itself instead of what it lacks.
AlignmentLossOffset(n) == n % MaxAlign

\* _alignment_loss: what n lacks of a multiple of MaxAlign.
AlignmentLoss(n) == IF n % MaxAlign = 0 THEN 0 ELSE MaxAlign - (n % MaxAlign)

Fill(mem, from, n, value) ==
    [a \in DOMAIN mem |-> IF a \in from .. from + n - 1 THEN value ELSE mem[a]]

\* memcpy of n bytes; source and destination do not overlap.
Copy(mem, to, from, n) ==
    [a \in DOMAIN mem |-> IF a \in to .. to + n - 1 THEN mem[a - to + from] ELSE mem[a]]

\* region_buffer_size: the header before a payload.
BufferSize(b, buf) == b.mem[buf - HeaderSize]

\* _internal_is_last_allocated, _is_last_allocated_arena.
IsLast(b, buf) == b.size - BufferSize(b, buf) = buf

\* A header and n bytes of payload at the next aligned address.
Place(b, n) ==
    LET at == b.size + AlignmentLoss(b.size)
    IN  [block |-> [b EXCEPT !.size = at + HeaderSize + n,
                             !.mem = Fill(@, at, HeaderSize, n)],
         buf   |-> at + HeaderSize]

\* MUTANT of Release: the padding of the next allocation is given back too.
ReleasePadded(b, buf) ==
    IF IsLast(b, buf)
    THEN [b EXCEPT !.size = @ - (BufferSize(b, buf) + HeaderSize + AlignmentLoss(b.size))]
    ELSE b

\* region_free, arena_free: only the last allocation is given back.
Release(b, buf) ==
    IF IsLast(b, buf)
    THEN [b EXCEPT !.size = @ - (BufferSize(b, buf) + HeaderSize)]
    ELSE b

\* The uint32_t bytes_left of region_remap and arena_remap.
BytesLeft(b, buf) == (b.capacity - b.size + BufferSize(b, buf)) % U32

-----------------------------------------------------------------------------
(* region_t                                                                *)

Failed(b) == [block |-> b, buf |-> NULL]

\* MUTANT of RegionFits: the bytes lost to alignment are not counted.
RegionFitsUnaligned(b, n) == n + HeaderSize <= b.capacity - b.size

RegionFits(b, n) == n + HeaderSize + AlignmentLoss(b.size) <= b.capacity - b.size

RegionAlloc(b, n) ==
    IF n # 0 /\ RegionFits(b, n) THEN Place(b, n) ELSE Failed(b)

\* MUTANT of RegionRemap: moved without copying.
RegionRemapNoCopy(b, buf, n) ==
    IF buf # NULL /\ BufferSize(b, buf) >= n
    THEN [block |-> b, buf |-> buf]
    ELSE IF buf # NULL /\ IsLast(b, buf) /\ BytesLeft(b, buf) >= n
    THEN RegionAlloc(Release(b, buf), n)
    ELSE RegionAlloc(b, n)

\* MUTANT of RegionRemap: the last block grows and the region does not.
RegionRemapLonger(b, buf, n) ==
    IF buf # NULL /\ \/ BufferSize(b, buf) >= n
                     \/ IsLast(b, buf) /\ BytesLeft(b, buf) >= n
    THEN [block |-> b, buf |-> buf]
    ELSE RegionAlloc(b, n)

RegionRemap(b, buf, n) ==
    IF buf = NULL
    THEN RegionAlloc(b, n)
    ELSE IF BufferSize(b, buf) >= n
    THEN [block |-> b, buf |-> buf]
    ELSE IF IsLast(b, buf) /\ BytesLeft(b, buf) >= n
    THEN RegionAlloc(Release(b, buf), n)
    ELSE LET new == RegionAlloc(b, n)
         IN  IF new.buf = NULL
             THEN new
             ELSE [new EXCEPT !.block.mem =
                                 Copy(@, new.buf, buf, BufferSize(b, buf))]
=============================================================================
