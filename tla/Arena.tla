--------------------------------- MODULE Arena ---------------------------------
(***************************************************************************)
(* arena_t: bump allocation in a growing list of blocks, each taken from   *)
(* an allocator that may fail.  An address is Stride times the number of   *)
(* a block plus an offset in it, so NULL is no address.  A call that finds *)
(* current_block to be NULL dies on it and has no next state.              *)
(***************************************************************************)
EXTENDS BumpBlock, Sequences

CONSTANTS FirstBlockSizes,  \* values of block_size given to arena_init
          Sizes,            \* sizes the client asks for
          Tags,             \* bytes the client fills its blocks with
          Stride,           \* more than the end of any block and overrun
          SizeT,            \* one more than SIZE_MAX
          MaxBlocks,        \* bound: blocks the backing allocator can give
          Careful           \* whether the client keeps to what the code can bear

ASSUME ArenaAssumption ==
    /\ {Stride, SizeT, MaxBlocks} \subseteq Nat
    /\ FirstBlockSizes \subseteq Nat
    /\ Sizes \subseteq Nat
    /\ Tags \subseteq Nat
    /\ Careful \in BOOLEAN
    /\ U32 <= Stride /\ U32 <= SizeT

\* No block needs more than UINT32_MAX bytes to hold n, since a capacity that
\* was doubled to be enough is less than twice that.
Bearable(n) == 2 * (n + HeaderSize) <= U32

\* A careful client keeps its sizes so (a block cut at UINT32_MAX is no multiple
\* of the alignment, nor are the doublings of 1 that a first size of 0 begins).
ASSUME CarefulAssumption ==
    Careful => /\ \A size \in FirstBlockSizes : 0 < size /\ size < U32
               /\ \A n \in Sizes : Bearable(n)

VARIABLES first_block_size,
          blocks,       \* the list, first to last_block: <<[size, capacity, mem]>>
          current,      \* current_block, by its number; NULL is 0
          live          \* the client's blocks: from address to [len, tag]

vars == <<first_block_size, blocks, current, live>>

\* A careful client gives a first block size that is a multiple of the
\* alignment (BlockBytesLeft says why) ...
Init == /\ first_block_size \in FirstBlockSizes
        /\ Careful => first_block_size % MaxAlign = 0
        /\ blocks = <<>> /\ current = NULL /\ live = <<>>

Addr(k, off) == k * Stride + off
BlockOf(p)   == p \div Stride
Offset(p)    == p % Stride

-----------------------------------------------------------------------------
(* The arena, as the blocks, the current one and the address returned.     *)

\* MUTANT of BlockBytesLeft: the padding is not counted.
BlockBytesLeftUnaligned(b) == (b.capacity - b.size) % SizeT

\* _block_bytes_left, a size_t: a size beyond the capacity makes it huge.
BlockBytesLeft(b) == (b.capacity - (b.size + AlignmentLoss(b.size))) % SizeT

\* a, which is not 0, doubled until it is at least n: as many turns are enough.
Doubled(a, n) ==
    LET d[turn \in 0 .. n] ==
            IF turn = 0 THEN a ELSE LET c == d[turn - 1] IN IF c < n THEN 2 * c ELSE c
    IN  d[n]

\* The capacity of a new block: the last one's, doubled until it is enough,
\* and no more than UINT32_MAX.
Grown(bs, requested) ==
    LET base   == IF bs = <<>> THEN first_block_size ELSE bs[Len(bs)].capacity
        enough == Doubled(IF base < 1 THEN 1 ELSE base, requested)
    IN  IF enough > U32 - 1 THEN U32 - 1 ELSE enough

\* _block_alloc: the list with a new block or, when the backing allocator
\* fails for the block or its data, as it was.
BlockAlloc(bs, requested) ==
    LET capacity == Grown(bs, requested)
    IN  {Append(bs, [size |-> 0, capacity |-> capacity,
                     mem |-> [a \in 0 .. capacity - 1 |-> 0]]) : k \in Len(bs) .. MaxBlocks - 1}
        \cup {bs}

Nothing(bs, cur) == [blocks |-> bs, current |-> cur, buf |-> NULL]

\* A header and n bytes at the end of block "cur".
PlaceIn(bs, cur, n) ==
    LET new == Place(bs[cur], n)
    IN  [blocks |-> [bs EXCEPT ![cur] = new.block], current |-> cur,
         buf |-> Addr(cur, new.buf)]

\* The loop of arena_t_alloc, which leaves after one turn: the next block is
\* taken without asking what is left of it.
Advance(bs, cur, n) ==
    IF BlockBytesLeft(bs[cur]) >= n + HeaderSize
    THEN {PlaceIn(bs, cur, n)}
    ELSE IF cur < Len(bs)
    THEN {PlaceIn(bs, cur + 1, n)}
    ELSE {IF grown = bs THEN Nothing(bs, NULL) ELSE PlaceIn(grown, Len(grown), n) :
             grown \in BlockAlloc(bs, n + HeaderSize)}

ArenaAlloc(bs, cur, n) ==
    IF n = 0
    THEN {Nothing(bs, cur)}
    ELSE IF bs # <<>>
    THEN Advance(bs, cur, n)
    ELSE UNION {IF first = <<>> THEN {Nothing(bs, cur)} ELSE Advance(first, 1, n) :
                   first \in BlockAlloc(bs, n + HeaderSize)}

\* _is_last_allocated_arena: only the current block's last allocation is.
IsLastOfArena(bs, cur, buf) == BlockOf(buf) = cur /\ IsLast(bs[cur], Offset(buf))

\* MUTANT of ArenaRelease: the last allocation of any block.
ArenaReleaseAny(bs, cur, buf) ==
    [bs EXCEPT ![BlockOf(buf)] = Release(@, Offset(buf)),
               ![cur] = Release(@, Offset(buf))]

ArenaRelease(bs, cur, buf) ==
    IF IsLastOfArena(bs, cur, buf) THEN [bs EXCEPT ![cur] = Release(@, Offset(buf))] ELSE bs

OldSize(bs, buf) == BufferSize(bs[BlockOf(buf)], Offset(buf))

\* memcpy of the old contents, to another block or further on in the same.
CopyOver(bs, buf, to, n) ==
    LET source == bs[BlockOf(buf)].mem
        at     == Offset(to)
    IN  [bs EXCEPT ![BlockOf(to)].mem =
            [a \in DOMAIN @ |-> IF a \in at .. at + n - 1
                                THEN source[a - at + Offset(buf)] ELSE @[a]]]

\* MUTANT of ArenaRemap: moved without copying.
ArenaRemapNoCopy(bs, cur, buf, n) ==
    IF buf = NULL \/ bs = <<>>
    THEN ArenaAlloc(bs, cur, n)
    ELSE IF OldSize(bs, buf) >= n
    THEN {[blocks |-> bs, current |-> cur, buf |-> buf]}
    ELSE ArenaAlloc(bs, cur, n)

ArenaRemap(bs, cur, buf, n) ==
    IF buf = NULL \/ bs = <<>>
    THEN ArenaAlloc(bs, cur, n)
    ELSE IF OldSize(bs, buf) >= n
    THEN {[blocks |-> bs, current |-> cur, buf |-> buf]}
    ELSE IF IsLastOfArena(bs, cur, buf) /\ BytesLeft(bs[cur], Offset(buf)) >= n
    THEN ArenaAlloc(ArenaRelease(bs, cur, buf), cur, n)
    ELSE {IF o.buf = NULL
          THEN o
          ELSE [o EXCEPT !.blocks = CopyOver(@, buf, o.buf, OldSize(bs, buf))] :
             o \in ArenaAlloc(bs, cur, n)}

\* arena_reset leaves the blocks and empties them.
Emptied(bs) == [k \in DOMAIN bs |-> [bs[k] EXCEPT !.size = 0]]

-----------------------------------------------------------------------------
(* The client's calls.                                                     *)

\* current_block is not NULL where a call looks at it.
Usable == blocks # <<>> => current # NULL

\* The client fills the bytes of its n that it did not have before, and gets
\* the block at "buf" for the one at p.
Receives(o, p, had, n, tag) ==
    /\ blocks' = IF o.buf = NULL
                 THEN o.blocks
                 ELSE [o.blocks EXCEPT ![BlockOf(o.buf)].mem =
                          Fill(@, Offset(o.buf) + had, n - had, tag)]
    /\ current' = o.current
    /\ UNCHANGED first_block_size
    /\ live' = IF o.buf = NULL
               THEN live
               ELSE [x \in (DOMAIN live \ {p}) \cup {o.buf} |->
                        IF x = o.buf THEN [len |-> n, tag |-> tag] ELSE live[x]]

Alloc(n, tag) ==
    /\ n # 0 => Usable
    /\ \E o \in ArenaAlloc(blocks, current, n) : Receives(o, NULL, 0, n, tag)

RemapNull(n, tag) ==
    /\ n # 0 => Usable
    /\ \E o \in ArenaRemap(blocks, current, NULL, n) : Receives(o, NULL, 0, n, tag)

Remap(p, n) ==
    /\ OldSize(blocks, p) < n => Usable
    /\ \E o \in ArenaRemap(blocks, current, p, n) :
          Receives(o, p, live[p].len, n, live[p].tag)

Free(p) ==
    /\ Usable
    /\ blocks' = ArenaRelease(blocks, current, p)
    /\ live' = [x \in DOMAIN live \ {p} |-> live[x]]
    /\ UNCHANGED <<first_block_size, current>>

\* arena_reset: the client gives up all its blocks.  A careful one does so
\* only where each size it will ask for fits the first block, and so the next,
\* since Advance does not look at what that can hold.
Reset ==
    /\ Careful => \A n \in Sizes : n + HeaderSize <= first_block_size
    /\ UNCHANGED first_block_size
    /\ blocks' = Emptied(blocks)
    /\ current' = IF blocks = <<>> THEN NULL ELSE 1
    /\ live' = <<>>

\* arena_deinit
Deinit == UNCHANGED first_block_size /\ blocks' = <<>> /\ current' = NULL /\ live' = <<>>

Next == \/ \E n \in Sizes, tag \in Tags : Alloc(n, tag) \/ RemapNull(n, tag)
        \/ \E p \in DOMAIN live :
              \/ \E n \in Sizes : Remap(p, n)
              \/ Free(p)
        \/ Reset
        \/ Deinit

Spec == Init /\ [][Next]_vars

-----------------------------------------------------------------------------
(* Properties.                                                             *)

\* No allocation, header or payload, runs over the end of its arena block.
BlocksInBounds == \A k \in DOMAIN blocks : blocks[k].size <= blocks[k].capacity

\* What the client sees in its blocks.
Seen == [p \in DOMAIN live |->
            [i \in 1 .. live[p].len |-> blocks[BlockOf(p)].mem[Offset(p) + i - 1]]]

\* The arena keeps the promise of an allocator: its blocks are disjoint, keep
\* their contents and carry them over from one arena block to the next.
Abstract == INSTANCE Heap WITH blocks <- Seen
ImplementsHeap == Abstract!Spec
=============================================================================
