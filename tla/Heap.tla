--------------------------------- MODULE Heap ---------------------------------
(***************************************************************************)
(* What an allocator_t promises its client: blocks of memory that do not   *)
(* overlap, that hold what was written to them, and whose contents a remap *)
(* carries over as far as the new size goes.  An allocation or a remap may *)
(* fail, which changes nothing the client can see.                         *)
(***************************************************************************)
EXTENDS Integers, Sequences

VARIABLE blocks         \* from the address of a block to its contents

Init == blocks = <<>>

\* A block at p with contents c lies clear of the blocks at "others".
Clear(p, c, others) ==
    \A q \in others : p + Len(c) <= q \/ q + Len(blocks[q]) <= p

\* The blocks once the one at p is gone and q holds c.
Moved(p, q, c) ==
    [x \in (DOMAIN blocks \ {p}) \cup {q} |-> IF x = q THEN c ELSE blocks[x]]

\* A new block.  (Next constrains blocks' and does not enumerate it: this
\* module is only ever implemented, never run.)
Alloc == \E q \in DOMAIN blocks' \ DOMAIN blocks :
            /\ blocks'[q] \in Seq(Nat)
            /\ Clear(q, blocks'[q], DOMAIN blocks)
            /\ blocks' = Moved(q, q, blocks'[q])

\* The two agree as far as the shorter goes.
CarriesOver(old, new) ==
    \A i \in 1 .. Len(old) : i <= Len(new) => new[i] = old[i]

\* The block at p is at q from now on, with room for more, or less.
Remap == \E p \in DOMAIN blocks, q \in DOMAIN blocks' :
            /\ q \notin DOMAIN blocks \ {p}
            /\ blocks'[q] \in Seq(Nat)
            /\ CarriesOver(blocks[p], blocks'[q])
            /\ Clear(q, blocks'[q], DOMAIN blocks \ {p})
            /\ blocks' = Moved(p, q, blocks'[q])

Free == \E p \in DOMAIN blocks :
            blocks' = [x \in DOMAIN blocks \ {p} |-> blocks[x]]

\* All blocks at once, as a reset of an arena does.
FreeAll == blocks' = <<>>

Next == Alloc \/ Remap \/ Free \/ FreeAll

Spec == Init /\ [][Next]_blocks
=============================================================================
