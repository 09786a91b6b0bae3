-------------------------------- MODULE BitPool --------------------------------
(***************************************************************************)
(* ty_bitpool.h: N slots, a bit each in the words of l0, and in the words  *)
(* of l1 a bit for each word of l0 that is full.  A word is the set of its *)
(* bits that are 1.  The pool is for the N that are multiples of a word,   *)
(* as l0 has N / 64 words.                                                 *)
(***************************************************************************)
EXTENDS Integers

CONSTANTS W,            \* bits in a word (64)
          Capacities    \* values of N

ASSUME BitPoolAssumption ==
    /\ W \in Nat \ {0}
    /\ Capacities \subseteq {n \in Nat : n > 0 /\ n % W = 0}

VARIABLES N,        \* slots of the pool
          l1, l0,   \* its words
          index     \* out_index of the last BIT_POOL_ALLOC, -1 when not out_ok

vars == <<N, l1, l0, index>>

Slots == 0 .. N - 1
Bits  == 0 .. W - 1

L0Count == N \div W
L1Count == (N + W * W - 1) \div (W * W)

IsFull(word) == word = Bits

\* ctz64(~word): the lowest bit that is 0, and W when there is none.  C leaves
\* __builtin_ctzll(0) undefined; W is what the build of the justfile gets, whose
\* tests "slot != 64" then catch it.
LowestFree(word) ==
    IF IsFull(word) THEN W ELSE CHOOSE b \in Bits \ word : \A c \in Bits \ word : b <= c

\* The first word of l0 that l1 does not say is full, -1 when l1 is all ones.
FindWord ==
    IF N <= W THEN 0
    ELSE IF \A i \in 0 .. L1Count - 1 : IsFull(l1[i]) THEN -1
    ELSE LET i == CHOOSE j \in 0 .. L1Count - 1 :
                    ~IsFull(l1[j]) /\ \A k \in 0 .. j - 1 : IsFull(l1[k])
         IN  W * i + LowestFree(l1[i])

\* MUTANT of Find0: the words of l1 are not as long as those of l0.
Find0Short ==
    LET w == FindWord
    IN  IF w = -1 \/ w >= L0Count - 1 THEN -1
        ELSE IF IsFull(l0[w]) THEN -1 ELSE w * W + LowestFree(l0[w])

\* BIT_POOL_FIND_0: the index of a free slot, or -1.
Find0 ==
    LET w == FindWord
    IN  IF w = -1 \/ w >= L0Count THEN -1
        ELSE IF IsFull(l0[w]) THEN -1 ELSE w * W + LowestFree(l0[w])

Word(x) == x \div W
Bit(x)  == x % W

\* MUTANT of Set1: the shift is by the whole index.
Set1Unmasked(x) == l0' = [l0 EXCEPT ![Word(x)] = @ \cup {x}] /\ l1' = l1

\* BIT_POOL_SET_1
Set1(x) ==
    LET bucket == l0[Word(x)] \cup {Bit(x)}
    IN  /\ l0' = [l0 EXCEPT ![Word(x)] = bucket]
        /\ l1' = IF IsFull(bucket)
                 THEN [l1 EXCEPT ![Word(Word(x))] = @ \cup {Bit(Word(x))}]
                 ELSE l1

\* MUTANT of Set0: the word is still marked as full.
Set0OfSlot(x) == l0' = [l0 EXCEPT ![Word(x)] = @ \ {Bit(x)}] /\ l1' = l1

\* BIT_POOL_SET_0
Set0(x) == /\ l1' = [l1 EXCEPT ![Word(Word(x))] = @ \ {Bit(Word(x))}]
           /\ l0' = [l0 EXCEPT ![Word(x)] = @ \ {Bit(x)}]

\* BIT_POOL_CHECK_1
Check1(x) == Bit(x) \in l0[Word(x)]

-----------------------------------------------------------------------------
Init == /\ N \in Capacities
        /\ l1 = [i \in 0 .. L1Count - 1 |-> {}]
        /\ l0 = [i \in 0 .. L0Count - 1 |-> {}]
        /\ index = -1

\* BIT_POOL_ALLOC
Alloc == /\ index' = Find0
         /\ IF index' # -1 THEN Set1(index') ELSE UNCHANGED <<l1, l0>>
         /\ UNCHANGED N

\* A client takes a slot of its choice if it is free, as pool_alloc_at does.
Claim(x) == ~Check1(x) /\ Set1(x) /\ UNCHANGED <<N, index>>

\* A client gives back a slot, in use or not: BIT_POOL_SET_0 does not look.
Release(x) == Set0(x) /\ UNCHANGED <<N, index>>

Next == Alloc \/ \E x \in Slots : Claim(x) \/ Release(x)

Spec == Init /\ [][Next]_vars

-----------------------------------------------------------------------------
(* Properties.                                                             *)

TypeOK == /\ N \in Capacities
          /\ l1 \in [0 .. L1Count - 1 -> SUBSET Bits]
          /\ l0 \in [0 .. L0Count - 1 -> SUBSET Bits]
          /\ index \in Slots \cup {-1}

\* The summary is exact: a word of l0 is marked in l1 if and only if it is
\* full, and no bit of l1 is set that stands for no word.  (BIT_POOL_SET_1,
\* BIT_POOL_SET_0)
SummaryExact ==
    \A i \in 0 .. L1Count - 1 :
        l1[i] = {b \in Bits : W * i + b < L0Count /\ IsFull(l0[W * i + b])}

Used == {x \in Slots : Check1(x)}

SP == INSTANCE SlotPool WITH used <- Used

\* The two levels are one set of slots: an allocation takes a free one, and
\* fails only when there is none.  (BIT_POOL_ALLOC)
ImplementsSlotPool == SP!Spec
=============================================================================
