------------------------------ MODULE Vector_proof ------------------------------
(***************************************************************************)
(* An arena, whatever its backing allocator refuses it, keeps within its   *)
(* blocks and keeps its clients' contents, and a vector in it holds what   *)
(* was pushed, for every alignment, every first block size and every set   *)
(* of sizes that a careful client may ask for.                             *)
(***************************************************************************)
EXTENDS Vector, BumpBlock_proof, SequenceTheorems, WellFoundedInduction

-----------------------------------------------------------------------------
(* Doubling.                                                               *)

\* A set that has 0, and with each number below n the next, has 0 .. n.
LEMMA Induction ==
  ASSUME NEW n \in Nat, NEW S, 0 \in S, \A k \in 0 .. n - 1 : k \in S => k + 1 \in S
  PROVE  0 .. n \subseteq S
<1> DEFINE T == {k \in 0 .. n : k \notin S}
<1> SUFFICES ASSUME T # {} PROVE FALSE
  OBVIOUS
<1>1. T \subseteq Nat
  OBVIOUS
<1> HIDE DEF T
<1>2. PICK x \in T : \A y \in T : ~(<<y, x>> \in OpToRel(<, Nat))
  BY <1>1, NatLessThanWellFounded, WFMin
<1>3. \A y \in T : ~(y < x)
  BY <1>1, <1>2 DEF OpToRel
<1>4. x \in 0 .. n /\ x # 0 /\ x - 1 \in 0 .. n - 1 /\ x \notin S
  BY DEF T
<1>5. x - 1 \in S
  <2>1. x - 1 \in 0 .. n /\ x - 1 < x
    BY <1>4
  <2> QED
    BY <1>3, <2>1 DEF T
<1> QED
  BY <1>4, <1>5

Turn(c, n) == IF c < n THEN 2 * c ELSE c

\* d is what becomes of a, turn by turn.
Turns(d, a, n, last) ==
    /\ d \in [0 .. last -> Nat] /\ d[0] = a
    /\ \A k \in 1 .. last : d[k] = Turn(d[k - 1], n)

\* There is one such d, for any number of turns.
LEMMA TurnsExist ==
  ASSUME NEW a \in Nat, NEW n \in Nat, NEW last \in Nat
  PROVE  \E d : Turns(d, a, n, last)
<1> DEFINE S == {m \in 0 .. last : \E d : Turns(d, a, n, m)}
<1>1. 0 \in S
  <2> DEFINE d == [k \in 0 .. 0 |-> a]
  <2>1. Turns(d, a, n, 0)
    BY DEF Turns
  <2> HIDE DEF d
  <2> QED
    BY <2>1
<1>2. ASSUME NEW m \in 0 .. last - 1, m \in S PROVE m + 1 \in S
  <2>1. PICK d : Turns(d, a, n, m)
    BY <1>2
  <2> DEFINE e == [k \in 0 .. m + 1 |-> IF k = m + 1 THEN Turn(d[m], n) ELSE d[k]]
  <2>2. d[m] \in Nat /\ Turn(d[m], n) \in Nat
    BY <2>1 DEF Turns, Turn
  <2>3. e \in [0 .. m + 1 -> Nat] /\ e[0] = a
    BY <2>1, <2>2 DEF Turns
  <2>4. ASSUME NEW k \in 1 .. m + 1 PROVE e[k] = Turn(e[k - 1], n)
    <3>1. e[k - 1] = d[k - 1]
      OBVIOUS
    <3>2. CASE k = m + 1
      BY <3>1, <3>2
    <3>3. CASE k # m + 1
      <4>1. k \in 1 .. m /\ e[k] = d[k]
        BY <3>3
      <4> QED
        BY <2>1, <3>1, <4>1 DEF Turns
    <3> QED
      BY <3>2, <3>3
  <2> HIDE DEF e
  <2>5. Turns(e, a, n, m + 1)
    BY <2>3, <2>4 DEF Turns
  <2> QED
    BY <2>5
<1> HIDE DEF S
<1>3. last \in S
  BY <1>1, <1>2, Induction
<1> QED
  BY <1>3 DEF S

\* Doubled is the last of them.
LEMMA DoubledTurns ==
  ASSUME NEW a \in Nat, NEW n \in Nat
  PROVE  \E d : Turns(d, a, n, n) /\ Doubled(a, n) = d[n]
<1> DEFINE Solves(d) == d = [turn \in 0 .. n |->
                                IF turn = 0 THEN a
                                ELSE LET c == d[turn - 1] IN IF c < n THEN 2 * c ELSE c]
           e == CHOOSE d : Solves(d)
<1>1. PICK d : Turns(d, a, n, n)
  BY TurnsExist
<1>2. Solves(d)
  <2>1. d = [k \in 0 .. n |-> d[k]]
    BY <1>1 DEF Turns
  <2>2. ASSUME NEW k \in 0 .. n
        PROVE  d[k] = IF k = 0 THEN a ELSE LET c == d[k - 1] IN IF c < n THEN 2 * c ELSE c
    <3>1. CASE k = 0
      BY <1>1, <3>1 DEF Turns
    <3>2. CASE k # 0
      <4>1. k \in 1 .. n
        BY <3>2
      <4> QED
        BY <1>1, <3>2, <4>1 DEF Turns, Turn
    <3> QED
      BY <3>1, <3>2
  <2> QED
    BY <2>1, <2>2
<1>3. Solves(e)
  <2> HIDE DEF Solves
  <2> QED
    BY <1>2, Zenon
<1>4. Doubled(a, n) = e[n]
  BY DEF Doubled
<1> HIDE DEF e
<1>5. /\ DOMAIN e = 0 .. n /\ e[0] = a
      /\ \A k \in 1 .. n : e[k] = Turn(e[k - 1], n)
  BY <1>3 DEF Turn
<1>6. 0 .. n \subseteq {k \in 0 .. n : e[k] = d[k]}
  <2> DEFINE S == {k \in 0 .. n : e[k] = d[k]}
  <2>1. 0 \in S
    BY <1>1, <1>5 DEF Turns
  <2>2. ASSUME NEW k \in 0 .. n - 1, k \in S PROVE k + 1 \in S
    <3>1. k + 1 \in 1 .. n /\ (k + 1) - 1 = k /\ k + 1 \in 0 .. n
      OBVIOUS
    <3>2. e[k + 1] = Turn(e[k], n) /\ d[k + 1] = Turn(d[k], n)
      BY <1>1, <1>5, <3>1 DEF Turns
    <3> QED
      BY <2>2, <3>1, <3>2
  <2> HIDE DEF S
  <2>3. 0 .. n \subseteq S
    BY <2>1, <2>2, Induction
  <2> QED
    BY <2>3 DEF S
<1>7. Doubled(a, n) = d[n]
  BY <1>4, <1>6
<1> QED
  BY <1>1, <1>7

\* What holds of a and of the double of what it holds of, if that is too small,
\* holds of what a is doubled to.
LEMMA DoublingInduction ==
  ASSUME NEW a \in Nat, NEW n \in Nat, NEW S, a \in S,
         \A c \in Nat : c \in S /\ c < n => 2 * c \in S
  PROVE  Doubled(a, n) \in S
<1>1. PICK d : Turns(d, a, n, n) /\ Doubled(a, n) = d[n]
  BY DoubledTurns
<1> DEFINE T == {k \in 0 .. n : d[k] \in S}
<1>2. 0 \in T
  BY <1>1 DEF Turns
<1>3. ASSUME NEW k \in 0 .. n - 1, k \in T PROVE k + 1 \in T
  <2>1. k + 1 \in 1 .. n /\ (k + 1) - 1 = k /\ k + 1 \in 0 .. n /\ k \in 0 .. n
    OBVIOUS
  <2>2. d[k + 1] = Turn(d[k], n) /\ d[k] \in Nat
    BY <1>1, <2>1 DEF Turns
  <2> QED
    BY <1>3, <2>1, <2>2 DEF Turn
<1> HIDE DEF T
<1>4. 0 .. n \subseteq T
  BY <1>2, <1>3, Induction
<1> QED
  BY <1>1, <1>4 DEF T

\* It is enough, no less than a, as aligned as a, and less than twice what was
\* needed if a was not enough.
LEMMA DoubledProperties ==
  ASSUME NEW a \in Nat \ {0}, NEW n \in Nat
  PROVE  /\ Doubled(a, n) \in Nat /\ Doubled(a, n) >= n /\ Doubled(a, n) >= a
         /\ a % MaxAlign = 0 => Doubled(a, n) % MaxAlign = 0
         /\ a >= n => Doubled(a, n) = a
         /\ a < n => Doubled(a, n) < 2 * n
<1> USE BumpAssumption
<1>1. PICK d : Turns(d, a, n, n) /\ Doubled(a, n) = d[n]
  BY DoubledTurns
<1>2. Doubled(a, n) >= n
  <2> DEFINE T == {k \in 0 .. n : d[k] >= n \/ d[k] >= a + k}
  <2>1. 0 \in T
    BY <1>1 DEF Turns
  <2>2. ASSUME NEW k \in 0 .. n - 1, k \in T PROVE k + 1 \in T
    <3>1. k + 1 \in 1 .. n /\ (k + 1) - 1 = k /\ k + 1 \in 0 .. n /\ k \in 0 .. n
      OBVIOUS
    <3>2. d[k + 1] = Turn(d[k], n) /\ d[k] \in Nat
      BY <1>1, <3>1 DEF Turns
    <3> QED
      BY <2>2, <3>1, <3>2 DEF Turn
  <2> HIDE DEF T
  <2>3. 0 .. n \subseteq T
    BY <2>1, <2>2, Induction
  <2>4. d[n] \in Nat
    BY <1>1 DEF Turns
  <2> QED
    BY <1>1, <2>3, <2>4 DEF T
<1>3. Doubled(a, n) \in {c \in Nat : c >= a}
  <2> DEFINE S == {c \in Nat : c >= a}
  <2>1. a \in S /\ \A c \in Nat : c \in S /\ c < n => 2 * c \in S
    OBVIOUS
  <2> HIDE DEF S
  <2>2. Doubled(a, n) \in S
    BY <2>1, DoublingInduction
  <2> QED
    BY <2>2 DEF S
<1>4. ASSUME a % MaxAlign = 0 PROVE Doubled(a, n) % MaxAlign = 0
  <2> DEFINE S == {c \in Nat : c % MaxAlign = 0}
  <2>1. ASSUME NEW c \in Nat, c % MaxAlign = 0 PROVE (2 * c) % MaxAlign = 0
    <3>1. PICK q \in Nat : q = c \div MaxAlign
      OBVIOUS
    <3>2. c = MaxAlign * q
      BY <2>1, <3>1
    <3>3. PICK r \in Nat : r = 2 * q
      OBVIOUS
    <3>4. 2 * c = MaxAlign * r
      BY <3>1, <3>2, <3>3
    <3>5. (MaxAlign * r) % MaxAlign = 0
      BY <3>3
    <3> QED
      BY <3>4, <3>5
  <2>2. a \in S /\ \A c \in Nat : c \in S /\ c < n => 2 * c \in S
    <3>1. \A c \in Nat : 2 * c \in Nat
      OBVIOUS
    <3> QED
      BY <1>4, <2>1, <3>1
  <2> HIDE DEF S
  <2>3. Doubled(a, n) \in S
    BY <2>2, DoublingInduction
  <2> QED
    BY <2>3 DEF S
<1>5. ASSUME a >= n PROVE Doubled(a, n) = a
  <2> DEFINE S == {a}
  <2>1. a \in S /\ \A c \in Nat : c \in S /\ c < n => 2 * c \in S
    BY <1>5
  <2> HIDE DEF S
  <2>2. Doubled(a, n) \in S
    BY <2>1, DoublingInduction
  <2> QED
    BY <2>2 DEF S
<1>6. ASSUME a < n PROVE Doubled(a, n) < 2 * n
  <2> DEFINE S == {c \in Nat : c < 2 * n}
  <2>1. a \in S /\ \A c \in Nat : c \in S /\ c < n => 2 * c \in S
    BY <1>6
  <2> HIDE DEF S
  <2>2. Doubled(a, n) \in S
    BY <2>1, DoublingInduction
  <2> QED
    BY <2>2 DEF S
<1> QED
  BY <1>2, <1>3, <1>4, <1>5, <1>6

\* Doubling what is too small first changes nothing.
LEMMA DoubledOnce ==
  ASSUME NEW a \in Nat \ {0}, NEW n \in Nat, a < n
  PROVE  Doubled(2 * a, n) = Doubled(a, n)
<1>1. PICK d : Turns(d, a, n, n) /\ Doubled(a, n) = d[n]
  BY DoubledTurns
<1>2. PICK e : Turns(e, 2 * a, n, n) /\ Doubled(2 * a, n) = e[n]
  BY DoubledTurns
<1> DEFINE T == {k \in 0 .. n - 1 : e[k] = d[k + 1]}
<1>3. 0 \in T
  <2>1. 1 \in 1 .. n /\ d[1] = Turn(d[0], n) /\ d[0] = a
    BY <1>1 DEF Turns
  <2> QED
    BY <1>2, <2>1 DEF Turns, Turn
<1>4. ASSUME NEW k \in 0 .. (n - 1) - 1, k \in T PROVE k + 1 \in T
  <2>1. /\ k + 1 \in 1 .. n /\ (k + 1) - 1 = k /\ k + 1 \in 0 .. n - 1
        /\ (k + 1) + 1 \in 1 .. n /\ ((k + 1) + 1) - 1 = k + 1
    OBVIOUS
  <2>2. e[k + 1] = Turn(e[k], n) /\ d[(k + 1) + 1] = Turn(d[k + 1], n)
    BY <1>1, <1>2, <2>1 DEF Turns
  <2> QED
    BY <1>4, <2>1, <2>2
<1> HIDE DEF T
<1>5. 0 .. n - 1 \subseteq T
  <2>1. n - 1 \in Nat
    OBVIOUS
  <2> QED
    BY <1>3, <1>4, <2>1, Induction
<1>6. e[n - 1] = d[n]
  <2>1. n - 1 \in 0 .. n - 1 /\ (n - 1) + 1 = n
    OBVIOUS
  <2> QED
    BY <1>5, <2>1 DEF T
<1>7. e[n] = Turn(e[n - 1], n)
  <2>1. n \in 1 .. n
    OBVIOUS
  <2> QED
    BY <1>2, <2>1 DEF Turns
<1>8. d[n] >= n /\ d[n] \in Nat
  <2>1. Doubled(a, n) \in Nat /\ Doubled(a, n) >= n
    BY DoubledProperties
  <2> QED
    BY <1>1, <2>1
<1> QED
  BY <1>1, <1>2, <1>6, <1>7, <1>8 DEF Turn

\* Doubling in two goes comes to the same as in one.
LEMMA DoubledTwice ==
  ASSUME NEW a \in Nat \ {0}, NEW m \in Nat, NEW n \in Nat, m <= n
  PROVE  Doubled(Doubled(a, m), n) = Doubled(a, n)
<1> DEFINE S == {c \in Nat \ {0} : Doubled(c, n) = Doubled(a, n)}
<1>1. a \in S
  OBVIOUS
<1>2. ASSUME NEW c \in Nat, c \in S, c < m PROVE 2 * c \in S
  <2>1. c < n /\ c \in Nat \ {0} /\ 2 * c \in Nat \ {0}
    BY <1>2
  <2>2. Doubled(2 * c, n) = Doubled(c, n)
    BY <2>1, DoubledOnce
  <2> QED
    BY <1>2, <2>1, <2>2
<1> HIDE DEF S
<1>3. Doubled(a, m) \in S
  BY <1>1, <1>2, DoublingInduction
<1> QED
  BY <1>3 DEF S

-----------------------------------------------------------------------------
(* Addresses and arena blocks.                                             *)

\* An address is a block's number and an offset, and back.
LEMMA Addresses ==
  /\ \A k \in Nat, off \in 0 .. Stride - 1 :
        Addr(k, off) \in Nat /\ BlockOf(Addr(k, off)) = k /\ Offset(Addr(k, off)) = off
  /\ \A a \in Nat : /\ BlockOf(a) \in Nat /\ Offset(a) \in 0 .. Stride - 1
                    /\ a = Addr(BlockOf(a), Offset(a))
<1>1. Stride \in Nat \ {0}
  BY BumpAssumption, ArenaAssumption
<1>2. ASSUME NEW k \in Nat, NEW off \in 0 .. Stride - 1
      PROVE  Addr(k, off) \in Nat /\ BlockOf(Addr(k, off)) = k /\ Offset(Addr(k, off)) = off
  <2>1. PICK a : a = Addr(k, off)
    OBVIOUS
  <2>2. a = k * Stride + off
    BY <2>1 DEF Addr
  <2>3. a \in Nat /\ a \div Stride = k /\ a % Stride = off
    BY <1>1, <2>2
  <2> QED
    BY <2>1, <2>3 DEF BlockOf, Offset
<1>3. ASSUME NEW a \in Nat
      PROVE  /\ BlockOf(a) \in Nat /\ Offset(a) \in 0 .. Stride - 1
             /\ a = Addr(BlockOf(a), Offset(a))
  BY <1>1 DEF Addr, BlockOf, Offset
<1> QED
  BY <1>2, <1>3

\* The arena's blocks: aligned, of a capacity no less than the first block's.
Capacities(f) == {c \in f .. U32 - 1 : c % MaxAlign = 0}
Chunks(f)     == UNION {Blocks(c) : c \in Capacities(f)}

\* A first block size that a careful client gives.
FirstSizes == {f \in 1 .. U32 - 1 : f % MaxAlign = 0}

\* The parts of a block of the arena.
LEMMA ChunkParts ==
  ASSUME NEW f \in FirstSizes, NEW c \in Chunks(f)
  PROVE  /\ c.capacity \in Nat \ {0} /\ c.capacity % MaxAlign = 0
         /\ f <= c.capacity /\ c.capacity < U32 /\ c.capacity < Stride
         /\ c \in Blocks(c.capacity)
         /\ c.size \in Nat /\ c.size <= c.capacity
<1> USE BumpAssumption, ArenaAssumption
<1>1. PICK cap \in Capacities(f) : c \in Blocks(cap)
  BY DEF Chunks
<1>2. cap \in Nat \ {0} /\ cap % MaxAlign = 0 /\ f <= cap /\ cap < U32 /\ cap < Stride
  BY DEF Capacities, FirstSizes
<1>3. c.capacity = cap /\ c.size \in Nat /\ c.size <= cap
  BY <1>1, <1>2, BlockParts
<1> QED
  BY <1>1, <1>2, <1>3

\* A block of the same capacity is one of the arena's too.
LEMMA ChunkLike ==
  ASSUME NEW f \in FirstSizes, NEW c \in Chunks(f), NEW d \in Blocks(c.capacity)
  PROVE  d \in Chunks(f) /\ d.capacity = c.capacity
<1> USE BumpAssumption
<1>1. PICK cap : cap = c.capacity
  OBVIOUS
<1>2. cap \in Capacities(f)
  BY <1>1, ChunkParts DEF Capacities, FirstSizes
<1>3. d.capacity = cap
  BY <1>1, <1>2, BlockParts, ChunkParts
<1> QED
  BY <1>1, <1>2, <1>3 DEF Chunks

\* Where the capacity is aligned, so is room for the padding.
LEMMA PaddingFits ==
  ASSUME NEW cap \in Nat, cap % MaxAlign = 0, NEW size \in 0 .. cap
  PROVE  AlignmentLoss(size) \in Nat /\ size + AlignmentLoss(size) <= cap
<1> USE BumpAssumption
<1>1. PICK at : at = size + AlignmentLoss(size)
  OBVIOUS
<1>2. AlignmentLoss(size) \in Nat /\ AlignmentLoss(size) < MaxAlign
  <2>1. size % MaxAlign \in 0 .. MaxAlign - 1
    OBVIOUS
  <2> QED
    BY <2>1 DEF AlignmentLoss
<1>3. at \in Nat /\ at % MaxAlign = 0
  <2>1. (size + AlignmentLoss(size)) % MaxAlign = 0
    BY LossProperties
  <2> QED
    BY <1>1, <1>2, <2>1
<1>4. PICK i \in Nat : i = at \div MaxAlign
  BY <1>3
<1>5. PICK j \in Nat : j = cap \div MaxAlign
  OBVIOUS
<1>6. at = MaxAlign * i /\ cap = MaxAlign * j
  BY <1>3, <1>4, <1>5
<1>7. ASSUME at > cap PROVE FALSE
  <2>1. i > j
    BY <1>4, <1>5, <1>6, <1>7
  <2>2. i >= j + 1
    BY <2>1, <1>4, <1>5
  <2>3. MaxAlign * i >= MaxAlign * (j + 1)
    BY <2>2, <1>4, <1>5
  <2>4. MaxAlign * (j + 1) = cap + MaxAlign
    BY <1>5, <1>6
  <2> QED
    BY <1>1, <1>2, <1>6, <2>3, <2>4
<1> QED
  BY <1>1, <1>2, <1>3, <1>7

\* _block_bytes_left does not wrap round.
LEMMA BytesLeftInBlock ==
  ASSUME NEW f \in FirstSizes, NEW c \in Chunks(f)
  PROVE  /\ AlignmentLoss(c.size) \in Nat
         /\ c.size + AlignmentLoss(c.size) <= c.capacity
         /\ BlockBytesLeft(c) = c.capacity - (c.size + AlignmentLoss(c.size))
<1> USE BumpAssumption, ArenaAssumption
<1>1. /\ c.capacity \in Nat \ {0} /\ c.capacity % MaxAlign = 0 /\ c.capacity < SizeT
      /\ c.size \in 0 .. c.capacity
  BY ChunkParts
<1>2. AlignmentLoss(c.size) \in Nat /\ c.size + AlignmentLoss(c.size) <= c.capacity
  BY <1>1, PaddingFits
<1>3. PICK left : left = c.capacity - (c.size + AlignmentLoss(c.size))
  OBVIOUS
<1>4. left \in Nat /\ left < SizeT
  BY <1>1, <1>2, <1>3
<1>5. left % SizeT = left
  BY <1>4
<1> QED
  BY <1>2, <1>3, <1>5 DEF BlockBytesLeft

-----------------------------------------------------------------------------
(* The allocations of an arena.                                            *)

\* Byte i of the payload at a.
Byte(bs, a, i) == bs[BlockOf(a)].mem[Offset(a) + i]

\* The payloads at A that block k has, by their offsets.
Of(A, k) == {off \in 0 .. Stride - 1 : Addr(k, off) \in A}

\* The payloads at A are laid out in their blocks.
AllLaid(bs, A) ==
    /\ \A k \in 1 .. Len(bs) : Laid(bs[k], Of(A, k))
    /\ \A a \in A : a \in Nat /\ BlockOf(a) \in 1 .. Len(bs)

\* The blocks after the current one are empty, and if there are any, each has
\* room for whatever is asked for: the sizes in R.
Ahead(f, bs, cur, R) ==
    cur # 0 => /\ \A k \in cur + 1 .. Len(bs) : bs[k].size = 0
               /\ cur < Len(bs) => \A n \in R : n + HeaderSize <= f

\* What is true of an arena with payloads at A.
Sound(f, bs, cur, A, R) ==
    /\ bs \in Seq(Chunks(f)) /\ cur \in 0 .. Len(bs)
    /\ AllLaid(bs, A)
    /\ Ahead(f, bs, cur, R)

\* The payloads at A are in cs what they are in bs.
Same(bs, cs, A) ==
    \A a \in A : /\ OldSize(cs, a) = OldSize(bs, a)
                 /\ \A i \in 0 .. OldSize(bs, a) - 1 : Byte(cs, a, i) = Byte(bs, a, i)

\* What stays the same twice is the same ...
LEMMA SameTwice ==
  ASSUME NEW bs, NEW cs, NEW ds, NEW A, Same(bs, cs, A), Same(cs, ds, A)
  PROVE  Same(bs, ds, A)
  BY DEF Same

\* ... and so is a part of it.
LEMMA SameSubset ==
  ASSUME NEW bs, NEW cs, NEW A, Same(bs, cs, A), NEW B \in SUBSET A
  PROVE  Same(bs, cs, B)
  BY DEF Same

\* The payload at a, in its block.
PayloadIn(bs, A, a, k, off) ==
    /\ k \in 1 .. Len(bs) /\ off \in Of(A, k) /\ a = Addr(k, off)
    /\ k \in Nat /\ a \in Nat /\ off \in Nat /\ off < Stride
    /\ bs[k] \in Blocks(bs[k].capacity) /\ bs[k].capacity \in Nat
    /\ Laid(bs[k], Of(A, k))
    /\ OldSize(bs, a) \in Nat /\ OldSize(bs, a) = BufferSize(bs[k], off)
    /\ Past(bs[k], off) = off + OldSize(bs, a) /\ off + OldSize(bs, a) <= bs[k].size
    /\ bs[k].size <= bs[k].capacity /\ bs[k].size \in Nat /\ bs[k].capacity < Stride
    /\ off + OldSize(bs, a) < Stride
    /\ From(off) = off - HeaderSize /\ From(off) \in Nat

\* Where the payload at a is, and that it ends within its block.
LEMMA PayloadAt ==
  ASSUME NEW f \in FirstSizes, NEW bs \in Seq(Chunks(f)), NEW A, AllLaid(bs, A), NEW a \in A
  PROVE  /\ PayloadIn(bs, A, a, BlockOf(a), Offset(a))
         /\ bs[BlockOf(a)] \in Chunks(f)
<1>1. PICK k : k = BlockOf(a)
  OBVIOUS
<1>2. PICK off : off = Offset(a)
  OBVIOUS
<1>3. Stride \in Nat /\ Len(bs) \in Nat
  BY ArenaAssumption
<1>4. /\ a \in Nat /\ k \in 1 .. Len(bs) /\ off \in 0 .. Stride - 1 /\ a = Addr(k, off)
  BY <1>1, <1>2, Addresses DEF AllLaid
<1>5. off \in Of(A, k)
  BY <1>4 DEF Of
<1>6. bs[k] \in Chunks(f) /\ Laid(bs[k], Of(A, k))
  BY <1>4 DEF AllLaid
<1>7. /\ bs[k] \in Blocks(bs[k].capacity) /\ bs[k].capacity \in Nat
      /\ bs[k].capacity < Stride /\ bs[k].size <= bs[k].capacity /\ bs[k].size \in Nat
  BY <1>6, ChunkParts
<1>8. /\ BufferSize(bs[k], off) \in Nat /\ Past(bs[k], off) <= bs[k].size /\ From(off) \in Nat
  BY <1>5, <1>6, <1>7, LaidAt
<1>9. k \in Nat /\ off \in Nat /\ off < Stride
  BY <1>3, <1>4
<1>10. OldSize(bs, a) = BufferSize(bs[k], off)
  BY <1>1, <1>2 DEF OldSize
<1>11. Past(bs[k], off) = off + BufferSize(bs[k], off)
  BY DEF Past
<1>12. off + BufferSize(bs[k], off) <= bs[k].size /\ off + BufferSize(bs[k], off) < Stride
  BY <1>3, <1>7, <1>8, <1>9, <1>11
<1>13. PayloadIn(bs, A, a, k, off)
  BY <1>4, <1>5, <1>6, <1>7, <1>8, <1>9, <1>10, <1>11, <1>12 DEF PayloadIn, From
<1> QED
  BY <1>1, <1>2, <1>6, <1>13

\* What starts in an earlier block and ends in it ends before a later block.
LEMMA EarlierBlock ==
  ASSUME NEW s \in Nat, NEW k \in Nat, NEW l \in Nat, k < l,
         NEW x \in Nat, NEW n \in Nat, x + n < s, NEW y \in Nat
  PROVE  (k * s + x) + n <= l * s + y
<1>1. PICK d \in Nat : l = k + 1 + d
  <2>1. l - k - 1 \in Nat /\ l = k + 1 + (l - k - 1)
    OBVIOUS
  <2> QED
    BY <2>1
<1>2. PICK u \in Nat : u = k * s
  OBVIOUS
<1>3. PICK v \in Nat : v = d * s
  BY <1>1
<1>4. l * s = u + s + v
  BY <1>1, <1>2, <1>3
<1> QED
  BY <1>2, <1>3, <1>4

\* The payloads lie apart, wherever they are.
LEMMA PayloadsApart ==
  ASSUME NEW f \in FirstSizes, NEW bs \in Seq(Chunks(f)), NEW A, AllLaid(bs, A),
         NEW a \in A, NEW b \in A, a # b
  PROVE  a + OldSize(bs, a) <= b \/ b + OldSize(bs, b) <= a
<1>2. PICK k : k = BlockOf(a)
  OBVIOUS
<1>3. PICK l : l = BlockOf(b)
  OBVIOUS
<1>4. PICK x : x = Offset(a)
  OBVIOUS
<1>5. PICK y : y = Offset(b)
  OBVIOUS
<1>6. PICK m : m = OldSize(bs, a)
  OBVIOUS
<1>7. PICK n : n = OldSize(bs, b)
  OBVIOUS
<1>8. PayloadIn(bs, A, a, k, x) /\ PayloadIn(bs, A, b, l, y)
  BY <1>2, <1>3, <1>4, <1>5, PayloadAt
<1>9. /\ k \in Nat /\ x \in Nat /\ m \in Nat /\ x + m < Stride
      /\ l \in Nat /\ y \in Nat /\ n \in Nat /\ y + n < Stride /\ Stride \in Nat
      /\ a = k * Stride + x /\ b = l * Stride + y
  <2>1. Stride \in Nat
    BY ArenaAssumption
  <2>2. a = k * Stride + x /\ b = l * Stride + y
    BY <1>8 DEF PayloadIn, Addr
  <2>3. k \in Nat /\ x \in Nat /\ m \in Nat /\ x + m < Stride
    BY <1>6, <1>8, <2>1 DEF PayloadIn
  <2>4. l \in Nat /\ y \in Nat /\ n \in Nat /\ y + n < Stride
    BY <1>7, <1>8, <2>1 DEF PayloadIn
  <2> QED
    BY <2>1, <2>2, <2>3, <2>4
<1>10. CASE k = l
  <2>1. x # y
    BY <1>9, <1>10
  <2>2. Past(bs[k], x) <= From(y) \/ Past(bs[k], y) <= From(x)
    BY <1>8, <1>10, <2>1, LaidAt DEF PayloadIn
  <2>3. /\ Past(bs[k], x) = x + m /\ From(x) = x - HeaderSize
        /\ Past(bs[k], y) = y + n /\ From(y) = y - HeaderSize
    BY <1>6, <1>7, <1>8, <1>10 DEF PayloadIn
  <2>4. x + m <= y \/ y + n <= x
    BY <1>9, <2>2, <2>3, BumpAssumption
  <2>5. PICK u \in Nat : u = k * Stride
    BY <1>9
  <2> QED
    BY <1>6, <1>7, <1>9, <1>10, <2>4, <2>5
<1>11. CASE k < l
  BY <1>6, <1>9, <1>11, EarlierBlock
<1>12. CASE l < k
  BY <1>7, <1>9, <1>12, EarlierBlock
<1> QED
  BY <1>9, <1>10, <1>11, <1>12

-----------------------------------------------------------------------------
(* Changes to one block.                                                   *)

\* An address has one block and one offset.
LEMMA OneAddress ==
  ASSUME NEW k \in Nat, NEW x \in 0 .. Stride - 1, NEW j \in Nat, NEW y \in 0 .. Stride - 1,
         Addr(k, x) = Addr(j, y)
  PROVE  k = j /\ x = y
  BY Addresses

\* One payload more, and one less.
With(A, k, q)    == A \cup {Addr(k, q)}
Without(A, k, q) == A \ {Addr(k, q)}

\* The offsets that block k has with one payload more ...
LEMMA OfWith ==
  ASSUME NEW A, NEW k \in Nat, NEW q \in 0 .. Stride - 1, NEW j \in Nat
  PROVE  Of(With(A, k, q), j) = IF j = k THEN Of(A, k) \cup {q} ELSE Of(A, j)
<1>1. ASSUME NEW x \in 0 .. Stride - 1 PROVE Addr(j, x) = Addr(k, q) <=> j = k /\ x = q
  BY OneAddress
<1>2. CASE j = k
  BY <1>1, <1>2 DEF Of, With
<1>3. CASE j # k
  BY <1>1, <1>3 DEF Of, With
<1> QED
  BY <1>2, <1>3

\* ... with one payload less ...
LEMMA OfWithout ==
  ASSUME NEW A, NEW k \in Nat, NEW q \in 0 .. Stride - 1, NEW j \in Nat
  PROVE  Of(Without(A, k, q), j) = IF j = k THEN Of(A, k) \ {q} ELSE Of(A, j)
<1>1. ASSUME NEW x \in 0 .. Stride - 1 PROVE Addr(j, x) = Addr(k, q) <=> j = k /\ x = q
  BY OneAddress
<1>2. CASE j = k
  BY <1>1, <1>2 DEF Of, Without
<1>3. CASE j # k
  BY <1>1, <1>3 DEF Of, Without
<1> QED
  BY <1>2, <1>3

\* ... and with some of them.
LEMMA OfSubset ==
  ASSUME NEW A, NEW B \in SUBSET A, NEW k
  PROVE  Of(B, k) \subseteq Of(A, k)
  BY DEF Of

\* Fewer payloads.
LEMMA AllLaidSubset ==
  ASSUME NEW bs, NEW A, AllLaid(bs, A), NEW B \in SUBSET A
  PROVE  AllLaid(bs, B)
<1>1. ASSUME NEW k \in 1 .. Len(bs) PROVE Laid(bs[k], Of(B, k))
  <2>1. Laid(bs[k], Of(A, k)) /\ Of(B, k) \in SUBSET Of(A, k)
    BY OfSubset DEF AllLaid
  <2> QED
    BY <2>1, LaidSubset
<1> QED
  BY <1>1 DEF AllLaid

\* cs is bs but for block k, which is c.
Changed(f, bs, cs, k, c) ==
    /\ cs \in Seq(Chunks(f)) /\ Len(cs) = Len(bs) /\ cs[k] = c
    /\ \A j \in 1 .. Len(bs) : j # k => cs[j] = bs[j]

\* The blocks but one are what they were.
LEMMA ChangedIs ==
  ASSUME NEW f \in FirstSizes, NEW bs \in Seq(Chunks(f)), NEW k \in 1 .. Len(bs),
         NEW c \in Blocks(bs[k].capacity), NEW cs, cs = [bs EXCEPT ![k] = c]
  PROVE  Changed(f, bs, cs, k, c)
<1>1. bs[k] \in Chunks(f)
  OBVIOUS
<1>2. c \in Chunks(f)
  BY <1>1, ChunkLike
<1> QED
  BY <1>2 DEF Changed

\* What is laid out in the block that changed and in the others.
LEMMA ChangedLays ==
  ASSUME NEW f \in FirstSizes, NEW bs \in Seq(Chunks(f)), NEW A, AllLaid(bs, A),
         NEW k \in 1 .. Len(bs), NEW c, NEW cs, Changed(f, bs, cs, k, c),
         NEW B, Laid(c, Of(B, k)),
         \A j \in 1 .. Len(bs) : j # k => Of(B, j) \subseteq Of(A, j),
         \A b \in B : b \in Nat /\ BlockOf(b) \in 1 .. Len(bs)
  PROVE  AllLaid(cs, B)
<1>1. ASSUME NEW j \in 1 .. Len(bs) PROVE Laid(cs[j], Of(B, j))
  <2>1. CASE j = k
    BY <2>1 DEF Changed
  <2>2. CASE j # k
    <3>1. cs[j] = bs[j] /\ Laid(bs[j], Of(A, j)) /\ Of(B, j) \in SUBSET Of(A, j)
      BY <2>2 DEF Changed, AllLaid
    <3> QED
      BY <3>1, LaidSubset
  <2> QED
    BY <2>1, <2>2
<1> QED
  BY <1>1 DEF AllLaid, Changed

\* What is not touched in the block that changed is the same.
LEMMA ChangedSame ==
  ASSUME NEW f \in FirstSizes, NEW bs \in Seq(Chunks(f)), NEW A, AllLaid(bs, A),
         NEW k \in 1 .. Len(bs), NEW c, NEW cs, Changed(f, bs, cs, k, c),
         NEW T \in SUBSET A, Untouched(bs[k], c, Of(T, k))
  PROVE  Same(bs, cs, T)
<1> SUFFICES ASSUME NEW a \in T
             PROVE  /\ OldSize(cs, a) = OldSize(bs, a)
                    /\ \A i \in 0 .. OldSize(bs, a) - 1 : Byte(cs, a, i) = Byte(bs, a, i)
  BY DEF Same
<1>1. PICK l : l = BlockOf(a)
  OBVIOUS
<1>2. PICK x : x = Offset(a)
  OBVIOUS
<1>3. PayloadIn(bs, A, a, l, x)
  BY <1>1, <1>2, PayloadAt
<1>4. CASE l # k
  <2>1. cs[l] = bs[l]
    BY <1>3, <1>4 DEF Changed, PayloadIn
  <2> QED
    BY <1>1, <2>1 DEF OldSize, Byte
<1>5. CASE l = k
  <2>1. cs[k] = c
    BY DEF Changed
  <2>2. x \in Of(T, k)
    <3>1. a = Addr(k, x) /\ x \in Of(A, k)
      BY <1>3, <1>5 DEF PayloadIn
    <3> QED
      BY <3>1 DEF Of
  <2>3. PICK h : h = OldSize(bs, a)
    OBVIOUS
  <2>4. /\ h \in Nat /\ Past(bs[k], x) = x + h /\ From(x) = x - HeaderSize
        /\ x \in Nat /\ h = BufferSize(bs[k], x)
    BY <1>3, <1>5, <2>3 DEF PayloadIn
  <2>5. \A y \in From(x) .. Past(bs[k], x) - 1 : c.mem[y] = bs[k].mem[y]
    BY <2>2 DEF Untouched
  <2>6. OldSize(cs, a) = h
    <3>1. From(x) \in From(x) .. Past(bs[k], x) - 1
      BY <2>4, BumpAssumption
    <3>2. BufferSize(c, x) = BufferSize(bs[k], x)
      BY <2>5, <3>1 DEF BufferSize, From
    <3> QED
      BY <1>1, <1>2, <1>5, <2>1, <2>4, <3>2 DEF OldSize
  <2>7. ASSUME NEW i \in 0 .. h - 1 PROVE Byte(cs, a, i) = Byte(bs, a, i)
    <3>1. x + i \in From(x) .. Past(bs[k], x) - 1
      BY <2>4, BumpAssumption
    <3>2. c.mem[x + i] = bs[k].mem[x + i]
      BY <2>5, <3>1
    <3> QED
      BY <1>1, <1>2, <1>5, <2>1, <3>2 DEF Byte
  <2> QED
    BY <2>3, <2>6, <2>7
<1> QED
  BY <1>4, <1>5

\* What a call gives that returns a payload, for n bytes, beside those at K.
Gives(f, bs, o, K, n, R) ==
    /\ o.buf \in Nat /\ o.buf # NULL /\ o.buf \notin K
    /\ Sound(f, o.blocks, o.current, K \cup {o.buf}, R)
    /\ Same(bs, o.blocks, K)
    /\ n <= OldSize(o.blocks, o.buf)

\* o is what a call gives that makes block k into c, with the payload at q.
PutIn(bs, k, c, q, o) ==
    o = [blocks |-> [bs EXCEPT ![k] = c], current |-> k, buf |-> Addr(k, q)]

\* The bytes of the payload are those of c at q.
HasBytes(o, c, q) == \A i : Byte(o.blocks, o.buf, i) = c.mem[q + i]

\* What BumpBlock_proof says that an allocation gives in a block, it gives in
\* the arena.
LEMMA GivenInArena ==
  ASSUME NEW f \in FirstSizes, NEW bs \in Seq(Chunks(f)), NEW A, AllLaid(bs, A),
         NEW K \in SUBSET A, NEW k \in 1 .. Len(bs), NEW R, Ahead(f, bs, k, R),
         NEW c, NEW q, NEW n \in Nat,
         Given(bs[k].capacity, bs[k], c, Of(K, k), q, n),
         NEW o, PutIn(bs, k, c, q, o)
  PROVE  Gives(f, bs, o, K, n, R) /\ HasBytes(o, c, q)
<1>0. PICK cs : cs = [bs EXCEPT ![k] = c]
  OBVIOUS
<1>1. PICK cap : cap = bs[k].capacity
  OBVIOUS
<1>2. cap \in Nat /\ cap < Stride /\ Stride \in Nat /\ Len(bs) \in Nat /\ k \in Nat /\ k # 0
  <2>1. bs[k] \in Chunks(f)
    OBVIOUS
  <2> QED
    BY <1>1, <2>1, ChunkParts, ArenaAssumption
<1>3. /\ c \in Blocks(cap) /\ q \notin Of(K, k) /\ Laid(c, Of(K, k) \cup {q})
      /\ Untouched(bs[k], c, Of(K, k)) /\ n <= BufferSize(c, q)
  BY <1>1 DEF Given
<1>4. q \in Nat /\ q <= cap /\ HeaderSize <= q
  BY <1>2, <1>3, LaidAt
<1>5. q \in 0 .. Stride - 1 /\ q # 0
  BY <1>2, <1>4, BumpAssumption
<1>6. PICK a : a = Addr(k, q)
  OBVIOUS
<1>7. a \in Nat /\ BlockOf(a) = k /\ Offset(a) = q
  BY <1>2, <1>5, <1>6, Addresses
<1>8. a # NULL
  <2>1. k * Stride \in Nat
    BY <1>2
  <2> QED
    BY <1>5, <1>6, <2>1 DEF Addr, NULL
<1>9. a \notin K
  BY <1>3, <1>5, <1>6 DEF Of
<1>10. Changed(f, bs, cs, k, c)
  BY <1>0, <1>1, <1>3, ChangedIs
<1>11. AllLaid(bs, K)
  BY AllLaidSubset
<1>12. AllLaid(cs, K \cup {a})
  <2>1. ASSUME NEW j \in Nat
        PROVE  Of(K \cup {a}, j) = IF j = k THEN Of(K, k) \cup {q} ELSE Of(K, j)
    <3>1. k \in Nat /\ q \in 0 .. Stride - 1
      BY <1>2, <1>5
    <3>2. Of(With(K, k, q), j) = IF j = k THEN Of(K, k) \cup {q} ELSE Of(K, j)
      BY <3>1, OfWith
    <3> QED
      BY <1>6, <3>2 DEF With
  <2>2. Laid(c, Of(K \cup {a}, k))
    BY <1>2, <1>3, <2>1
  <2>3. ASSUME NEW j \in 1 .. Len(bs), j # k PROVE Of(K \cup {a}, j) \subseteq Of(K, j)
    <3>1. j \in Nat \ {k}
      BY <1>2, <2>3
    <3> QED
      BY <2>1, <3>1
  <2>4. \A b \in K \cup {a} : b \in Nat /\ BlockOf(b) \in 1 .. Len(bs)
    BY <1>7, <1>11 DEF AllLaid
  <2> QED
    BY <1>10, <1>11, <2>2, <2>3, <2>4, ChangedLays
<1>13. Same(bs, cs, K)
  BY <1>3, <1>10, ChangedSame
<1>14. Ahead(f, cs, k, R) /\ cs \in Seq(Chunks(f)) /\ k \in 0 .. Len(cs)
  <2>1. cs \in Seq(Chunks(f)) /\ Len(cs) = Len(bs)
    BY <1>10 DEF Changed
  <2>2. \A j \in k + 1 .. Len(bs) : j \in 1 .. Len(bs) /\ j # k
    BY <1>2
  <2>3. \A j \in k + 1 .. Len(bs) : cs[j] = bs[j]
    BY <1>10, <2>2 DEF Changed
  <2> QED
    BY <1>2, <2>1, <2>3 DEF Ahead
<1>15. cs[k] = c
  BY <1>10 DEF Changed
<1>16. OldSize(cs, a) = BufferSize(c, q) /\ \A i : Byte(cs, a, i) = c.mem[q + i]
  BY <1>7, <1>15 DEF OldSize, Byte
<1>17. o.blocks = cs /\ o.current = k /\ o.buf = a
  BY <1>0, <1>6 DEF PutIn
<1>18. Sound(f, cs, k, K \cup {a}, R)
  BY <1>12, <1>14 DEF Sound
<1> QED
  BY <1>3, <1>7, <1>8, <1>9, <1>13, <1>16, <1>17, <1>18 DEF Gives, HasBytes

-----------------------------------------------------------------------------
(* arena_alloc.                                                            *)

\* Where there is room in block k for n bytes, they are given.
LEMMA PlaceGives ==
  ASSUME NEW f \in FirstSizes, NEW bs \in Seq(Chunks(f)), NEW A, AllLaid(bs, A),
         NEW k \in 1 .. Len(bs), NEW R, Ahead(f, bs, k, R), NEW n \in Nat,
         bs[k].size + AlignmentLoss(bs[k].size) + HeaderSize + n <= bs[k].capacity
  PROVE  Gives(f, bs, PlaceIn(bs, k, n), A, n, R)
<1>1. PICK b : b = bs[k]
  OBVIOUS
<1>2. PICK cap : cap = b.capacity
  OBVIOUS
<1>3. PICK S : S = Of(A, k)
  OBVIOUS
<1>4. PICK new : new = Place(b, n)
  OBVIOUS
<1>5. cap \in Nat /\ b \in Blocks(cap) /\ Laid(b, S)
  <2>1. b \in Chunks(f) /\ Laid(b, S)
    BY <1>1, <1>3 DEF AllLaid
  <2> QED
    BY <1>2, <2>1, ChunkParts
<1>6. b.size + AlignmentLoss(b.size) + HeaderSize + n <= cap
  BY <1>1, <1>2
<1>7. new.buf # NULL /\ new.block \in Blocks(cap)
  BY <1>4, <1>5, <1>6, PlaceProperties
<1>8. /\ new.buf \notin S /\ Laid(new.block, S \cup {new.buf})
      /\ Untouched(b, new.block, S) /\ BufferSize(new.block, new.buf) = n
  BY <1>4, <1>5, <1>6, PlaceLays
<1>9. Given(cap, b, new.block, S, new.buf, n)
  BY <1>7, <1>8 DEF Given
<1>10. PICK c : c = new.block
  OBVIOUS
<1>11. PICK q : q = new.buf
  OBVIOUS
<1>12. PICK o : o = PlaceIn(bs, k, n)
  OBVIOUS
<1>13. PutIn(bs, k, c, q, o)
  BY <1>1, <1>4, <1>10, <1>11, <1>12 DEF PutIn, PlaceIn
<1>14. Given(bs[k].capacity, bs[k], c, Of(A, k), q, n)
  BY <1>1, <1>2, <1>3, <1>9, <1>10, <1>11
<1>15. A \in SUBSET A
  OBVIOUS
<1>16. Gives(f, bs, o, A, n, R)
  BY <1>13, <1>14, <1>15, GivenInArena
<1> QED
  BY <1>12, <1>16

\* gs is bs with a new block at its end that can hold n bytes.
Appended(f, bs, gs, n) ==
    /\ gs \in Seq(Chunks(f)) /\ Len(gs) = Len(bs) + 1
    /\ \A j \in 1 .. Len(bs) : gs[j] = bs[j]
    /\ gs[Len(gs)].size = 0
    /\ n + HeaderSize <= gs[Len(gs)].capacity

\* The new block's capacity, for what a careful client asks for: no size is cut
\* at UINT32_MAX, none loses the alignment.
LEMMA GrownIsEnough ==
  ASSUME NEW bs \in Seq(Chunks(first_block_size)), first_block_size \in FirstSizes,
         NEW n \in Nat, Bearable(n)
  PROVE  /\ Grown(bs, n + HeaderSize) \in Capacities(first_block_size)
         /\ n + HeaderSize <= Grown(bs, n + HeaderSize)
<1> USE BumpAssumption
<1>1. PICK f : f = first_block_size
  OBVIOUS
<1>2. f \in Nat \ {0} /\ f < U32 /\ f % MaxAlign = 0
  BY <1>1 DEF FirstSizes
<1>3. PICK base : base = IF bs = <<>> THEN first_block_size ELSE bs[Len(bs)].capacity
  OBVIOUS
<1>4. base \in Nat \ {0} /\ base < U32 /\ base % MaxAlign = 0 /\ f <= base
  <2>1. CASE bs = <<>>
    BY <1>1, <1>2, <1>3, <2>1
  <2>2. CASE bs # <<>>
    <3>1. bs[Len(bs)] \in Chunks(f)
      BY <1>1, <2>2
    <3>2. PICK c \in Chunks(f) : c = bs[Len(bs)]
      BY <3>1
    <3>3. /\ c.capacity \in Nat \ {0} /\ c.capacity % MaxAlign = 0
          /\ f <= c.capacity /\ c.capacity < U32
      BY <1>1, ChunkParts
    <3> QED
      BY <1>3, <2>2, <3>2, <3>3
  <2> QED
    BY <2>1, <2>2
<1>5. PICK need \in Nat : need = n + HeaderSize
  OBVIOUS
<1>6. 2 * need <= U32
  BY <1>5 DEF Bearable
<1>7. PICK enough : enough = Doubled(base, need)
  OBVIOUS
<1>8. /\ enough \in Nat /\ enough >= need /\ enough >= base /\ enough % MaxAlign = 0
      /\ base >= need => enough = base
      /\ base < need => enough < 2 * need
  BY <1>4, <1>7, DoubledProperties
<1>9. enough < U32
  BY <1>4, <1>6, <1>8
<1>10. Grown(bs, need) = enough
  <2>1. ~(base < 1) /\ ~(enough > U32 - 1)
    BY <1>4, <1>8, <1>9
  <2> QED
    BY <1>3, <1>7, <2>1 DEF Grown
<1>11. enough \in Capacities(f)
  <2>1. enough \in f .. U32 - 1
    BY <1>2, <1>4, <1>8, <1>9
  <2> QED
    BY <1>8, <2>1 DEF Capacities
<1> QED
  BY <1>1, <1>5, <1>8, <1>10, <1>11

\* What the backing allocator gives.
LEMMA BlockAllocGives ==
  ASSUME NEW bs \in Seq(Chunks(first_block_size)), first_block_size \in FirstSizes,
         NEW n \in Nat, Bearable(n), NEW gs \in BlockAlloc(bs, n + HeaderSize), gs # bs
  PROVE  Appended(first_block_size, bs, gs, n)
<1> USE BumpAssumption
<1>1. PICK f \in FirstSizes : f = first_block_size
  OBVIOUS
<1>2. PICK cap : cap = Grown(bs, n + HeaderSize)
  OBVIOUS
<1>3. cap \in Capacities(f) /\ n + HeaderSize <= cap
  BY <1>1, <1>2, GrownIsEnough
<1>4. cap \in Nat \ {0}
  BY <1>3 DEF Capacities, FirstSizes
<1>5. PICK c : c = [size |-> 0, capacity |-> cap, mem |-> [a \in 0 .. cap - 1 |-> 0]]
  OBVIOUS
<1>6. gs = Append(bs, c)
  BY <1>2, <1>5 DEF BlockAlloc
<1>7. c \in Blocks(cap)
  BY <1>4, <1>5 DEF Blocks
<1>8. c \in Chunks(f) /\ c.size = 0 /\ c.capacity = cap
  BY <1>3, <1>5, <1>7 DEF Chunks
<1>9. gs \in Seq(Chunks(f)) /\ Len(gs) = Len(bs) + 1 /\ gs[Len(gs)] = c
  BY <1>1, <1>6, <1>8
<1>10. \A j \in 1 .. Len(bs) : gs[j] = bs[j]
  BY <1>1, <1>6
<1> QED
  BY <1>1, <1>3, <1>8, <1>9, <1>10 DEF Appended

\* A new block changes none of the payloads.
LEMMA AppendedKeeps ==
  ASSUME NEW f \in FirstSizes, NEW bs \in Seq(Chunks(f)), NEW A, AllLaid(bs, A),
         NEW gs, NEW n, Appended(f, bs, gs, n), NEW R
  PROVE  /\ AllLaid(gs, A) /\ Same(bs, gs, A)
         /\ Ahead(f, gs, Len(gs), R)
<1>1. /\ gs \in Seq(Chunks(f)) /\ Len(gs) = Len(bs) + 1 /\ Len(bs) \in Nat
      /\ \A j \in 1 .. Len(bs) : gs[j] = bs[j]
  BY DEF Appended
<1>2. \A a \in A : a \in Nat /\ BlockOf(a) \in 1 .. Len(bs)
  BY DEF AllLaid
<1>3. ASSUME NEW k \in 1 .. Len(gs) PROVE Laid(gs[k], Of(A, k))
  <2>1. CASE k \in 1 .. Len(bs)
    BY <1>1, <2>1 DEF AllLaid
  <2>2. CASE k \notin 1 .. Len(bs)
    <3>1. Of(A, k) = {}
      <4>1. ASSUME NEW off \in 0 .. Stride - 1, Addr(k, off) \in A PROVE FALSE
        <5>1. k \in Nat
          BY <1>1
        <5>2. BlockOf(Addr(k, off)) = k
          BY <5>1, Addresses
        <5> QED
          BY <1>2, <2>2, <4>1, <5>2
      <4> QED
        BY <4>1 DEF Of
    <3> QED
      BY <3>1 DEF Laid
  <2> QED
    BY <2>1, <2>2
<1>4. AllLaid(gs, A)
  BY <1>1, <1>2, <1>3 DEF AllLaid
<1>5. Same(bs, gs, A)
  BY <1>1, <1>2 DEF Same, OldSize, Byte
<1>6. Ahead(f, gs, Len(gs), R)
  BY <1>1 DEF Ahead
<1> QED
  BY <1>4, <1>5, <1>6

\* A call gives a payload, or changes nothing but what the current block is.
Yields(f, bs, cur, o, K, n, R) ==
    \/ o.buf = NULL /\ o.blocks = bs /\ o.current \in {cur, NULL}
    \/ Gives(f, bs, o, K, n, R)

\* What Advance finds in the current block, the next, or a new one.
LEMMA AdvanceGives ==
  ASSUME NEW bs, NEW cur, NEW A, NEW R, first_block_size \in FirstSizes,
         Sound(first_block_size, bs, cur, A, R), cur # NULL,
         NEW n \in Nat, n \in R, Bearable(n), NEW o \in Advance(bs, cur, n)
  PROVE  Yields(first_block_size, bs, cur, o, A, n, R)
<1> USE BumpAssumption
<1>1. PICK f \in FirstSizes : f = first_block_size
  OBVIOUS
<1>2. /\ bs \in Seq(Chunks(f)) /\ cur \in 1 .. Len(bs) /\ AllLaid(bs, A)
      /\ Ahead(f, bs, cur, R) /\ Len(bs) \in Nat
  BY <1>1 DEF Sound, NULL
<1>3. CASE BlockBytesLeft(bs[cur]) >= n + HeaderSize
  <2>1. o = PlaceIn(bs, cur, n)
    BY <1>3 DEF Advance
  <2>2. PICK b : b = bs[cur]
    OBVIOUS
  <2>3. b \in Chunks(f)
    BY <1>2, <2>2
  <2>4. /\ AlignmentLoss(b.size) \in Nat /\ b.size \in Nat /\ b.capacity \in Nat
        /\ BlockBytesLeft(b) = b.capacity - (b.size + AlignmentLoss(b.size))
    BY <2>3, BytesLeftInBlock, ChunkParts
  <2>5. b.size + AlignmentLoss(b.size) + HeaderSize + n <= b.capacity
    BY <1>3, <2>2, <2>4
  <2> QED
    BY <1>1, <1>2, <2>1, <2>2, <2>5, PlaceGives DEF Yields
<1>4. CASE ~(BlockBytesLeft(bs[cur]) >= n + HeaderSize) /\ cur < Len(bs)
  <2>1. o = PlaceIn(bs, cur + 1, n)
    BY <1>4 DEF Advance
  <2>2. PICK next : next = cur + 1
    OBVIOUS
  <2>3. next \in 1 .. Len(bs) /\ next \in cur + 1 .. Len(bs)
    BY <1>2, <1>4, <2>2
  <2>4. PICK b : b = bs[next]
    OBVIOUS
  <2>5. b \in Chunks(f)
    BY <1>2, <2>3, <2>4
  <2>6. b.size = 0 /\ n + HeaderSize <= f /\ cur # 0
    BY <1>2, <1>4, <2>3, <2>4 DEF Ahead
  <2>7. b.capacity \in Nat /\ f <= b.capacity /\ f \in Nat
    BY <2>5, ChunkParts DEF FirstSizes
  <2>8. AlignmentLoss(b.size) = 0
    <3>1. 0 % MaxAlign = 0
      OBVIOUS
    <3> QED
      BY <2>6, <3>1, LossProperties
  <2>9. b.size + AlignmentLoss(b.size) + HeaderSize + n <= b.capacity
    BY <2>6, <2>7, <2>8
  <2>10. Ahead(f, bs, next, R)
    <3>1. \A k \in next + 1 .. Len(bs) : k \in cur + 1 .. Len(bs)
      BY <1>2, <2>2
    <3> QED
      BY <1>2, <1>4, <2>6, <3>1 DEF Ahead
  <2> QED
    BY <1>1, <1>2, <2>1, <2>2, <2>3, <2>4, <2>9, <2>10, PlaceGives DEF Yields
<1>5. CASE ~(BlockBytesLeft(bs[cur]) >= n + HeaderSize) /\ ~(cur < Len(bs))
  <2>1. PICK gs \in BlockAlloc(bs, n + HeaderSize) :
           o = IF gs = bs THEN Nothing(bs, NULL) ELSE PlaceIn(gs, Len(gs), n)
    BY <1>5 DEF Advance
  <2>2. CASE gs = bs
    BY <2>1, <2>2 DEF Nothing, Yields
  <2>3. CASE gs # bs
    <3>1. Appended(f, bs, gs, n)
      BY <1>1, <1>2, <2>3, BlockAllocGives
    <3>2. AllLaid(gs, A) /\ Same(bs, gs, A) /\ Ahead(f, gs, Len(gs), R)
      BY <1>2, <3>1, AppendedKeeps
    <3>3. PICK k : k = Len(gs)
      OBVIOUS
    <3>4. /\ gs \in Seq(Chunks(f)) /\ k \in 1 .. Len(gs) /\ gs[k].size = 0
          /\ n + HeaderSize <= gs[k].capacity
      BY <1>2, <3>1, <3>3 DEF Appended
    <3>5. AlignmentLoss(gs[k].size) = 0
      <4>1. 0 % MaxAlign = 0
        OBVIOUS
      <4> QED
        BY <3>4, <4>1, LossProperties
    <3>6. gs[k].size + AlignmentLoss(gs[k].size) + HeaderSize + n <= gs[k].capacity
      <4>1. PICK b : b = gs[k]
        OBVIOUS
      <4>2. b.size = 0 /\ AlignmentLoss(b.size) = 0 /\ n + HeaderSize <= b.capacity
        BY <3>4, <3>5, <4>1
      <4>3. b.capacity \in Nat
        <5>1. b \in Chunks(f)
          BY <3>4, <4>1
        <5> QED
          BY <5>1, ChunkParts
      <4> QED
        BY <4>1, <4>2, <4>3
    <3>7. Gives(f, gs, o, A, n, R)
      BY <2>1, <2>3, <3>2, <3>3, <3>4, <3>6, PlaceGives
    <3>8. Gives(f, bs, o, A, n, R)
      BY <3>2, <3>7, SameTwice DEF Gives
    <3> QED
      BY <1>1, <3>8 DEF Yields
  <2> QED
    BY <2>2, <2>3
<1> QED
  BY <1>3, <1>4, <1>5

\* arena_t_alloc gives a payload beside those there are, or nothing.
LEMMA ArenaAllocGives ==
  ASSUME NEW bs, NEW cur, NEW A, NEW R, first_block_size \in FirstSizes,
         Sound(first_block_size, bs, cur, A, R),
         NEW n \in Nat, n \in R, Bearable(n), n # 0 /\ bs # <<>> => cur # NULL,
         NEW o \in ArenaAlloc(bs, cur, n)
  PROVE  Yields(first_block_size, bs, cur, o, A, n, R)
<1> USE BumpAssumption
<1>1. PICK f \in FirstSizes : f = first_block_size
  OBVIOUS
<1>2. /\ bs \in Seq(Chunks(f)) /\ AllLaid(bs, A) /\ Len(bs) \in Nat
      /\ Ahead(f, bs, cur, R)
  BY <1>1 DEF Sound
<1>3. CASE n = 0
  BY <1>3 DEF ArenaAlloc, Nothing, Yields
<1>4. CASE n # 0 /\ bs # <<>>
  <2>1. o \in Advance(bs, cur, n)
    BY <1>4 DEF ArenaAlloc
  <2> QED
    BY <1>4, <2>1, AdvanceGives
<1>5. CASE n # 0 /\ bs = <<>>
  <2>1. PICK gs \in BlockAlloc(bs, n + HeaderSize) :
           o \in IF gs = <<>> THEN {Nothing(bs, cur)} ELSE Advance(gs, 1, n)
    BY <1>5 DEF ArenaAlloc
  <2>2. CASE gs = <<>>
    BY <2>1, <2>2 DEF Nothing, Yields
  <2>3. CASE gs # <<>>
    <3>1. Appended(f, bs, gs, n)
      BY <1>1, <1>2, <1>5, <2>3, BlockAllocGives
    <3>2. AllLaid(gs, A) /\ Same(bs, gs, A) /\ Ahead(f, gs, Len(gs), R)
      BY <1>2, <3>1, AppendedKeeps
    <3>3. /\ gs \in Seq(Chunks(f)) /\ Len(gs) = 1 /\ gs[1].size = 0
          /\ n + HeaderSize <= gs[1].capacity
      BY <1>5, <3>1 DEF Appended
    <3>4. PICK b : b = gs[1]
      OBVIOUS
    <3>5. b \in Chunks(f)
      <4>1. PICK k : k = 1
        OBVIOUS
      <4>2. k \in 1 .. Len(gs) /\ b = gs[k]
        BY <3>3, <3>4, <4>1
      <4>3. gs \in Seq(Chunks(f))
        BY <3>3
      <4>4. gs[k] \in Chunks(f)
        BY <4>2, <4>3
      <4> QED
        BY <4>2, <4>4
    <3>6. b.size = 0 /\ n + HeaderSize <= b.capacity /\ b.capacity \in Nat
      BY <3>3, <3>4, <3>5, ChunkParts
    <3>7. AlignmentLoss(b.size) = 0
      <4>1. 0 % MaxAlign = 0
        OBVIOUS
      <4> QED
        BY <3>6, <4>1, LossProperties
    <3>8. BlockBytesLeft(b) >= n + HeaderSize
      <4>1. BlockBytesLeft(b) = b.capacity - (b.size + AlignmentLoss(b.size))
        BY <3>5, BytesLeftInBlock
      <4> QED
        BY <3>6, <3>7, <4>1
    <3>9. o = PlaceIn(gs, 1, n)
      BY <2>1, <2>3, <3>4, <3>8 DEF Advance
    <3>10. gs[1].size + AlignmentLoss(gs[1].size) + HeaderSize + n <= gs[1].capacity
      <4>1. b.size + AlignmentLoss(b.size) + HeaderSize + n <= b.capacity
        BY <3>6, <3>7
      <4> QED
        BY <3>4, <4>1
    <3>11. Gives(f, gs, o, A, n, R)
      <4>1. PICK k : k = 1
        OBVIOUS
      <4>2. k \in 1 .. Len(gs) /\ Ahead(f, gs, k, R) /\ o = PlaceIn(gs, k, n)
        BY <3>2, <3>3, <3>9, <4>1
      <4>3. gs[k].size + AlignmentLoss(gs[k].size) + HeaderSize + n <= gs[k].capacity
        BY <3>10, <4>1
      <4> QED
        BY <3>2, <3>3, <4>2, <4>3, PlaceGives
    <3>12. Gives(f, bs, o, A, n, R)
      BY <3>2, <3>11, SameTwice DEF Gives
    <3> QED
      BY <1>1, <3>12 DEF Yields
  <2> QED
    BY <2>2, <2>3
<1> QED
  BY <1>3, <1>4, <1>5

-----------------------------------------------------------------------------
(* Writing to a payload, and giving one back.                              *)

\* The blocks after the current one stay empty.
LEMMA ChangedAhead ==
  ASSUME NEW f, NEW bs, Len(bs) \in Nat, NEW k, NEW c, NEW cs, Changed(f, bs, cs, k, c),
         NEW cur \in Nat, NEW R, Ahead(f, bs, cur, R), k = cur \/ c.size = bs[k].size
  PROVE  Ahead(f, cs, cur, R)
<1>1. Len(cs) = Len(bs) /\ cs[k] = c /\ \A j \in 1 .. Len(bs) : j # k => cs[j] = bs[j]
  BY DEF Changed
<1>2. ASSUME cur # 0, NEW j \in cur + 1 .. Len(bs) PROVE cs[j].size = 0
  <2>1. bs[j].size = 0
    BY <1>2 DEF Ahead
  <2>2. j \in 1 .. Len(bs) /\ j # cur
    BY <1>2
  <2> QED
    BY <1>1, <2>1, <2>2
<1> QED
  BY <1>1, <1>2 DEF Ahead

\* ds is cs but for the bytes of the payload at q, in a memory m.
Overwritten(cs, ds, q, m) ==
    LET b == cs[BlockOf(q)]
    IN  /\ ds = [cs EXCEPT ![BlockOf(q)] = [@ EXCEPT !.mem = m]]
        /\ m \in [0 .. b.capacity - 1 -> Nat]
        /\ \A a \in 0 .. b.capacity - 1 :
              a \notin Offset(q) .. Offset(q) + OldSize(cs, q) - 1 => m[a] = b.mem[a]

\* The payload at q is the bytes of m.
ReadsAs(ds, q, m) == \A i : Byte(ds, q, i) = m[Offset(q) + i]

\* Only the contents of that payload change.
LEMMA OverwrittenKeeps ==
  ASSUME NEW f \in FirstSizes, NEW cs, NEW cur, NEW B, NEW R, Sound(f, cs, cur, B, R),
         NEW q \in B, NEW ds, NEW m, Overwritten(cs, ds, q, m)
  PROVE  /\ Sound(f, ds, cur, B, R) /\ Same(cs, ds, B \ {q})
         /\ OldSize(ds, q) = OldSize(cs, q)
         /\ ReadsAs(ds, q, m)
<1>1. PICK k : k = BlockOf(q)
  OBVIOUS
<1>2. PICK off : off = Offset(q)
  OBVIOUS
<1>3. PICK b : b = cs[k]
  OBVIOUS
<1>4. PICK cap : cap = b.capacity
  OBVIOUS
<1>5. /\ cs \in Seq(Chunks(f)) /\ AllLaid(cs, B) /\ Ahead(f, cs, cur, R)
      /\ cur \in Nat /\ cur <= Len(cs) /\ Len(cs) \in Nat
  BY DEF Sound
<1>6. PayloadIn(cs, B, q, k, off) /\ b \in Chunks(f)
  BY <1>1, <1>2, <1>3, <1>5, PayloadAt
<1>7. /\ k \in 1 .. Len(cs) /\ off \in Of(B, k) /\ b \in Blocks(cap) /\ cap \in Nat
      /\ Laid(b, Of(B, k)) /\ Past(b, off) = off + OldSize(cs, q) /\ q = Addr(k, off)
      /\ off \in 0 .. Stride - 1 /\ k \in Nat
  BY <1>3, <1>4, <1>6, ArenaAssumption DEF PayloadIn
<1>8. PICK c : c = [b EXCEPT !.mem = m]
  OBVIOUS
<1>21. PICK h \in Nat : h = OldSize(cs, q)
  BY <1>6 DEF PayloadIn
<1>22. PICK past \in Nat : past = off + h
  BY <1>7, ArenaAssumption
<1>9. /\ m \in [0 .. cap - 1 -> Nat]
      /\ \A a \in 0 .. cap - 1 : a \notin off .. off + h - 1 => m[a] = b.mem[a]
      /\ ds = [cs EXCEPT ![k] = c]
  <2>1. /\ m \in [0 .. cap - 1 -> Nat]
        /\ \A a \in 0 .. cap - 1 : a \notin off .. off + h - 1 => m[a] = b.mem[a]
    BY <1>1, <1>2, <1>3, <1>4, <1>21 DEF Overwritten
  <2>2. ds = [cs EXCEPT ![k] = [@ EXCEPT !.mem = m]]
    BY <1>1 DEF Overwritten
  <2>3. ds = [cs EXCEPT ![k] = c]
    BY <1>3, <1>8, <2>2
  <2> QED
    BY <2>1, <2>3
<1>10. c = [size |-> b.size, capacity |-> cap, mem |-> m] /\ b.size \in 0 .. cap
  BY <1>7, <1>8, BlockParts
<1>11. c \in Blocks(cap) /\ c.size = b.size /\ c.mem = m
  BY <1>9, <1>10 DEF Blocks
<1>12. DiffersIn(cap, b, c, off, Past(b, off))
  <2>1. DiffersIn(cap, b, c, off, past)
    <3>1. off .. past - 1 = off .. off + h - 1
      BY <1>7, <1>22, ArenaAssumption
    <3> QED
      BY <1>9, <1>11, <3>1 DEF DiffersIn
  <2>2. past = Past(b, off)
    BY <1>7, <1>21, <1>22
  <2> QED
    BY <2>1, <2>2
<1>13. Rewritten(b, c, Of(B, k), off)
  BY <1>7, <1>12, WriteLays
<1>14. Changed(f, cs, ds, k, c)
  BY <1>3, <1>4, <1>5, <1>7, <1>9, <1>11, ChangedIs
<1>15. AllLaid(ds, B)
  <2>1. Laid(c, Of(B, k))
    BY <1>13 DEF Rewritten
  <2>2. \A x \in B : x \in Nat /\ BlockOf(x) \in 1 .. Len(cs)
    BY <1>5 DEF AllLaid
  <2> QED
    BY <1>5, <1>7, <1>14, <2>1, <2>2, ChangedLays
<1>16. Same(cs, ds, B \ {q})
  <2>1. Of(B \ {q}, k) = Of(B, k) \ {off}
    <3>1. Of(Without(B, k, off), k) = Of(B, k) \ {off}
      BY <1>7, OfWithout
    <3> QED
      BY <1>7, <3>1 DEF Without
  <2>2. Untouched(cs[k], c, Of(B \ {q}, k))
    BY <1>3, <1>13, <2>1 DEF Rewritten
  <2>3. B \ {q} \in SUBSET B
    OBVIOUS
  <2> QED
    BY <1>5, <1>7, <1>14, <2>2, <2>3, ChangedSame
<1>17. ds[k] = c /\ ds \in Seq(Chunks(f)) /\ Len(ds) = Len(cs)
  BY <1>14 DEF Changed
<1>18. OldSize(ds, q) = OldSize(cs, q) /\ ReadsAs(ds, q, m)
  BY <1>1, <1>2, <1>3, <1>11, <1>13, <1>17 DEF Rewritten, OldSize, Byte, ReadsAs
<1>19. Ahead(f, ds, cur, R)
  BY <1>3, <1>5, <1>11, <1>14, ChangedAhead
<1>20. Sound(f, ds, cur, B, R)
  BY <1>5, <1>15, <1>17, <1>19 DEF Sound
<1> QED
  BY <1>16, <1>18, <1>20

\* arena_free leaves the others alone.
LEMMA ArenaReleaseKeeps ==
  ASSUME NEW f \in FirstSizes, NEW bs, NEW cur, NEW A, NEW R, Sound(f, bs, cur, A, R),
         NEW p \in A, NEW rs, rs = ArenaRelease(bs, cur, p)
  PROVE  Sound(f, rs, cur, A \ {p}, R) /\ Same(bs, rs, A \ {p})
<1>1. PICK off : off = Offset(p)
  OBVIOUS
<1>2. /\ bs \in Seq(Chunks(f)) /\ AllLaid(bs, A) /\ Ahead(f, bs, cur, R)
      /\ cur \in Nat /\ cur <= Len(bs) /\ Len(bs) \in Nat
  BY DEF Sound
<1>3. A \ {p} \in SUBSET A
  OBVIOUS
<1>4. CASE ~IsLastOfArena(bs, cur, p)
  <2>1. rs = bs
    BY <1>4 DEF ArenaRelease
  <2>2. AllLaid(bs, A \ {p})
    BY <1>2, <1>3, AllLaidSubset
  <2> QED
    BY <1>2, <2>1, <2>2 DEF Sound, Same
<1>5. CASE IsLastOfArena(bs, cur, p)
  <2>1. PICK b : b = bs[cur]
    OBVIOUS
  <2>2. PICK c : c = Release(b, off)
    OBVIOUS
  <2>3. PICK cap : cap = b.capacity
    OBVIOUS
  <2>4. BlockOf(p) = cur /\ IsLast(b, off) /\ rs = [bs EXCEPT ![cur] = c]
    BY <1>1, <1>5, <2>1, <2>2 DEF IsLastOfArena, ArenaRelease
  <2>5. PayloadIn(bs, A, p, cur, off) /\ b \in Chunks(f)
    BY <1>1, <1>2, <2>1, <2>4, PayloadAt
  <2>6. /\ cur \in 1 .. Len(bs) /\ off \in Of(A, cur) /\ b \in Blocks(cap) /\ cap \in Nat
        /\ Laid(b, Of(A, cur)) /\ p = Addr(cur, off) /\ off \in 0 .. Stride - 1
    BY <2>1, <2>3, <2>5, ArenaAssumption DEF PayloadIn
  <2>7. /\ c \in Blocks(cap) /\ Laid(c, Of(A, cur) \ {off})
        /\ Untouched(b, c, Of(A, cur) \ {off})
    BY <2>2, <2>6, ReleaseLays
  <2>8. Changed(f, bs, rs, cur, c)
    BY <1>2, <2>1, <2>3, <2>4, <2>6, <2>7, ChangedIs
  <2>9. Of(A \ {p}, cur) = Of(A, cur) \ {off}
    <3>1. Of(Without(A, cur, off), cur) = Of(A, cur) \ {off}
      BY <1>2, <2>6, OfWithout
    <3> QED
      BY <2>6, <3>1 DEF Without
  <2>10. AllLaid(rs, A \ {p})
    <3>1. Laid(c, Of(A \ {p}, cur))
      BY <2>7, <2>9
    <3>2. \A j \in 1 .. Len(bs) : j # cur => Of(A \ {p}, j) \subseteq Of(A, j)
      BY <1>3, OfSubset
    <3>3. \A x \in A \ {p} : x \in Nat /\ BlockOf(x) \in 1 .. Len(bs)
      BY <1>2 DEF AllLaid
    <3> QED
      BY <1>2, <2>6, <2>8, <3>1, <3>2, <3>3, ChangedLays
  <2>11. Same(bs, rs, A \ {p})
    <3>1. Untouched(bs[cur], c, Of(A \ {p}, cur))
      BY <2>1, <2>7, <2>9
    <3> QED
      BY <1>2, <1>3, <2>6, <2>8, <3>1, ChangedSame
  <2>12. Ahead(f, rs, cur, R)
    BY <1>2, <2>8, ChangedAhead
  <2>13. rs \in Seq(Chunks(f)) /\ Len(rs) = Len(bs)
    BY <2>8 DEF Changed
  <2> QED
    BY <1>2, <2>10, <2>11, <2>12, <2>13 DEF Sound
<1> QED
  BY <1>4, <1>5

\* arena_reset and arena_deinit.
LEMMA EmptiedKeeps ==
  ASSUME NEW f \in FirstSizes, NEW bs \in Seq(Chunks(f)), NEW R,
         \A n \in R : n + HeaderSize <= f
  PROVE  Sound(f, Emptied(bs), IF bs = <<>> THEN NULL ELSE 1, {}, R)
<1>1. PICK es : es = Emptied(bs)
  OBVIOUS
<1>2. Len(bs) \in Nat /\ DOMAIN bs = 1 .. Len(bs)
  OBVIOUS
<1>3. ASSUME NEW k \in 1 .. Len(bs) PROVE [bs[k] EXCEPT !.size = 0] \in Chunks(f)
  <2>1. PICK b \in Chunks(f) : b = bs[k]
    OBVIOUS
  <2>2. PICK cap \in Nat : cap = b.capacity /\ b \in Blocks(cap)
    BY ChunkParts
  <2>3. b = [size |-> b.size, capacity |-> cap, mem |-> b.mem] /\ b.mem \in [0 .. cap - 1 -> Nat]
    BY <2>2, BlockParts
  <2>4. PICK c : c = [b EXCEPT !.size = 0]
    OBVIOUS
  <2>5. c = [size |-> 0, capacity |-> cap, mem |-> b.mem]
    BY <2>3, <2>4
  <2>6. c \in Blocks(cap)
    BY <2>2, <2>3, <2>5 DEF Blocks
  <2>7. c \in Chunks(f)
    BY <2>2, <2>6, ChunkLike
  <2> QED
    BY <2>1, <2>4, <2>7
<1>4. es = [k \in 1 .. Len(bs) |-> [bs[k] EXCEPT !.size = 0]]
  BY <1>1, <1>2 DEF Emptied
<1>5. es \in [1 .. Len(bs) -> Chunks(f)]
  BY <1>3, <1>4
<1>6. es \in Seq(Chunks(f)) /\ Len(es) = Len(bs)
  BY <1>2, <1>5, IsASeq, LenProperties
<1>7. ASSUME NEW k \in 1 .. Len(es) PROVE es[k].size = 0 /\ Laid(es[k], Of({}, k))
  <2>1. PICK b \in Chunks(f) : b = bs[k]
    BY <1>6, <1>7
  <2>2. PICK cap \in Nat : cap = b.capacity /\ b \in Blocks(cap)
    BY ChunkParts
  <2>3. b = [size |-> b.size, capacity |-> cap, mem |-> b.mem]
    BY <2>2, BlockParts
  <2>4. es[k] = [b EXCEPT !.size = 0]
    BY <1>4, <1>6, <2>1
  <2>5. es[k].size = 0
    BY <2>3, <2>4
  <2>6. Of({}, k) = {}
    BY DEF Of
  <2> QED
    BY <2>5, <2>6 DEF Laid
<1>8. AllLaid(es, {})
  BY <1>7 DEF AllLaid
<1>9. CASE bs = <<>>
  BY <1>1, <1>6, <1>8, <1>9 DEF Sound, Ahead, NULL
<1>10. CASE bs # <<>>
  <2>1. 1 \in 0 .. Len(es)
    <3>1. Len(bs) # 0
      BY <1>10
    <3> QED
      BY <1>2, <1>6, <3>1
  <2>2. \A k \in 1 + 1 .. Len(es) : es[k].size = 0
    BY <1>7
  <2>3. Ahead(f, es, 1, R)
    BY <2>2 DEF Ahead
  <2>4. Sound(f, es, 1, {}, R)
    BY <1>6, <1>8, <2>1, <2>3 DEF Sound
  <2> QED
    BY <1>1, <1>10, <2>4
<1> QED
  BY <1>9, <1>10

\* An arena without blocks.
LEMMA NothingIsSound ==
  ASSUME NEW f, NEW R
  PROVE  Sound(f, <<>>, NULL, {}, R)
  BY DEF Sound, AllLaid, Ahead, NULL

-----------------------------------------------------------------------------
(* arena_remap.                                                            *)

\* What a remap carries over.
CarriedOver(bs, o, p, n) ==
    \A i \in 0 .. OldSize(bs, p) - 1 : i < n => Byte(o.blocks, o.buf, i) = Byte(bs, p, i)

\* A call has moved the payload at p, or changed nothing but what the current
\* block is.
Remaps(f, bs, cur, o, A, p, n, R) ==
    \/ o.buf = NULL /\ o.blocks = bs /\ o.current \in {cur, NULL}
    \/ Gives(f, bs, o, A \ {p}, n, R) /\ CarriedOver(bs, o, p, n)

\* NULL is no payload: the arena's blocks are numbered from 1.
LEMMA NoPayloadAtNull ==
  ASSUME NEW f \in FirstSizes, NEW bs \in Seq(Chunks(f)), NEW A, AllLaid(bs, A), NEW p \in A
  PROVE  p \in Nat /\ p # NULL
<1>1. PICK k : k = BlockOf(p)
  OBVIOUS
<1>2. PICK off : off = Offset(p)
  OBVIOUS
<1>3. PayloadIn(bs, A, p, k, off)
  BY <1>1, <1>2, PayloadAt
<1>4. /\ p = k * Stride + off /\ k \in Nat /\ off \in Nat /\ p \in Nat /\ off > 0
      /\ Stride \in Nat
  <2>1. off > 0
    BY <1>3, BumpAssumption DEF PayloadIn
  <2> QED
    BY <1>3, <2>1, ArenaAssumption DEF PayloadIn, Addr
<1>5. k * Stride \in Nat
  BY <1>4
<1> QED
  BY <1>4, <1>5 DEF NULL

\* There is room for n bytes where the payload is.
CanGrow(bs, cur, p, n) ==
    /\ IsLastOfArena(bs, cur, p)
    /\ ~(OldSize(bs, p) >= n) /\ BytesLeft(bs[cur], Offset(p)) >= n

\* The last payload of the current block grows where it is.
LEMMA ArenaGrows ==
  ASSUME NEW bs, NEW cur, NEW A, NEW R, first_block_size \in FirstSizes,
         Sound(first_block_size, bs, cur, A, R), NEW p \in A,
         NEW n \in Nat, CanGrow(bs, cur, p, n),
         NEW o \in ArenaAlloc(ArenaRelease(bs, cur, p), cur, n)
  PROVE  Gives(first_block_size, bs, o, A \ {p}, n, R) /\ CarriedOver(bs, o, p, n)
<1>1. PICK f \in FirstSizes : f = first_block_size
  OBVIOUS
<1>2. /\ bs \in Seq(Chunks(f)) /\ AllLaid(bs, A) /\ Ahead(f, bs, cur, R)
      /\ cur \in Nat /\ cur <= Len(bs) /\ Len(bs) \in Nat
  BY <1>1 DEF Sound
<1>3. PICK off : off = Offset(p)
  OBVIOUS
<1>4. PICK b : b = bs[cur]
  OBVIOUS
<1>5. PICK cap : cap = b.capacity
  OBVIOUS
<1>6. PICK S : S = Of(A, cur)
  OBVIOUS
<1>7. PICK h : h = BufferSize(b, off)
  OBVIOUS
<1>8. BlockOf(p) = cur /\ IsLast(b, off) /\ BytesLeft(b, off) >= n
  BY <1>3, <1>4 DEF IsLastOfArena, CanGrow
<1>9. PayloadIn(bs, A, p, cur, off) /\ b \in Chunks(f)
  BY <1>2, <1>3, <1>4, <1>8, PayloadAt
<1>10. /\ cur \in 1 .. Len(bs) /\ off \in S /\ b \in Blocks(cap) /\ cap \in Nat
       /\ Laid(b, S) /\ p = Addr(cur, off) /\ off \in 0 .. Stride - 1 /\ off \in Nat
       /\ OldSize(bs, p) = h /\ h \in Nat
       /\ From(off) = off - HeaderSize /\ From(off) \in Nat
       /\ off + h <= b.size /\ b.size \in Nat /\ b.size <= cap /\ cap < Stride
  BY <1>4, <1>5, <1>6, <1>7, <1>9, ArenaAssumption DEF PayloadIn
<1>11. b.size - h = off /\ cap < U32 /\ n # 0
  <2>1. cap < U32
    BY <1>5, <1>9, ChunkParts
  <2> QED
    BY <1>7, <1>8, <1>10, <2>1, BumpAssumption DEF IsLast, CanGrow
<1>12. cap - off >= n
  <2>1. PICK left : left = cap - b.size + h
    OBVIOUS
  <2>2. left = cap - off /\ left \in Nat /\ left < U32
    <3>1. PICK size : size = b.size
      OBVIOUS
    <3>2. /\ cap \in Nat /\ h \in Nat /\ size \in Nat /\ off \in Nat
          /\ off + h <= size /\ size <= cap /\ size - h = off /\ cap < U32
          /\ left = cap - size + h
      BY <1>10, <1>11, <2>1, <3>1
    <3> QED
      BY <3>2, BumpAssumption
  <2>3. left % U32 = left
    BY <2>2, BumpAssumption
  <2> QED
    BY <1>5, <1>7, <1>8, <2>1, <2>2, <2>3, BumpAssumption DEF BytesLeft
<1>13. PICK r : r = Release(b, off)
  OBVIOUS
<1>14. r \in Blocks(cap) /\ r.size = From(off) /\ r.mem = b.mem
  <2>1. cap \in Nat /\ b \in Blocks(cap) /\ Laid(b, S) /\ off \in S
    BY <1>10
  <2>2. /\ r \in Blocks(cap) /\ r.mem = b.mem /\ Laid(r, S \ {off})
        /\ IsLast(b, off) => r.size = From(off) /\ Past(b, off) = b.size
    BY <1>13, <2>1, ReleaseLays
  <2> QED
    BY <1>8, <2>2
<1>15. From(off) % MaxAlign = 0
  BY <1>10 DEF Laid
<1>16. AlignmentLoss(r.size) = 0
  BY <1>10, <1>14, <1>15, LossProperties
<1>17. r \in Chunks(f) /\ r.capacity = cap
  BY <1>5, <1>9, <1>14, ChunkLike
<1>18. BlockBytesLeft(r) >= n + HeaderSize
  <2>1. BlockBytesLeft(r) = r.capacity - (r.size + AlignmentLoss(r.size))
    BY <1>17, BytesLeftInBlock
  <2> QED
    BY <1>10, <1>12, <1>14, <1>16, <1>17, <2>1, BumpAssumption
<1>19. PICK new : new = Place(r, n)
  OBVIOUS
<1>20. new = RegionAlloc(Release(b, off), n)
  <2>1. RegionFits(r, n)
    BY <1>10, <1>12, <1>14, <1>16, <1>17, BumpAssumption DEF RegionFits
  <2> QED
    BY <1>11, <1>13, <1>19, <2>1 DEF RegionAlloc
<1>21. new.buf # NULL
  <2>1. r.size + AlignmentLoss(r.size) + HeaderSize + n <= cap
    BY <1>10, <1>12, <1>14, <1>16, BumpAssumption
  <2> QED
    BY <1>10, <1>14, <1>19, <2>1, PlaceProperties
<1>22. PICK c : c = new.block
  OBVIOUS
<1>23. PICK q : q = new.buf
  OBVIOUS
<1>24. /\ Given(cap, b, c, S \ {off}, q, n)
       /\ Carried(b, off, h, c, q, n)
  BY <1>7, <1>8, <1>10, <1>20, <1>21, <1>22, <1>23, RemapGrows
<1>25. PutIn(bs, cur, c, q, o)
  <2>1. PICK rs : rs = [bs EXCEPT ![cur] = r]
    OBVIOUS
  <2>2. ArenaRelease(bs, cur, p) = rs
    BY <1>3, <1>4, <1>13, <2>1 DEF ArenaRelease, CanGrow
  <2>3. rs \in Seq(Chunks(f)) /\ rs[cur] = r /\ rs # <<>>
    <3>1. Changed(f, bs, rs, cur, r)
      <4>1. r \in Blocks(bs[cur].capacity)
        BY <1>4, <1>5, <1>14
      <4> QED
        BY <1>2, <1>10, <2>1, <4>1, ChangedIs
    <3>2. rs \in Seq(Chunks(f)) /\ rs[cur] = r /\ Len(rs) = Len(bs)
      BY <3>1 DEF Changed
    <3>3. Len(rs) # 0
      BY <1>2, <1>10, <3>2
    <3> QED
      BY <3>2, <3>3
  <2>4. o \in Advance(rs, cur, n)
    BY <1>11, <2>2, <2>3 DEF ArenaAlloc
  <2>5. o = PlaceIn(rs, cur, n)
    BY <1>18, <2>3, <2>4 DEF Advance
  <2>6. o = [blocks |-> [rs EXCEPT ![cur] = c], current |-> cur, buf |-> Addr(cur, q)]
    BY <1>19, <1>22, <1>23, <2>3, <2>5 DEF PlaceIn
  <2>7. [rs EXCEPT ![cur] = c] = [bs EXCEPT ![cur] = c]
    BY <2>1
  <2> QED
    BY <2>6, <2>7 DEF PutIn
<1>26. Of(A \ {p}, cur) = S \ {off}
  <2>1. Of(Without(A, cur, off), cur) = Of(A, cur) \ {off}
    BY <1>2, <1>10, OfWithout
  <2> QED
    BY <1>6, <1>10, <2>1 DEF Without
<1>27. PICK K \in SUBSET A : K = A \ {p}
  OBVIOUS
<1>28. Given(bs[cur].capacity, bs[cur], c, Of(K, cur), q, n)
  BY <1>4, <1>5, <1>24, <1>26, <1>27
<1>29. Gives(f, bs, o, K, n, R) /\ HasBytes(o, c, q)
  <2>1. cur \in 1 .. Len(bs) /\ K \in SUBSET A
    BY <1>10
  <2>2. bs \in Seq(Chunks(f)) /\ AllLaid(bs, A) /\ Ahead(f, bs, cur, R)
    BY <1>2
  <2> QED
    BY <1>25, <1>28, <2>1, <2>2, GivenInArena
<1>30. CarriedOver(bs, o, p, n)
  <2>1. \A i : Byte(bs, p, i) = b.mem[off + i]
    BY <1>3, <1>4, <1>8 DEF Byte
  <2> QED
    BY <1>10, <1>24, <1>29, <2>1 DEF Carried, CarriedOver, HasBytes
<1> QED
  BY <1>1, <1>27, <1>29, <1>30

\* An outcome of arena_alloc is a record.
LEMMA OutcomeIsRecord ==
  ASSUME NEW bs, NEW cur, NEW n, NEW o \in ArenaAlloc(bs, cur, n)
  PROVE  o = [blocks |-> o.blocks, current |-> o.current, buf |-> o.buf]
<1>1. ASSUME NEW gs, NEW k, NEW x \in Advance(gs, k, n)
      PROVE  x = [blocks |-> x.blocks, current |-> x.current, buf |-> x.buf]
  <2>1. \A y, z : PlaceIn(y, z, n) = [blocks |-> PlaceIn(y, z, n).blocks,
                                      current |-> PlaceIn(y, z, n).current,
                                      buf |-> PlaceIn(y, z, n).buf]
    BY DEF PlaceIn
  <2>2. (\E y, z : x = PlaceIn(y, z, n)) \/ x = Nothing(gs, NULL)
    BY <1>1 DEF Advance
  <2> QED
    BY <2>1, <2>2 DEF Nothing
<1>2. (\E gs, k : o \in Advance(gs, k, n)) \/ o = Nothing(bs, cur)
  BY DEF ArenaAlloc
<1> QED
  BY <1>1, <1>2 DEF Nothing

\* Fewer payloads.
LEMMA SoundSubset ==
  ASSUME NEW f, NEW bs, NEW cur, NEW A, NEW R, Sound(f, bs, cur, A, R), NEW B \in SUBSET A
  PROVE  Sound(f, bs, cur, B, R)
  BY AllLaidSubset DEF Sound

\* o is what was given, at a, once the old contents were copied to it.
MovedTo(bs, p, a, o) ==
    /\ o.buf = a.buf /\ o.current = a.current
    /\ o.blocks = CopyOver(a.blocks, p, a.buf, OldSize(bs, p))

\* The memory of the block with q, once h bytes of p have been copied there.
WithCopy(cs, p, q, h, m) ==
    LET b == cs[BlockOf(q)]
    IN  /\ m \in [0 .. b.capacity - 1 -> Nat]
        /\ \A x \in 0 .. b.capacity - 1 :
              x \notin Offset(q) .. Offset(q) + h - 1 => m[x] = b.mem[x]
        /\ \A i \in 0 .. h - 1 : m[Offset(q) + i] = Byte(cs, p, i)

\* The copy writes within the payload it goes to.
LEMMA CopyOverIs ==
  ASSUME NEW f \in FirstSizes, NEW cs \in Seq(Chunks(f)), NEW B, AllLaid(cs, B),
         NEW p \in B, NEW q \in B, NEW h \in Nat, h <= OldSize(cs, p), h <= OldSize(cs, q)
  PROVE  \E m : /\ WithCopy(cs, p, q, h, m)
                /\ CopyOver(cs, p, q, h) = [cs EXCEPT ![BlockOf(q)] = [@ EXCEPT !.mem = m]]
<1>1. PICK j : j = BlockOf(p)
  OBVIOUS
<1>2. PICK from : from = Offset(p)
  OBVIOUS
<1>3. PICK k : k = BlockOf(q)
  OBVIOUS
<1>4. PICK at : at = Offset(q)
  OBVIOUS
<1>5. PICK s : s = cs[j].mem
  OBVIOUS
<1>6. PICK o : o = cs[k].mem
  OBVIOUS
<1>7. PICK cap : cap = cs[k].capacity
  OBVIOUS
<1>8. PICK last : last = cs[j].capacity
  OBVIOUS
<1>9. PayloadIn(cs, B, p, j, from) /\ PayloadIn(cs, B, q, k, at)
  BY <1>1, <1>2, <1>3, <1>4, PayloadAt
<1>10. /\ from \in Nat /\ last \in Nat /\ from + h <= last
       /\ s \in [0 .. last - 1 -> Nat]
  <2>1. /\ from + OldSize(cs, p) <= cs[j].size /\ cs[j].size <= last /\ cs[j].size \in Nat
        /\ from \in Nat /\ last \in Nat /\ OldSize(cs, p) \in Nat /\ cs[j] \in Blocks(last)
    BY <1>8, <1>9 DEF PayloadIn
  <2>2. s \in [0 .. last - 1 -> Nat]
    BY <1>5, <2>1, BlockParts
  <2> QED
    BY <2>1, <2>2
<1>11. /\ at \in Nat /\ cap \in Nat /\ at + h <= cap
       /\ o \in [0 .. cap - 1 -> Nat]
  <2>1. /\ at + OldSize(cs, q) <= cs[k].size /\ cs[k].size <= cap /\ cs[k].size \in Nat
        /\ at \in Nat /\ cap \in Nat /\ OldSize(cs, q) \in Nat /\ cs[k] \in Blocks(cap)
    BY <1>7, <1>9 DEF PayloadIn
  <2>2. o \in [0 .. cap - 1 -> Nat]
    BY <1>6, <2>1, BlockParts
  <2> QED
    BY <2>1, <2>2
<1>12. PICK m : m = [a \in 0 .. cap - 1 |->
                        IF a \in at .. at + h - 1 THEN s[a - at + from] ELSE o[a]]
  OBVIOUS
<1>13. ASSUME NEW a \in 0 .. cap - 1 PROVE m[a] \in Nat
  <2>1. CASE a \in at .. at + h - 1
    <3>1. a - at + from \in 0 .. last - 1
      BY <1>10, <1>11, <2>1
    <3> QED
      BY <1>10, <1>12, <2>1, <3>1
  <2>2. CASE a \notin at .. at + h - 1
    BY <1>11, <1>12, <2>2
  <2> QED
    BY <2>1, <2>2
<1>14. m \in [0 .. cap - 1 -> Nat]
  BY <1>12, <1>13
<1>15. \A a \in 0 .. cap - 1 : a \notin at .. at + h - 1 => m[a] = o[a]
  BY <1>12
<1>16. ASSUME NEW i \in 0 .. h - 1 PROVE m[at + i] = s[from + i]
  <2>1. /\ at + i \in 0 .. cap - 1 /\ at + i \in at .. at + h - 1
        /\ (at + i) - at + from = from + i
    BY <1>10, <1>11
  <2> QED
    BY <1>12, <2>1
<1>17. WithCopy(cs, p, q, h, m)
  <2>1. \A i \in 0 .. h - 1 : m[at + i] = Byte(cs, p, i)
    BY <1>1, <1>2, <1>5, <1>16 DEF Byte
  <2> QED
    BY <1>3, <1>4, <1>6, <1>7, <1>14, <1>15, <2>1 DEF WithCopy
<1>18. CopyOver(cs, p, q, h) = [cs EXCEPT ![BlockOf(q)] = [@ EXCEPT !.mem = m]]
  <2>1. DOMAIN o = 0 .. cap - 1
    BY <1>11
  <2>2. CopyOver(cs, p, q, h) =
           [cs EXCEPT ![k].mem = [a \in DOMAIN @ |-> IF a \in at .. at + h - 1
                                                     THEN s[a - at + from] ELSE @[a]]]
    BY <1>1, <1>2, <1>3, <1>4, <1>5 DEF CopyOver
  <2>3. k \in DOMAIN cs
    BY <1>9 DEF PayloadIn
  <2>4. PICK b : b = cs[k]
    OBVIOUS
  <2>5. [cs EXCEPT ![k].mem = [a \in DOMAIN @ |-> IF a \in at .. at + h - 1
                                                  THEN s[a - at + from] ELSE @[a]]]
        = [cs EXCEPT ![k] = [b EXCEPT !.mem = m]]
    BY <1>6, <1>12, <2>1, <2>4
  <2> QED
    BY <1>3, <2>2, <2>4, <2>5
<1> QED
  BY <1>17, <1>18

\* A remap that moves carries the old bytes over and leaves the others.
LEMMA ArenaMoves ==
  ASSUME NEW f \in FirstSizes, NEW bs \in Seq(Chunks(f)), NEW A, AllLaid(bs, A), NEW R,
         NEW p \in A, NEW n \in Nat, OldSize(bs, p) < n,
         NEW a, Gives(f, bs, a, A, n, R), NEW o, MovedTo(bs, p, a, o)
  PROVE  Gives(f, bs, o, A \ {p}, n, R) /\ CarriedOver(bs, o, p, n)
<1>1. PICK cs : cs = a.blocks
  OBVIOUS
<1>2. PICK q : q = a.buf
  OBVIOUS
<1>3. PICK h \in Nat : h = OldSize(bs, p)
  BY PayloadAt DEF PayloadIn
<1>4. PICK cur : cur = a.current
  OBVIOUS
<1>5. PICK B : B = A \cup {q}
  OBVIOUS
<1>6. /\ q \in Nat /\ q # NULL /\ q \notin A /\ Sound(f, cs, cur, B, R)
      /\ Same(bs, cs, A) /\ n <= OldSize(cs, q)
  BY <1>1, <1>2, <1>4, <1>5 DEF Gives
<1>7. cs \in Seq(Chunks(f)) /\ AllLaid(cs, B) /\ p \in B /\ q \in B
  BY <1>5, <1>6 DEF Sound
<1>8. OldSize(cs, p) = h /\ \A i \in 0 .. h - 1 : Byte(cs, p, i) = Byte(bs, p, i)
  BY <1>3, <1>6 DEF Same
<1>9. OldSize(cs, q) \in Nat
  BY <1>7, PayloadAt DEF PayloadIn
<1>10. h <= OldSize(cs, p) /\ h <= OldSize(cs, q)
  BY <1>3, <1>6, <1>8, <1>9
<1>11. PICK m : /\ WithCopy(cs, p, q, h, m)
                /\ CopyOver(cs, p, q, h) = [cs EXCEPT ![BlockOf(q)] = [@ EXCEPT !.mem = m]]
  BY <1>7, <1>10, CopyOverIs
<1>12. PICK ds : ds = CopyOver(cs, p, q, h)
  OBVIOUS
<1>13. o.blocks = ds /\ o.buf = q /\ o.current = cur
  BY <1>1, <1>2, <1>3, <1>4, <1>12 DEF MovedTo
<1>14. Overwritten(cs, ds, q, m)
  <2>1. PICK b : b = cs[BlockOf(q)]
    OBVIOUS
  <2>2. PICK at : at = Offset(q)
    OBVIOUS
  <2>3. PICK s : s = OldSize(cs, q)
    OBVIOUS
  <2>4. ASSUME NEW x \in 0 .. b.capacity - 1, x \notin at .. at + s - 1
        PROVE  m[x] = b.mem[x]
    <3>1. PayloadIn(cs, B, q, BlockOf(q), at)
      BY <1>7, <2>2, PayloadAt
    <3>2. at \in Nat /\ s \in Nat /\ b.capacity \in Nat /\ h <= s
      BY <1>10, <2>1, <2>3, <3>1 DEF PayloadIn
    <3>3. x \notin at .. at + h - 1
      BY <2>4, <3>2
    <3> QED
      BY <1>11, <2>1, <2>2, <2>4, <3>3 DEF WithCopy
  <2>5. m \in [0 .. b.capacity - 1 -> Nat]
    BY <1>11, <2>1 DEF WithCopy
  <2> QED
    BY <1>11, <1>12, <2>1, <2>2, <2>3, <2>4, <2>5 DEF Overwritten
<1>15. /\ Sound(f, ds, cur, B, R) /\ Same(cs, ds, B \ {q})
       /\ OldSize(ds, q) = OldSize(cs, q)
       /\ ReadsAs(ds, q, m)
  BY <1>6, <1>7, <1>14, OverwrittenKeeps
<1>16. PICK K : K = A \ {p}
  OBVIOUS
<1>17. Sound(f, ds, cur, K \cup {q}, R)
  <2>1. K \cup {q} \in SUBSET B
    BY <1>5, <1>16
  <2> QED
    BY <1>15, <2>1, SoundSubset
<1>18. Same(bs, ds, K)
  <2>1. K \in SUBSET A /\ K \in SUBSET (B \ {q})
    BY <1>5, <1>6, <1>16
  <2>2. Same(bs, cs, K) /\ Same(cs, ds, K)
    BY <1>6, <1>15, <2>1, SameSubset
  <2> QED
    BY <2>2, SameTwice
<1>19. Gives(f, bs, o, K, n, R)
  BY <1>6, <1>13, <1>15, <1>16, <1>17, <1>18 DEF Gives
<1>20. CarriedOver(bs, o, p, n)
  <2>1. ASSUME NEW i \in 0 .. h - 1 PROVE Byte(ds, q, i) = Byte(bs, p, i)
    BY <1>8, <1>11, <1>15 DEF WithCopy, ReadsAs
  <2> QED
    BY <1>3, <1>13, <2>1 DEF CarriedOver
<1> QED
  BY <1>16, <1>19, <1>20

\* arena_remap gives a payload with the old contents, or changes nothing.
LEMMA ArenaRemapGives ==
  ASSUME NEW bs, NEW cur, NEW A, NEW R, first_block_size \in FirstSizes,
         Sound(first_block_size, bs, cur, A, R), NEW p \in A,
         NEW n \in Nat, n \in R, Bearable(n), OldSize(bs, p) < n => cur # NULL,
         NEW o \in ArenaRemap(bs, cur, p, n)
  PROVE  Remaps(first_block_size, bs, cur, o, A, p, n, R)
<1>1. PICK f \in FirstSizes : f = first_block_size
  OBVIOUS
<1>2. bs \in Seq(Chunks(f)) /\ AllLaid(bs, A)
  BY <1>1 DEF Sound
<1>3. p # NULL /\ bs # <<>>
  <2>1. BlockOf(p) \in 1 .. Len(bs)
    BY <1>2 DEF AllLaid
  <2> QED
    BY <1>2, <2>1, NoPayloadAtNull
<1>4. PICK h \in Nat : h = OldSize(bs, p)
  BY <1>2, PayloadAt DEF PayloadIn
<1>5. PICK K : K = A \ {p}
  OBVIOUS
<1>6. CASE h >= n
  <2>1. o = [blocks |-> bs, current |-> cur, buf |-> p]
    BY <1>3, <1>4, <1>6 DEF ArenaRemap
  <2>2. K \cup {p} = A /\ p \notin K /\ p \in Nat
    BY <1>2, <1>5, NoPayloadAtNull
  <2>3. Gives(f, bs, o, K, n, R)
    BY <1>1, <1>3, <1>4, <1>6, <2>1, <2>2 DEF Gives, Same
  <2>4. CarriedOver(bs, o, p, n)
    BY <2>1 DEF CarriedOver
  <2> QED
    BY <1>1, <1>5, <2>3, <2>4 DEF Remaps
<1>7. CASE ~(h >= n) /\ IsLastOfArena(bs, cur, p) /\ BytesLeft(bs[cur], Offset(p)) >= n
  <2>1. o \in ArenaAlloc(ArenaRelease(bs, cur, p), cur, n)
    BY <1>3, <1>4, <1>7 DEF ArenaRemap
  <2>2. CanGrow(bs, cur, p, n)
    BY <1>4, <1>7 DEF CanGrow
  <2> QED
    BY <2>1, <2>2, ArenaGrows DEF Remaps
<1>8. CASE /\ ~(h >= n)
           /\ ~(IsLastOfArena(bs, cur, p) /\ BytesLeft(bs[cur], Offset(p)) >= n)
  <2>1. PICK a \in ArenaAlloc(bs, cur, n) :
           o = IF a.buf = NULL THEN a
               ELSE [a EXCEPT !.blocks = CopyOver(@, p, a.buf, OldSize(bs, p))]
    BY <1>3, <1>4, <1>8 DEF ArenaRemap
  <2>2. h < n
    BY <1>8
  <2>3. Yields(f, bs, cur, a, A, n, R)
    BY <1>1, <1>4, <2>2, ArenaAllocGives
  <2>4. CASE a.buf = NULL
    BY <2>1, <2>3, <2>4 DEF Yields, Gives, Remaps
  <2>5. CASE a.buf # NULL
    <3>1. Gives(f, bs, a, A, n, R)
      BY <2>3, <2>5 DEF Yields
    <3>2. MovedTo(bs, p, a, o)
      <4>1. a = [blocks |-> a.blocks, current |-> a.current, buf |-> a.buf]
        BY OutcomeIsRecord
      <4>2. o = [a EXCEPT !.blocks = CopyOver(@, p, a.buf, OldSize(bs, p))]
        BY <2>1, <2>5
      <4> QED
        BY <4>1, <4>2 DEF MovedTo
    <3>3. Gives(f, bs, o, A \ {p}, n, R) /\ CarriedOver(bs, o, p, n)
      BY <1>2, <1>4, <2>2, <3>1, <3>2, ArenaMoves
    <3> QED
      BY <1>1, <3>3 DEF Remaps
  <2> QED
    BY <2>4, <2>5
<1> QED
  BY <1>6, <1>7, <1>8

-----------------------------------------------------------------------------
(* The client of an arena, which holds the payloads in the domain of L     *)
(* beside the ones at X, that are somebody else's.                         *)

Filled(bs, p, n, tag) ==
    n <= OldSize(bs, p) /\ \A i \in 0 .. n - 1 : Byte(bs, p, i) = tag

Client(f, bs, cur, L, X, R) ==
    /\ f \in FirstSizes
    /\ Sound(f, bs, cur, DOMAIN L \cup X, R)
    /\ X \cap DOMAIN L = {}
    /\ L \in [DOMAIN L -> [len : Nat, tag : Nat]]
    /\ \A p \in DOMAIN L : Filled(bs, p, L[p].len, L[p].tag)

\* What was filled still is, where the payloads are the same.
LEMMA FilledStill ==
  ASSUME NEW f \in FirstSizes, NEW bs \in Seq(Chunks(f)), NEW A, AllLaid(bs, A),
         NEW cs, NEW B \in SUBSET A, Same(bs, cs, B), NEW p \in B,
         NEW n \in Nat, NEW tag, Filled(bs, p, n, tag)
  PROVE  Filled(cs, p, n, tag)
<1>1. PICK h \in Nat : h = OldSize(bs, p)
  <2>1. p \in A
    OBVIOUS
  <2> QED
    BY <2>1, PayloadAt DEF PayloadIn
<1>2. OldSize(cs, p) = h /\ \A i \in 0 .. h - 1 : Byte(cs, p, i) = Byte(bs, p, i)
  BY <1>1 DEF Same
<1>3. n <= h /\ \A i \in 0 .. n - 1 : Byte(bs, p, i) = tag
  BY <1>1 DEF Filled
<1>4. ASSUME NEW i \in 0 .. n - 1 PROVE Byte(cs, p, i) = tag
  <2>1. i \in 0 .. h - 1
    BY <1>3
  <2> QED
    BY <1>2, <1>3, <2>1
<1> QED
  BY <1>2, <1>3, <1>4 DEF Filled

\* The blocks once the client has filled what it was given, all but the bytes
\* it had before.
FilledWith(o, had, n, tag) ==
    [o.blocks EXCEPT ![BlockOf(o.buf)].mem =
        Fill(@, Offset(o.buf) + had, n - had, tag)]

StartsWith(o, had, n, tag) ==
    \A i \in 0 .. had - 1 : i < n => Byte(o.blocks, o.buf, i) = tag

\* What the client fills lies within its payload.
LEMMA FillIsOverwriting ==
  ASSUME NEW f \in FirstSizes, NEW o, NEW B, o.blocks \in Seq(Chunks(f)), AllLaid(o.blocks, B),
         o.buf \in B, NEW n \in Nat, NEW had \in Nat, NEW tag \in Nat,
         n <= OldSize(o.blocks, o.buf), StartsWith(o, had, n, tag)
  PROVE  \E m : /\ Overwritten(o.blocks, FilledWith(o, had, n, tag), o.buf, m)
                /\ \A i \in 0 .. n - 1 : m[Offset(o.buf) + i] = tag
<1>1. PICK cs \in Seq(Chunks(f)) : cs = o.blocks
  OBVIOUS
<1>2. PICK q \in B : q = o.buf
  OBVIOUS
<1>3. PICK k : k = BlockOf(q)
  OBVIOUS
<1>4. PICK at : at = Offset(q)
  OBVIOUS
<1>5. PICK cap : cap = cs[k].capacity
  OBVIOUS
<1>6. PICK h : h = OldSize(cs, q)
  OBVIOUS
<1>7. PICK b : b = cs[k]
  OBVIOUS
<1>8. PICK c : c = b.mem
  OBVIOUS
<1>9. PayloadIn(cs, B, q, k, at)
  BY <1>1, <1>2, <1>3, <1>4, PayloadAt
<1>10. /\ at \in Nat /\ cap \in Nat /\ h \in Nat /\ at + h <= cap /\ n <= h
       /\ b \in Blocks(cap) /\ k \in 1 .. Len(cs)
  <2>1. /\ at \in Nat /\ cap \in Nat /\ h \in Nat /\ at + h <= b.size /\ b.size <= cap
        /\ b.size \in Nat /\ b \in Blocks(cap) /\ k \in 1 .. Len(cs)
    BY <1>5, <1>6, <1>7, <1>9 DEF PayloadIn
  <2> QED
    BY <1>1, <1>2, <1>6, <2>1
<1>11. c \in [0 .. cap - 1 -> Nat]
  BY <1>8, <1>10, BlockParts
<1>12. PICK m : m = Fill(c, at + had, n - had, tag)
  OBVIOUS
<1>13. /\ m \in [0 .. cap - 1 -> Nat]
       /\ \A a \in 0 .. cap - 1 :
             m[a] = IF a \in at + had .. (at + had) + (n - had) - 1 THEN tag ELSE c[a]
  <2>1. FilledIn(cap, c, m, at + had, n - had, tag)
    BY <1>10, <1>11, <1>12, FillProperties
  <2> QED
    BY <2>1 DEF FilledIn
<1>14. ASSUME NEW a \in 0 .. cap - 1, a \notin at .. at + h - 1 PROVE m[a] = c[a]
  <2>1. a \notin at + had .. (at + had) + (n - had) - 1
    BY <1>10, <1>14
  <2> QED
    BY <1>13, <2>1
<1>15. ASSUME NEW i \in 0 .. n - 1 PROVE m[at + i] = tag
  <2>1. at + i \in 0 .. cap - 1
    BY <1>10
  <2>2. CASE i < had
    <3>1. i \in 0 .. had - 1 /\ i < n
      BY <2>2
    <3>2. Byte(cs, q, i) = tag
      BY <1>1, <1>2, <3>1 DEF StartsWith
    <3>3. c[at + i] = tag
      BY <1>3, <1>4, <1>7, <1>8, <3>2 DEF Byte
    <3>4. at + i \notin at + had .. (at + had) + (n - had) - 1
      BY <1>10, <2>2
    <3> QED
      BY <1>13, <2>1, <3>3, <3>4
  <2>3. CASE ~(i < had)
    <3>1. at + i \in at + had .. (at + had) + (n - had) - 1
      BY <1>10, <2>3
    <3> QED
      BY <1>13, <2>1, <3>1
  <2> QED
    BY <2>2, <2>3
<1>16. FilledWith(o, had, n, tag) = [cs EXCEPT ![k] = [@ EXCEPT !.mem = m]]
  <2>1. FilledWith(o, had, n, tag) = [cs EXCEPT ![k].mem = Fill(@, at + had, n - had, tag)]
    BY <1>1, <1>2, <1>3, <1>4 DEF FilledWith
  <2> QED
    BY <1>7, <1>8, <1>12, <2>1
<1>17. Overwritten(cs, FilledWith(o, had, n, tag), q, m)
  BY <1>3, <1>4, <1>5, <1>6, <1>7, <1>8, <1>13, <1>14, <1>16 DEF Overwritten
<1> QED
  BY <1>1, <1>2, <1>4, <1>15, <1>17

\* The client has n bytes "tag" at what it was given, and what it had at K; what
\* is at X is the same.
LEMMA ClientFills ==
  ASSUME NEW f, NEW bs, NEW cur, NEW L, NEW X, NEW R, Client(f, bs, cur, L, X, R),
         NEW K \in SUBSET DOMAIN L, NEW o, NEW n \in Nat, Gives(f, bs, o, K \cup X, n, R),
         NEW had \in Nat, NEW tag \in Nat, StartsWith(o, had, n, tag)
  PROVE  /\ o.buf \notin K
         /\ Client(f, FilledWith(o, had, n, tag), o.current, Gets(L, K, o.buf, n, tag), X, R)
         /\ Same(bs, FilledWith(o, had, n, tag), X)
<1>1. PICK cs : cs = o.blocks
  OBVIOUS
<1>2. PICK q : q = o.buf
  OBVIOUS
<1>3. PICK B : B = (K \cup X) \cup {q}
  OBVIOUS
<1>4. PICK ds : ds = FilledWith(o, had, n, tag)
  OBVIOUS
<1>5. PICK M : M = Gets(L, K, q, n, tag)
  OBVIOUS
<1>6. /\ f \in FirstSizes /\ bs \in Seq(Chunks(f)) /\ AllLaid(bs, DOMAIN L \cup X)
      /\ X \cap DOMAIN L = {} /\ L \in [DOMAIN L -> [len : Nat, tag : Nat]]
      /\ \A p \in DOMAIN L : Filled(bs, p, L[p].len, L[p].tag)
  BY DEF Client, Sound
<1>7. /\ q \notin K \cup X /\ Sound(f, cs, o.current, B, R)
      /\ Same(bs, cs, K \cup X) /\ n <= OldSize(cs, q) /\ q \in B
  BY <1>1, <1>2, <1>3 DEF Gives
<1>8. cs \in Seq(Chunks(f)) /\ AllLaid(cs, B)
  BY <1>7 DEF Sound
<1>9. PICK m : Overwritten(cs, ds, q, m) /\ \A i \in 0 .. n - 1 : m[Offset(q) + i] = tag
  BY <1>1, <1>2, <1>4, <1>6, <1>7, <1>8, FillIsOverwriting
<1>10. /\ Sound(f, ds, o.current, B, R) /\ Same(cs, ds, B \ {q})
       /\ OldSize(ds, q) = OldSize(cs, q) /\ ReadsAs(ds, q, m)
  BY <1>6, <1>7, <1>9, OverwrittenKeeps
<1>11. Same(bs, ds, K \cup X)
  <2>1. B \ {q} = K \cup X
    BY <1>3, <1>7
  <2> QED
    BY <1>7, <1>10, <2>1, SameTwice
<1>12. Filled(ds, q, n, tag)
  BY <1>7, <1>9, <1>10 DEF Filled, ReadsAs
<1>13. ASSUME NEW x \in K PROVE Filled(ds, x, L[x].len, L[x].tag)
  <2>1. /\ x \in K \cup X /\ K \cup X \in SUBSET (DOMAIN L \cup X)
        /\ L[x].len \in Nat /\ Filled(bs, x, L[x].len, L[x].tag)
    BY <1>6
  <2> QED
    BY <1>6, <1>11, <2>1, FilledStill
<1>14. /\ DOMAIN M = K \cup {q} /\ M[q] = [len |-> n, tag |-> tag]
       /\ \A x \in K : M[x] = L[x]
  BY <1>5, <1>7 DEF Gets
<1>15. M \in [DOMAIN M -> [len : Nat, tag : Nat]]
  <2>1. \A x \in K \cup {q} : M[x] \in [len : Nat, tag : Nat]
    BY <1>6, <1>14
  <2>2. M = [x \in K \cup {q} |-> M[x]]
    BY <1>5 DEF Gets
  <2> QED
    BY <1>14, <2>1, <2>2
<1>16. \A x \in DOMAIN M : Filled(ds, x, M[x].len, M[x].tag)
  BY <1>12, <1>13, <1>14
<1>17. DOMAIN M \cup X = B /\ X \cap DOMAIN M = {}
  BY <1>3, <1>6, <1>7, <1>14
<1>18. Client(f, ds, o.current, M, X, R)
  BY <1>6, <1>10, <1>15, <1>16, <1>17 DEF Client
<1>19. Same(bs, ds, X)
  BY <1>11, SameSubset
<1> QED
  BY <1>2, <1>4, <1>5, <1>7, <1>18, <1>19

-----------------------------------------------------------------------------
(* The client's calls.                                                     *)

\* The client's state, and that after a call that leaves what is at X the same.
Holds(X, R) == Client(first_block_size, blocks, current, live, X, R)
Keeps(X, R) == /\ Client(first_block_size', blocks', current', live', X, R)
               /\ Same(blocks, blocks', X)

\* The client has n bytes "tag" at q, and what it had at K.
GetsAt(K, q, n, tag) == q \notin K /\ live' = Gets(live, K, q, n, tag)

\* A call that gives nothing may leave the current block NULL.
LEMMA InVain ==
  ASSUME NEW X, NEW R, Holds(X, R), UNCHANGED <<first_block_size, blocks, live>>,
         current' \in {current, NULL}
  PROVE  Keeps(X, R)
<1>1. PICK f : f = first_block_size
  OBVIOUS
<1>2. PICK bs : bs = blocks
  OBVIOUS
<1>3. PICK L : L = live
  OBVIOUS
<1>4. PICK cur : cur = current'
  OBVIOUS
<1>5. Client(f, bs, current, L, X, R)
  BY <1>1, <1>2, <1>3 DEF Holds
<1>6. Sound(f, bs, cur, DOMAIN L \cup X, R)
  <2>1. CASE cur = current
    BY <1>5, <2>1 DEF Client
  <2>2. CASE cur = NULL
    <3>1. bs \in Seq(Chunks(f)) /\ AllLaid(bs, DOMAIN L \cup X)
      BY <1>5 DEF Client, Sound
    <3>2. 0 \in 0 .. Len(bs)
      BY <3>1
    <3>3. Ahead(f, bs, 0, R)
      BY DEF Ahead
    <3> QED
      BY <2>2, <3>1, <3>2, <3>3 DEF Sound, NULL
  <2> QED
    BY <1>4, <2>1, <2>2
<1>7. Client(f, bs, cur, L, X, R)
  BY <1>5, <1>6 DEF Client
<1>8. f = first_block_size' /\ bs = blocks' /\ L = live'
  BY <1>1, <1>2, <1>3
<1> QED
  BY <1>2, <1>4, <1>7, <1>8 DEF Keeps, Same

\* The client fills what it was given.
LEMMA ReceivingKeeps ==
  ASSUME NEW X, NEW R, Holds(X, R), NEW o, NEW p, NEW had \in Nat, NEW n \in Nat, NEW tag \in Nat,
         Receives(o, p, had, n, tag), o.buf # NULL, NEW K \in SUBSET DOMAIN live,
         DOMAIN live \ {p} = K,
         Gives(first_block_size, blocks, o, K \cup X, n, R), StartsWith(o, had, n, tag)
  PROVE  Keeps(X, R) /\ GetsAt(K, o.buf, n, tag)
<1>1. /\ first_block_size' = first_block_size /\ current' = o.current
      /\ blocks' = FilledWith(o, had, n, tag)
  BY DEF Receives, FilledWith
<1>2. live' = Gets(live, K, o.buf, n, tag)
  BY DEF Receives, Gets
<1>3. Client(first_block_size, blocks, current, live, X, R)
  BY DEF Holds
<1>4. /\ o.buf \notin K
      /\ Client(first_block_size, FilledWith(o, had, n, tag), o.current,
                Gets(live, K, o.buf, n, tag), X, R)
      /\ Same(blocks, FilledWith(o, had, n, tag), X)
  BY <1>3, ClientFills
<1> QED
  BY <1>1, <1>2, <1>4 DEF Keeps, GetsAt

\* arena_alloc and arena_remap(NULL, n).
LEMMA AllocKeeps ==
  ASSUME NEW X, NEW R, Holds(X, R), NEW n \in Nat, n \in R, Bearable(n), NEW tag \in Nat,
         Alloc(n, tag) \/ RemapNull(n, tag)
  PROVE  /\ Keeps(X, R)
         /\ UNCHANGED <<blocks, live>> \/ \E q : GetsAt(DOMAIN live, q, n, tag)
<1>1. PICK o \in ArenaAlloc(blocks, current, n) : Receives(o, NULL, 0, n, tag)
  BY DEF Alloc, RemapNull, ArenaRemap
<1>2. n # 0 /\ blocks # <<>> => current # NULL
  BY DEF Alloc, RemapNull, Usable
<1>3. PICK A : A = DOMAIN live \cup X
  OBVIOUS
<1>4. /\ first_block_size \in FirstSizes
      /\ Sound(first_block_size, blocks, current, A, R)
  BY <1>3 DEF Holds, Client
<1>5. Yields(first_block_size, blocks, current, o, A, n, R)
  BY <1>2, <1>4, ArenaAllocGives
<1>6. CASE o.buf = NULL
  <2>1. o.blocks = blocks /\ o.current \in {current, NULL}
    BY <1>5, <1>6 DEF Yields, Gives
  <2>2. UNCHANGED <<first_block_size, blocks, live>> /\ current' \in {current, NULL}
    BY <1>1, <1>6, <2>1 DEF Receives
  <2> QED
    BY <2>2, InVain
<1>7. CASE o.buf # NULL
  <2>1. DOMAIN live \ {NULL} = DOMAIN live
    <3>1. blocks \in Seq(Chunks(first_block_size)) /\ AllLaid(blocks, A)
      BY <1>4 DEF Sound
    <3>2. \A a \in DOMAIN live : a # NULL
      BY <1>3, <1>4, <3>1, NoPayloadAtNull
    <3> QED
      BY <3>2
  <2>2. PICK K : K = DOMAIN live
    OBVIOUS
  <2>3. Gives(first_block_size, blocks, o, K \cup X, n, R)
    BY <1>3, <1>5, <1>7, <2>2 DEF Yields
  <2>4. StartsWith(o, 0, n, tag)
    BY DEF StartsWith
  <2>5. K \in SUBSET DOMAIN live /\ DOMAIN live \ {NULL} = K /\ 0 \in Nat
    BY <2>1, <2>2
  <2>6. Keeps(X, R) /\ GetsAt(K, o.buf, n, tag)
    BY <1>1, <1>7, <2>3, <2>4, <2>5, ReceivingKeeps
  <2> QED
    BY <2>2, <2>6
<1> QED
  BY <1>6, <1>7

\* arena_remap of a payload of the client.
LEMMA RemapKeeps ==
  ASSUME NEW X, NEW R, Holds(X, R), NEW p \in DOMAIN live, NEW n \in Nat, n \in R, Bearable(n),
         Remap(p, n)
  PROVE  /\ Keeps(X, R)
         /\ \/ UNCHANGED <<blocks, live>>
            \/ \E q : GetsAt(DOMAIN live \ {p}, q, n, live[p].tag)
<1>1. PICK o \in ArenaRemap(blocks, current, p, n) :
         Receives(o, p, live[p].len, n, live[p].tag)
  BY DEF Remap
<1>2. PICK A : A = DOMAIN live \cup X
  OBVIOUS
<1>3. PICK had : had = live[p].len
  OBVIOUS
<1>4. PICK tag : tag = live[p].tag
  OBVIOUS
<1>5. /\ first_block_size \in FirstSizes
      /\ Sound(first_block_size, blocks, current, A, R) /\ X \cap DOMAIN live = {}
      /\ had \in Nat /\ tag \in Nat /\ Filled(blocks, p, had, tag) /\ p \in A
  BY <1>2, <1>3, <1>4 DEF Holds, Client
<1>6. blocks \in Seq(Chunks(first_block_size)) /\ AllLaid(blocks, A)
  BY <1>5 DEF Sound
<1>7. OldSize(blocks, p) < n => current # NULL
  <2>1. blocks # <<>>
    <3>1. BlockOf(p) \in 1 .. Len(blocks)
      BY <1>5, <1>6 DEF AllLaid
    <3> QED
      BY <1>6, <3>1
  <2> QED
    BY <2>1 DEF Remap, Usable
<1>8. Remaps(first_block_size, blocks, current, o, A, p, n, R)
  BY <1>1, <1>5, <1>7, ArenaRemapGives
<1>9. CASE o.buf = NULL
  <2>1. o.blocks = blocks /\ o.current \in {current, NULL}
    BY <1>8, <1>9 DEF Remaps, Gives
  <2>2. UNCHANGED <<first_block_size, blocks, live>> /\ current' \in {current, NULL}
    BY <1>1, <1>9, <2>1 DEF Receives
  <2> QED
    BY <2>2, InVain
<1>10. CASE o.buf # NULL
  <2>1. PICK K : K = DOMAIN live \ {p}
    OBVIOUS
  <2>2. Gives(first_block_size, blocks, o, A \ {p}, n, R) /\ CarriedOver(blocks, o, p, n)
    BY <1>8, <1>10 DEF Remaps
  <2>3. A \ {p} = K \cup X
    BY <1>2, <1>5, <2>1
  <2>4. StartsWith(o, had, n, tag)
    <3>1. PICK h \in Nat : h = OldSize(blocks, p)
      BY <1>5, <1>6, PayloadAt DEF PayloadIn
    <3>2. had <= h /\ \A i \in 0 .. had - 1 : Byte(blocks, p, i) = tag
      BY <1>5, <3>1 DEF Filled
    <3>3. \A i \in 0 .. had - 1 : i \in 0 .. h - 1
      BY <1>5, <3>2
    <3>4. \A i \in 0 .. h - 1 : i < n => Byte(o.blocks, o.buf, i) = Byte(blocks, p, i)
      BY <2>2, <3>1 DEF CarriedOver
    <3> QED
      BY <3>2, <3>3, <3>4 DEF StartsWith
  <2>5. Receives(o, p, had, n, tag) /\ K \in SUBSET DOMAIN live
    BY <1>1, <1>3, <1>4, <2>1
  <2>6. Gives(first_block_size, blocks, o, K \cup X, n, R)
    BY <2>2, <2>3
  <2>7. Keeps(X, R) /\ GetsAt(K, o.buf, n, tag)
    BY <1>5, <1>10, <2>1, <2>4, <2>5, <2>6, ReceivingKeeps
  <2> QED
    BY <1>4, <2>1, <2>7
<1> QED
  BY <1>9, <1>10

\* What the client gives back leaves the rest to it.
LEMMA ClientWithout ==
  ASSUME NEW f, NEW bs, NEW cur, NEW L, NEW X, NEW R, Client(f, bs, cur, L, X, R),
         NEW p \in DOMAIN L
  PROVE  /\ Client(f, ArenaRelease(bs, cur, p), cur, [x \in DOMAIN L \ {p} |-> L[x]], X, R)
         /\ Same(bs, ArenaRelease(bs, cur, p), X)
<1>1. PICK A : A = DOMAIN L \cup X
  OBVIOUS
<1>2. PICK M : M = [x \in DOMAIN L \ {p} |-> L[x]]
  OBVIOUS
<1>3. PICK rs : rs = ArenaRelease(bs, cur, p)
  OBVIOUS
<1>4. /\ f \in FirstSizes /\ Sound(f, bs, cur, A, R) /\ X \cap DOMAIN L = {} /\ p \in A
      /\ L \in [DOMAIN L -> [len : Nat, tag : Nat]]
      /\ \A x \in DOMAIN L : Filled(bs, x, L[x].len, L[x].tag)
  BY <1>1 DEF Client
<1>5. bs \in Seq(Chunks(f)) /\ AllLaid(bs, A)
  BY <1>4 DEF Sound
<1>6. Sound(f, rs, cur, A \ {p}, R) /\ Same(bs, rs, A \ {p})
  BY <1>3, <1>4, ArenaReleaseKeeps
<1>7. /\ DOMAIN M = DOMAIN L \ {p} /\ \A x \in DOMAIN M : M[x] = L[x] /\ M[x] \in [len : Nat, tag : Nat]
  BY <1>2, <1>4
<1>8. M \in [DOMAIN M -> [len : Nat, tag : Nat]]
  BY <1>2, <1>7
<1>9. A \ {p} = DOMAIN M \cup X /\ X \cap DOMAIN M = {}
  BY <1>1, <1>4, <1>7
<1>10. ASSUME NEW x \in DOMAIN M PROVE Filled(rs, x, M[x].len, M[x].tag)
  <2>1. /\ x \in A \ {p} /\ A \ {p} \in SUBSET A /\ M[x].len \in Nat
        /\ Filled(bs, x, M[x].len, M[x].tag)
    BY <1>1, <1>4, <1>7
  <2> QED
    BY <1>4, <1>5, <1>6, <2>1, FilledStill
<1>11. Client(f, rs, cur, M, X, R)
  BY <1>4, <1>6, <1>8, <1>9, <1>10 DEF Client
<1>12. Same(bs, rs, X)
  BY <1>6, <1>9, SameSubset
<1> QED
  BY <1>2, <1>3, <1>11, <1>12

\* The client's free.
LEMMA FreeKeeps ==
  ASSUME NEW X, NEW R, Holds(X, R), NEW p \in DOMAIN live, Free(p)
  PROVE  Keeps(X, R)
  BY ClientWithout DEF Holds, Free, Keeps

\* The arena is emptied.
LEMMA EmptyKeeps ==
  ASSUME NEW X, NEW R, Holds(X, R),
         Deinit \/ (Reset /\ \A n \in R : n + HeaderSize <= first_block_size)
  PROVE  Client(first_block_size', blocks', current', live', {}, R)
<1>1. PICK f \in FirstSizes : f = first_block_size
  BY DEF Holds, Client
<1>2. blocks \in Seq(Chunks(f))
  BY <1>1 DEF Holds, Client, Sound
<1>3. first_block_size' = f /\ live' = <<>> /\ DOMAIN live' = {}
  BY <1>1 DEF Deinit, Reset
<1>4. live' \in [DOMAIN live' -> [len : Nat, tag : Nat]]
  BY <1>3
<1>5. Sound(f, blocks', current', {}, R)
  <2>1. CASE Deinit
    BY <2>1, NothingIsSound DEF Deinit
  <2>2. CASE Reset /\ \A n \in R : n + HeaderSize <= first_block_size
    BY <1>1, <1>2, <2>2, EmptiedKeeps DEF Reset
  <2> QED
    BY <2>1, <2>2
<1>6. DOMAIN live' \cup {} = {}
  BY <1>3
<1> QED
  BY <1>1, <1>3, <1>4, <1>5, <1>6 DEF Client

\* An arena that arena_init has made.
LEMMA InitHolds ==
  ASSUME NEW R, Init, Careful
  PROVE  Holds({}, R)
<1>1. first_block_size \in FirstSizes
  BY CarefulAssumption, ArenaAssumption, BumpAssumption DEF Init, FirstSizes
<1>2. DOMAIN live = {} /\ live \in [DOMAIN live -> [len : Nat, tag : Nat]]
  BY DEF Init
<1>3. Sound(first_block_size, blocks, current, {}, R)
  BY NothingIsSound DEF Init
<1>4. DOMAIN live \cup {} = {}
  BY <1>2
<1> QED
  BY <1>1, <1>2, <1>3, <1>4 DEF Holds, Client

-----------------------------------------------------------------------------
(* What the abstract allocator sees of them.                               *)

\* Two of the client's blocks are apart.
LEMMA ClientApart ==
  ASSUME NEW f, NEW bs, NEW cur, NEW L, NEW X, NEW R, Client(f, bs, cur, L, X, R),
         NEW p \in DOMAIN L, NEW q \in DOMAIN L, p # q
  PROVE  p + L[p].len <= q \/ q + L[q].len <= p
<1>1. PICK A : A = DOMAIN L \cup X
  OBVIOUS
<1>2. f \in FirstSizes /\ bs \in Seq(Chunks(f)) /\ AllLaid(bs, A) /\ p \in A /\ q \in A
  BY <1>1 DEF Client, Sound
<1>3. PICK x : x = OldSize(bs, p)
  OBVIOUS
<1>4. PICK y : y = OldSize(bs, q)
  OBVIOUS
<1>5. p \in Nat /\ x \in Nat /\ q \in Nat /\ y \in Nat
  BY <1>2, <1>3, <1>4, PayloadAt DEF PayloadIn
<1>6. p + x <= q \/ q + y <= p
  BY <1>2, <1>3, <1>4, PayloadsApart
<1>7. PICK m : m = L[p].len
  OBVIOUS
<1>8. PICK n : n = L[q].len
  OBVIOUS
<1>9. m \in Nat /\ n \in Nat /\ m <= x /\ n <= y
  BY <1>3, <1>4, <1>7, <1>8 DEF Client, Filled
<1>10. p + m <= q \/ q + n <= p
  BY <1>5, <1>6, <1>9
<1> QED
  BY <1>7, <1>8, <1>10

SeenOf(bs, L) ==
    [p \in DOMAIN L |-> [i \in 1 .. L[p].len |-> bs[BlockOf(p)].mem[Offset(p) + i - 1]]]

\* The client sees its tags.
LEMMA ClientSees ==
  ASSUME NEW f, NEW bs, NEW cur, NEW L, NEW X, NEW R, Client(f, bs, cur, L, X, R)
  PROVE  SeenOf(bs, L) = Shown(L)
<1>1. ASSUME NEW p \in DOMAIN L, NEW i \in 1 .. L[p].len
      PROVE  bs[BlockOf(p)].mem[Offset(p) + i - 1] = L[p].tag
  <2>1. L[p].len \in Nat /\ Filled(bs, p, L[p].len, L[p].tag)
    BY DEF Client
  <2>2. i - 1 \in 0 .. L[p].len - 1
    BY <2>1
  <2>3. Byte(bs, p, i - 1) = L[p].tag
    BY <2>1, <2>2 DEF Filled
  <2>4. Offset(p) + (i - 1) = Offset(p) + i - 1
    <3>1. p \in Nat
      <4>1. PICK A : A = DOMAIN L \cup X
        OBVIOUS
      <4>2. f \in FirstSizes /\ bs \in Seq(Chunks(f)) /\ AllLaid(bs, A) /\ p \in A
        BY <4>1 DEF Client, Sound
      <4> QED
        BY <4>2 DEF AllLaid
    <3>2. Offset(p) \in Int
      BY <3>1, Addresses, ArenaAssumption
    <3> QED
      BY <2>2, <3>2
  <2> QED
    BY <2>3, <2>4 DEF Byte
<1> QED
  BY <1>1 DEF SeenOf, Shown

\* What the client sees is its tags ...
LEMMA SeenIs ==
  ASSUME NEW X, NEW R, Holds(X, R)
  PROVE  Seen = Shown(live)
<1>1. Seen = SeenOf(blocks, live)
  BY DEF Seen, SeenOf
<1> QED
  BY <1>1, ClientSees DEF Holds

\* ... also after a step that keeps its payloads.
LEMMA SeenThen ==
  ASSUME NEW X, NEW R, Client(first_block_size', blocks', current', live', X, R)
  PROVE  Seen' = Shown(live')
<1>1. Seen' = SeenOf(blocks', live')
  BY DEF Seen, SeenOf
<1> QED
  BY <1>1, ClientSees

\* What the abstract allocator sees of n bytes "tag" at q, new beside those at K.
SeesNew(K, q, n, tag) ==
    /\ q \in DOMAIN Seen' /\ q \notin K
    /\ Seen'[q] = [i \in 1 .. n |-> tag]
    /\ Seen'[q] \in Seq(Nat)
    /\ Abstract!Clear(q, Seen'[q], K)
    /\ Seen' = [x \in K \cup {q} |-> IF x = q THEN Seen'[q] ELSE Seen[x]]

\* What is given to the client appears to it clear of what it has.
LEMMA GetsSeen ==
  ASSUME NEW X, NEW R, Holds(X, R), Keeps(X, R), NEW K \in SUBSET DOMAIN live,
         NEW q, NEW n \in Nat, NEW tag \in Nat, GetsAt(K, q, n, tag)
  PROVE  SeesNew(K, q, n, tag)
<1>1. Seen = Shown(live) /\ Seen' = Shown(live')
  BY SeenIs, SeenThen DEF Keeps
<1>2. q \notin K /\ live' = Gets(live, K, q, n, tag)
  BY DEF GetsAt
<1>3. live \in [DOMAIN live -> [len : Nat, tag : Nat]]
  BY DEF Holds, Client
<1>4. ASSUME NEW x \in K PROVE q + n <= x \/ x + live[x].len <= q
  <2>1. /\ q \in DOMAIN live' /\ x \in DOMAIN live' /\ x # q
        /\ live'[q].len = n /\ live'[x] = live[x]
    BY <1>2 DEF Gets
  <2>2. q + live'[q].len <= x \/ x + live'[x].len <= q
    BY <2>1, ClientApart DEF Keeps
  <2> QED
    BY <2>1, <2>2
<1>5. ShowsNew(live, live', K, q, n, tag)
  BY <1>2, <1>3, <1>4, ShownNew DEF Apart
<1> QED
  BY <1>1, <1>2, <1>5 DEF ShowsNew, SeesNew, Abstract!Clear

\* An allocation.
LEMMA AllocSeen ==
  ASSUME NEW X, NEW R, Holds(X, R), Keeps(X, R), NEW n \in Nat, NEW tag \in Nat,
         NEW q, GetsAt(DOMAIN live, q, n, tag)
  PROVE  Abstract!Next
<1>1. DOMAIN Seen = DOMAIN live
  BY DEF Seen
<1>2. SeesNew(DOMAIN live, q, n, tag)
  <2>1. DOMAIN live \in SUBSET DOMAIN live
    OBVIOUS
  <2> QED
    BY <2>1, GetsSeen
<1>3. /\ q \in DOMAIN Seen' \ DOMAIN Seen
      /\ Seen'[q] \in Seq(Nat)
      /\ Abstract!Clear(q, Seen'[q], DOMAIN Seen)
      /\ Seen' = [x \in DOMAIN Seen \cup {q} |-> IF x = q THEN Seen'[q] ELSE Seen[x]]
  BY <1>1, <1>2 DEF SeesNew
<1>4. (DOMAIN Seen \ {q}) \cup {q} = DOMAIN Seen \cup {q}
  OBVIOUS
<1>5. Seen' = Abstract!Moved(q, q, Seen'[q])
  BY <1>3, <1>4 DEF Abstract!Moved
<1> QED
  BY <1>3, <1>5 DEF Abstract!Alloc, Abstract!Next

\* A remap.
LEMMA RemapSeen ==
  ASSUME NEW X, NEW R, Holds(X, R), Keeps(X, R), NEW p \in DOMAIN live, NEW n \in Nat,
         NEW q, GetsAt(DOMAIN live \ {p}, q, n, live[p].tag)
  PROVE  Abstract!Next
<1>1. DOMAIN Seen = DOMAIN live
  BY DEF Seen
<1>2. /\ live[p].tag \in Nat /\ live[p].len \in Nat
      /\ DOMAIN live \ {p} \in SUBSET DOMAIN live
      /\ Seen[p] = [i \in 1 .. live[p].len |-> live[p].tag]
  BY SeenIs DEF Holds, Client, Shown
<1>3. SeesNew(DOMAIN live \ {p}, q, n, live[p].tag)
  BY <1>2, GetsSeen
<1>4. /\ q \in DOMAIN Seen' /\ q \notin DOMAIN Seen \ {p}
      /\ Seen'[q] = [i \in 1 .. n |-> live[p].tag]
      /\ Seen'[q] \in Seq(Nat)
      /\ Abstract!Clear(q, Seen'[q], DOMAIN Seen \ {p})
      /\ Seen' = [x \in (DOMAIN Seen \ {p}) \cup {q} |-> IF x = q THEN Seen'[q] ELSE Seen[x]]
  BY <1>1, <1>3 DEF SeesNew
<1>5. Abstract!CarriesOver(Seen[p], Seen'[q])
  BY <1>2, <1>4, RunProperties DEF Abstract!CarriesOver
<1>6. Seen' = Abstract!Moved(p, q, Seen'[q])
  BY <1>4 DEF Abstract!Moved
<1> QED
  BY <1>1, <1>4, <1>5, <1>6 DEF Abstract!Remap, Abstract!Next

\* A block given back.
LEMMA FreeSeen ==
  ASSUME NEW X, NEW R, Holds(X, R), Keeps(X, R), NEW p \in DOMAIN live, Free(p)
  PROVE  Abstract!Next
<1>1. DOMAIN Seen = DOMAIN live
  BY DEF Seen
<1>2. Seen = Shown(live) /\ Seen' = Shown(live')
  BY SeenIs, SeenThen DEF Keeps
<1>3. Seen' = [x \in DOMAIN Seen \ {p} |-> Seen[x]]
  BY <1>2 DEF Free, Shown
<1> QED
  BY <1>1, <1>3 DEF Abstract!Free, Abstract!Next

\* The client's calls but the ones that empty the arena.
Call == \/ \E n \in Sizes, tag \in Tags : Alloc(n, tag) \/ RemapNull(n, tag)
        \/ \E p \in DOMAIN live : Free(p) \/ \E n \in Sizes : Remap(p, n)

\* Each call of a careful client keeps its payloads and those at X, and is a
\* step of the abstract allocator or none.
LEMMA CallKeeps ==
  ASSUME Careful, NEW X, NEW R, Holds(X, R), Sizes \subseteq R, Call
  PROVE  Keeps(X, R) /\ [Abstract!Next]_Seen
<1>1. \A n \in Sizes : n \in Nat /\ n \in R /\ Bearable(n)
  BY CarefulAssumption, ArenaAssumption
<1>2. \A tag \in Tags : tag \in Nat
  BY ArenaAssumption
<1>3. ASSUME NEW n \in Sizes, NEW tag \in Tags, Alloc(n, tag) \/ RemapNull(n, tag)
      PROVE  Keeps(X, R) /\ [Abstract!Next]_Seen
  <2>1. /\ Keeps(X, R)
        /\ UNCHANGED <<blocks, live>> \/ \E q : GetsAt(DOMAIN live, q, n, tag)
    BY <1>1, <1>2, <1>3, AllocKeeps
  <2>2. CASE UNCHANGED <<blocks, live>>
    BY <2>1, <2>2 DEF Seen
  <2>3. ASSUME NEW q, GetsAt(DOMAIN live, q, n, tag) PROVE Abstract!Next
    BY <1>1, <1>2, <2>1, <2>3, AllocSeen
  <2> QED
    BY <2>1, <2>2, <2>3
<1>4. ASSUME NEW p \in DOMAIN live, NEW n \in Sizes, Remap(p, n)
      PROVE  Keeps(X, R) /\ [Abstract!Next]_Seen
  <2>1. /\ Keeps(X, R)
        /\ \/ UNCHANGED <<blocks, live>>
           \/ \E q : GetsAt(DOMAIN live \ {p}, q, n, live[p].tag)
    BY <1>1, <1>4, RemapKeeps
  <2>2. CASE UNCHANGED <<blocks, live>>
    BY <2>1, <2>2 DEF Seen
  <2>3. ASSUME NEW q, GetsAt(DOMAIN live \ {p}, q, n, live[p].tag) PROVE Abstract!Next
    BY <1>1, <2>1, <2>3, RemapSeen
  <2> QED
    BY <2>1, <2>2, <2>3
<1>5. ASSUME NEW p \in DOMAIN live, Free(p)
      PROVE  Keeps(X, R) /\ [Abstract!Next]_Seen
  BY <1>5, FreeKeeps, FreeSeen
<1> QED
  BY <1>3, <1>4, <1>5 DEF Call

\* The arena is emptied.
LEMMA EmptySeen ==
  ASSUME Reset \/ Deinit
  PROVE  Abstract!Next
<1>1. live' = <<>>
  BY DEF Reset, Deinit
<1>2. Seen' = <<>>
  BY <1>1 DEF Seen
<1> QED
  BY <1>2 DEF Abstract!FreeAll, Abstract!Next

-----------------------------------------------------------------------------
(* An arena with one client.                                               *)

ArenaInv == Holds({}, Sizes)

\* Each step of an arena with one client is a step of the abstract allocator.
LEMMA ArenaStep ==
  ASSUME Careful, ArenaInv, [Next]_vars
  PROVE  ArenaInv' /\ [Abstract!Next]_Seen
<1>1. CASE UNCHANGED vars
  BY <1>1 DEF vars, ArenaInv, Holds, Seen
<1>2. CASE Call
  <2>1. Sizes \subseteq Sizes
    OBVIOUS
  <2> QED
    BY <1>2, <2>1, CallKeeps DEF ArenaInv, Holds, Keeps
<1>3. CASE Reset \/ Deinit
  <2>1. Deinit \/ (Reset /\ \A n \in Sizes : n + HeaderSize <= first_block_size)
    BY <1>3 DEF Reset
  <2>2. Client(first_block_size', blocks', current', live', {}, Sizes)
    BY <2>1, EmptyKeeps DEF ArenaInv
  <2> QED
    BY <1>3, <2>2, EmptySeen DEF ArenaInv, Holds
<1> QED
  BY <1>1, <1>2, <1>3 DEF Next, Call

\* Blocks of an arena that holds its payloads are within bounds.
LEMMA HoldsInBounds ==
  ASSUME NEW X, NEW R, Holds(X, R)
  PROVE  BlocksInBounds
<1>1. first_block_size \in FirstSizes /\ blocks \in Seq(Chunks(first_block_size))
  BY DEF Holds, Client, Sound
<1>2. ASSUME NEW k \in DOMAIN blocks PROVE blocks[k].size <= blocks[k].capacity
  <2>1. blocks[k] \in Chunks(first_block_size)
    BY <1>1
  <2> QED
    BY <1>1, <2>1, ChunkParts
<1> QED
  BY <1>2 DEF BlocksInBounds

\* The invariant of an arena with one client.
LEMMA ArenaInvariance ==
  ASSUME Careful
  PROVE  Spec => []ArenaInv
<1>1. Init => ArenaInv
  BY InitHolds DEF ArenaInv
<1>2. ArenaInv /\ [Next]_vars => ArenaInv'
  BY ArenaStep
<1> QED
  BY <1>1, <1>2, PTL DEF Spec

\* No allocation of an arena runs over the end of its arena block, whatever a
\* careful client allocates, remaps and frees, and whichever blocks the backing
\* allocator refuses.
THEOREM ArenaInBounds ==
  ASSUME Careful
  PROVE  Spec => []BlocksInBounds
<1>1. ArenaInv => BlocksInBounds
  BY HoldsInBounds DEF ArenaInv
<1> QED
  BY <1>1, ArenaInvariance, PTL

\* The arena keeps the promise of an allocator: its blocks are disjoint, wherever
\* they are, keep their contents, and carry them over when they are remapped.
THEOREM ArenaRefinement ==
  ASSUME Careful
  PROVE  Spec => ImplementsHeap
<1>1. Init => Abstract!Init
  BY DEF Init, Abstract!Init, Seen
<1>2. ArenaInv /\ [Next]_vars => [Abstract!Next]_Seen
  BY ArenaStep
<1> QED
  BY <1>1, <1>2, ArenaInvariance, PTL DEF Spec, ImplementsHeap, Abstract!Spec

-----------------------------------------------------------------------------
(* A vector in an arena, beside the client.                                *)

\* What is asked of the arena.
Asked == Sizes \cup (1 .. LargestCapacity)

\* The vector's payload, if it has one.
At(v) == {v.data} \ {NULL}

\* The n elements at a are the first that the client pushed.
Elements(bs, a, n) == \A i \in 0 .. n - 1 : Byte(bs, a, i) = Element + i + 1

\* The vector's room, its elements, and what was pushed.  Its capacity is one of
\* those that lead to the largest.
VectorHolds(bs, v, s) ==
    /\ v \in [size : 0 .. MaxElements, capacity : Nat, data : Nat]
    /\ v.size <= v.capacity
    /\ v.data = NULL <=> v.capacity = 0
    /\ v.capacity # 0 => /\ Doubled(v.capacity, MaxElements) = LargestCapacity
                         /\ v.capacity <= OldSize(bs, v.data)
    /\ Elements(bs, v.data, v.size)
    /\ s = [i \in 1 .. v.size |-> Element + i]

VectorInv == Holds(At(vec), Asked) /\ VectorHolds(blocks, vec, pushed)

\* A careful client's arena can bear all that is asked of it.
LEMMA AskedIsBearable ==
  ASSUME Careful
  PROVE  /\ LargestCapacity \in Nat
         /\ \A n \in Asked : n \in Nat /\ Bearable(n)
<1>1. LargestCapacity \in Nat
  BY VectorAssumption, DoubledProperties DEF LargestCapacity
<1>2. PICK largest \in Nat : largest = LargestCapacity
  BY <1>1
<1>3. Bearable(largest)
  BY <1>2, CapacityAssumption
<1>4. ASSUME NEW n \in 1 .. largest PROVE n \in Nat /\ Bearable(n)
  <2>1. 2 * (n + HeaderSize) <= 2 * (largest + HeaderSize)
    BY <1>4, BumpAssumption
  <2> QED
    BY <1>3, <2>1, BumpAssumption DEF Bearable
<1>5. ASSUME NEW n \in Sizes PROVE n \in Nat /\ Bearable(n)
  BY CarefulAssumption, ArenaAssumption
<1> QED
  BY <1>1, <1>2, <1>4, <1>5 DEF Asked

\* Where the client's payloads are the same, it holds them beside others at Y.
LEMMA ClientBeside ==
  ASSUME NEW f, NEW bs, NEW cur, NEW L, NEW X, NEW R, Client(f, bs, cur, L, X, R),
         NEW cs, NEW k, NEW Y, Sound(f, cs, k, DOMAIN L \cup Y, R), Y \cap DOMAIN L = {},
         Same(bs, cs, DOMAIN L)
  PROVE  Client(f, cs, k, L, Y, R)
<1>1. PICK A : A = DOMAIN L \cup X
  OBVIOUS
<1>2. /\ f \in FirstSizes /\ bs \in Seq(Chunks(f)) /\ AllLaid(bs, A)
      /\ L \in [DOMAIN L -> [len : Nat, tag : Nat]]
      /\ \A x \in DOMAIN L : Filled(bs, x, L[x].len, L[x].tag)
  BY <1>1 DEF Client, Sound
<1>3. ASSUME NEW x \in DOMAIN L PROVE Filled(cs, x, L[x].len, L[x].tag)
  <2>1. /\ DOMAIN L \in SUBSET A /\ L[x].len \in Nat /\ Filled(bs, x, L[x].len, L[x].tag)
    BY <1>1, <1>2
  <2> QED
    BY <1>2, <2>1, FilledStill
<1> QED
  BY <1>2, <1>3 DEF Client

\* So does the vector, where its payload is the same.
LEMMA VectorStill ==
  ASSUME NEW bs, NEW v, NEW s, VectorHolds(bs, v, s), NEW cs, Same(bs, cs, At(v)),
         v.data # NULL => OldSize(bs, v.data) \in Nat
  PROVE  VectorHolds(cs, v, s)
<1>1. CASE v.data = NULL
  <2>1. v.capacity = 0 /\ v.size = 0
    BY <1>1 DEF VectorHolds
  <2>2. Elements(cs, v.data, v.size)
    BY <2>1 DEF Elements
  <2> QED
    BY <2>1, <2>2 DEF VectorHolds
<1>2. CASE v.data # NULL
  <2>1. v.data \in At(v)
    BY <1>2 DEF At
  <2>2. PICK h \in Nat : h = OldSize(bs, v.data)
    BY <1>2
  <2>3. /\ OldSize(cs, v.data) = h
        /\ \A i \in 0 .. h - 1 : Byte(cs, v.data, i) = Byte(bs, v.data, i)
    BY <2>1, <2>2 DEF Same
  <2>4. v.size \in Nat /\ v.capacity \in Nat /\ v.size <= v.capacity /\ v.capacity <= h
    BY <1>2, <2>2, VectorAssumption DEF VectorHolds
  <2>5. \A i \in 0 .. v.size - 1 : i \in 0 .. h - 1
    BY <2>4
  <2>6. Elements(cs, v.data, v.size)
    BY <2>3, <2>5 DEF Elements, VectorHolds
  <2> QED
    BY <2>2, <2>3, <2>6 DEF VectorHolds
<1> QED
  BY <1>1, <1>2

\* The size of the vector's payload is a number.
LEMMA DataSize ==
  ASSUME VectorInv, vec.data # NULL
  PROVE  /\ OldSize(blocks, vec.data) \in Nat
         /\ blocks # <<>>
         /\ vec.data \in At(vec) /\ vec.data \notin DOMAIN live
<1>1. PICK f : f = first_block_size
  OBVIOUS
<1>2. PICK A : A = DOMAIN live \cup At(vec)
  OBVIOUS
<1>3. /\ f \in FirstSizes /\ blocks \in Seq(Chunks(f)) /\ AllLaid(blocks, A)
      /\ At(vec) \cap DOMAIN live = {}
  BY <1>1, <1>2 DEF VectorInv, Holds, Client, Sound
<1>4. vec.data \in At(vec)
  BY DEF At
<1>5. vec.data \in A
  BY <1>2, <1>4
<1>6. OldSize(blocks, vec.data) \in Nat
  BY <1>3, <1>5, PayloadAt DEF PayloadIn
<1>7. BlockOf(vec.data) \in 1 .. Len(blocks)
  BY <1>3, <1>5 DEF AllLaid
<1>8. blocks # <<>>
  BY <1>3, <1>7
<1> QED
  BY <1>3, <1>4, <1>6, <1>8

-----------------------------------------------------------------------------
(* Pushing.                                                                *)

\* The blocks with n elements of the client behind the ones at q.
PushedTo(cs, q, size, n) ==
    [cs EXCEPT ![BlockOf(q)].mem = Written(@, Offset(q), size, n)]

\* What is pushed lies within the vector's payload, behind its elements.
LEMMA PushingIsOverwriting ==
  ASSUME NEW f \in FirstSizes, NEW cs \in Seq(Chunks(f)), NEW B, AllLaid(cs, B), NEW q \in B,
         NEW size \in Nat, NEW n \in Nat, size + n <= OldSize(cs, q), Elements(cs, q, size)
  PROVE  \E m : /\ Overwritten(cs, PushedTo(cs, q, size, n), q, m)
                /\ \A i \in 0 .. size + n - 1 : m[Offset(q) + i] = Element + i + 1
<1>1. PICK k : k = BlockOf(q)
  OBVIOUS
<1>2. PICK at : at = Offset(q)
  OBVIOUS
<1>3. PICK b : b = cs[k]
  OBVIOUS
<1>4. PICK cap : cap = b.capacity
  OBVIOUS
<1>5. PICK h : h = OldSize(cs, q)
  OBVIOUS
<1>6. PICK c : c = b.mem
  OBVIOUS
<1>7. PayloadIn(cs, B, q, k, at)
  BY <1>1, <1>2, PayloadAt
<1>8. /\ at \in Nat /\ cap \in Nat /\ h \in Nat /\ at + h <= cap /\ size + n <= h
      /\ b \in Blocks(cap)
  <2>1. /\ at \in Nat /\ cap \in Nat /\ h \in Nat /\ at + h <= b.size /\ b.size <= cap
        /\ b.size \in Nat /\ b \in Blocks(cap)
    BY <1>3, <1>4, <1>5, <1>7 DEF PayloadIn
  <2> QED
    BY <1>5, <2>1
<1>9. c \in [0 .. cap - 1 -> Nat] /\ DOMAIN c = 0 .. cap - 1
  BY <1>6, <1>8, BlockParts
<1>10. PICK m : m = Written(c, at, size, n)
  OBVIOUS
<1>11. m = [a \in 0 .. cap - 1 |-> IF a \in at + size .. at + size + n - 1
                                   THEN Element + (a - at + 1) ELSE c[a]]
  BY <1>9, <1>10 DEF Written
<1>12. ASSUME NEW a \in 0 .. cap - 1 PROVE m[a] \in Nat
  <2>1. CASE a \in at + size .. at + size + n - 1
    <3>1. Element + (a - at + 1) \in Nat
      BY <1>8, <2>1, VectorAssumption
    <3> QED
      BY <1>11, <2>1, <3>1
  <2>2. CASE a \notin at + size .. at + size + n - 1
    BY <1>9, <1>11, <2>2
  <2> QED
    BY <2>1, <2>2
<1>13. m \in [0 .. cap - 1 -> Nat]
  BY <1>11, <1>12
<1>14. ASSUME NEW a \in 0 .. cap - 1, a \notin at .. at + h - 1 PROVE m[a] = c[a]
  <2>1. a \notin at + size .. at + size + n - 1
    BY <1>8, <1>14
  <2> QED
    BY <1>11, <2>1
<1>15. ASSUME NEW i \in 0 .. size + n - 1 PROVE m[at + i] = Element + i + 1
  <2>1. at + i \in 0 .. cap - 1
    BY <1>8
  <2>2. CASE i < size
    <3>1. i \in 0 .. size - 1
      BY <2>2
    <3>2. c[at + i] = Element + i + 1
      BY <1>1, <1>2, <1>3, <1>6, <3>1 DEF Elements, Byte
    <3>3. at + i \notin at + size .. at + size + n - 1
      BY <1>8, <2>2
    <3> QED
      BY <1>11, <2>1, <3>2, <3>3
  <2>3. CASE ~(i < size)
    <3>1. at + i \in at + size .. at + size + n - 1
      BY <1>8, <2>3
    <3>2. m[at + i] = Element + ((at + i) - at + 1)
      BY <1>11, <2>1, <3>1
    <3>3. Element + ((at + i) - at + 1) = Element + i + 1
      BY <1>8, VectorAssumption
    <3> QED
      BY <3>2, <3>3
  <2> QED
    BY <2>2, <2>3
<1>16. PushedTo(cs, q, size, n) = [cs EXCEPT ![k] = [@ EXCEPT !.mem = m]]
  <2>1. PushedTo(cs, q, size, n) = [cs EXCEPT ![k].mem = Written(@, at, size, n)]
    BY <1>1, <1>2 DEF PushedTo
  <2> QED
    BY <1>3, <1>6, <1>10, <2>1
<1>17. Overwritten(cs, PushedTo(cs, q, size, n), q, m)
  BY <1>1, <1>2, <1>3, <1>4, <1>5, <1>6, <1>13, <1>14, <1>16 DEF Overwritten
<1> QED
  BY <1>2, <1>15, <1>17

\* The vector's elements once they are pushed; the client's blocks are the same.
LEMMA PushedKeeps ==
  ASSUME NEW f, NEW cs, NEW cur, NEW L, NEW R, NEW q, Client(f, cs, cur, L, {q}, R),
         NEW size \in Nat, NEW n \in Nat, size + n <= OldSize(cs, q), Elements(cs, q, size)
  PROVE  /\ Client(f, PushedTo(cs, q, size, n), cur, L, {q}, R)
         /\ OldSize(PushedTo(cs, q, size, n), q) = OldSize(cs, q)
         /\ Elements(PushedTo(cs, q, size, n), q, size + n)
<1>1. PICK B : B = DOMAIN L \cup {q}
  OBVIOUS
<1>2. PICK ds : ds = PushedTo(cs, q, size, n)
  OBVIOUS
<1>3. /\ f \in FirstSizes /\ Sound(f, cs, cur, B, R) /\ q \in B /\ {q} \cap DOMAIN L = {}
  BY <1>1 DEF Client
<1>4. cs \in Seq(Chunks(f)) /\ AllLaid(cs, B)
  BY <1>3 DEF Sound
<1>5. PICK m : /\ Overwritten(cs, ds, q, m)
               /\ \A i \in 0 .. size + n - 1 : m[Offset(q) + i] = Element + i + 1
  BY <1>2, <1>3, <1>4, PushingIsOverwriting
<1>6. /\ Sound(f, ds, cur, B, R) /\ Same(cs, ds, B \ {q})
      /\ OldSize(ds, q) = OldSize(cs, q) /\ ReadsAs(ds, q, m)
  BY <1>3, <1>5, OverwrittenKeeps
<1>7. Same(cs, ds, DOMAIN L)
  <2>1. B \ {q} = DOMAIN L
    BY <1>1, <1>3
  <2> QED
    BY <1>6, <2>1
<1>8. Sound(f, ds, cur, DOMAIN L \cup {q}, R)
  BY <1>1, <1>6
<1>9. Client(f, ds, cur, L, {q}, R)
  BY <1>3, <1>7, <1>8, ClientBeside
<1>10. Elements(ds, q, size + n)
  BY <1>5, <1>6 DEF ReadsAs, Elements
<1> QED
  BY <1>2, <1>6, <1>9, <1>10

\* A capacity the vector may have: the largest is reached from it.
CapacityFor(c, needed) ==
    /\ c \in Nat /\ c # 0 /\ needed <= c /\ c \in Asked
    /\ Doubled(c, MaxElements) = LargestCapacity

\* The capacity that a vector grows to is enough, and one it may ask for.
LEMMA NewCapacityIs ==
  ASSUME Careful, VectorInv, NEW needed \in Nat, needed <= MaxElements, needed # 0
  PROVE  CapacityFor(NewCapacity(vec, needed), needed)
<1>1. PICK base : base = IF vec.capacity = 0 THEN FirstCapacity ELSE vec.capacity
  OBVIOUS
<1>2. base \in Nat \ {0} /\ Doubled(base, MaxElements) = LargestCapacity
  <2>1. CASE vec.capacity = 0
    BY <1>1, <2>1, VectorAssumption DEF LargestCapacity
  <2>2. CASE vec.capacity # 0
    BY <1>1, <2>2 DEF VectorInv, VectorHolds
  <2> QED
    BY <2>1, <2>2
<1>3. PICK c : c = Doubled(base, needed)
  OBVIOUS
<1>4. c \in Nat /\ c >= needed /\ c >= base
  BY <1>2, <1>3, DoubledProperties
<1>5. MaxElements \in Nat
  BY VectorAssumption
<1>6. Doubled(c, MaxElements) = LargestCapacity
  BY <1>2, <1>3, <1>5, DoubledTwice
<1>7. Doubled(c, MaxElements) >= c
  BY <1>2, <1>4, <1>5, DoubledProperties
<1>8. c \in 1 .. LargestCapacity
  <2>1. LargestCapacity \in Nat
    BY AskedIsBearable
  <2>2. c >= 1 /\ c <= LargestCapacity
    BY <1>2, <1>4, <1>6, <1>7, <2>1
  <2> QED
    BY <1>4, <2>1, <2>2
<1>9. NewCapacity(vec, needed) = c
  BY <1>1, <1>3 DEF NewCapacity
<1> QED
  BY <1>2, <1>4, <1>6, <1>8, <1>9 DEF CapacityFor, Asked

\* The arena has given the vector the payload of o, for c elements, with the
\* ones it has.
Grew(o, c) ==
    /\ o.buf \in Nat /\ o.buf # NULL
    /\ Client(first_block_size, o.blocks, o.current, live, {o.buf}, Asked)
    /\ c <= OldSize(o.blocks, o.buf)
    /\ Elements(o.blocks, o.buf, vec.size)

\* What the arena gives the vector instead of its payload.
LEMMA GivenGrows ==
  ASSUME VectorInv, NEW o, NEW c, NEW K, K = DOMAIN live,
         Gives(first_block_size, blocks, o, K, c, Asked),
         Elements(o.blocks, o.buf, vec.size)
  PROVE  Grew(o, c)
<1>1. /\ o.buf \in Nat /\ o.buf # NULL /\ o.buf \notin K
      /\ Sound(first_block_size, o.blocks, o.current, K \cup {o.buf}, Asked)
      /\ Same(blocks, o.blocks, K) /\ c <= OldSize(o.blocks, o.buf)
  BY DEF Gives
<1>2. PICK Y : Y = {o.buf}
  OBVIOUS
<1>3. Y \cap DOMAIN live = {}
  BY <1>1, <1>2
<1>4. /\ Client(first_block_size, blocks, current, live, At(vec), Asked)
      /\ Sound(first_block_size, o.blocks, o.current, DOMAIN live \cup Y, Asked)
      /\ Same(blocks, o.blocks, DOMAIN live)
  BY <1>1, <1>2 DEF VectorInv, Holds
<1>5. Client(first_block_size, o.blocks, o.current, live, Y, Asked)
  BY <1>3, <1>4, ClientBeside
<1> QED
  BY <1>1, <1>2, <1>5 DEF Grew

\* A vector that asks for more is given it, with its elements, or nothing
\* changes but the current block, which may be NULL.
LEMMA VectorGrows ==
  ASSUME Careful, VectorInv, NEW c, NEW needed \in Nat, vec.size <= needed, CapacityFor(c, needed),
         Usable, NEW o \in ArenaRemap(blocks, current, vec.data, c)
  PROVE  \/ o.buf = NULL /\ o.blocks = blocks /\ o.current \in {current, NULL}
         \/ Grew(o, c)
<1>1. c \in Nat /\ c \in Asked /\ Bearable(c)
  BY AskedIsBearable DEF CapacityFor
<1>2. PICK A : A = DOMAIN live \cup At(vec)
  OBVIOUS
<1>3. PICK K : K = DOMAIN live
  OBVIOUS
<1>4. /\ first_block_size \in FirstSizes
      /\ Sound(first_block_size, blocks, current, A, Asked)
  BY <1>2 DEF VectorInv, Holds, Client
<1>5. CASE vec.data = NULL
  <2>1. o \in ArenaAlloc(blocks, current, c)
    BY <1>5 DEF ArenaRemap
  <2>2. blocks # <<>> => current # NULL
    BY DEF Usable
  <2>3. Yields(first_block_size, blocks, current, o, A, c, Asked)
    BY <1>1, <1>4, <2>1, <2>2, ArenaAllocGives
  <2>4. A = K
    BY <1>2, <1>3, <1>5 DEF At
  <2>5. Elements(o.blocks, o.buf, vec.size)
    <3>1. vec.size = 0
      BY <1>5 DEF VectorInv, VectorHolds
    <3> QED
      BY <3>1 DEF Elements
  <2> QED
    BY <1>3, <2>3, <2>4, <2>5, GivenGrows DEF Yields
<1>6. CASE vec.data # NULL
  <2>1. PICK p : p = vec.data
    OBVIOUS
  <2>2. PICK h \in Nat : h = OldSize(blocks, p)
    BY <1>6, <2>1, DataSize
  <2>3. blocks # <<>> /\ p \in A /\ p \notin DOMAIN live
    BY <1>2, <1>6, <2>1, DataSize
  <2>4. current # NULL
    BY <2>3 DEF Usable
  <2>5. o \in ArenaRemap(blocks, current, p, c)
    BY <2>1
  <2>6. Remaps(first_block_size, blocks, current, o, A, p, c, Asked)
    BY <1>1, <1>4, <2>3, <2>4, <2>5, ArenaRemapGives
  <2>7. A \ {p} = K
    BY <1>2, <1>3, <2>1, <2>3 DEF At
  <2>8. CASE Gives(first_block_size, blocks, o, K, c, Asked) /\ CarriedOver(blocks, o, p, c)
    <3>1. PICK size : size = vec.size
      OBVIOUS
    <3>2. /\ size \in Nat /\ vec.capacity \in Nat /\ size <= vec.capacity
          /\ vec.capacity <= h /\ Elements(blocks, p, size)
      BY <1>6, <2>1, <2>2, <3>1, VectorAssumption DEF VectorInv, VectorHolds
    <3>3. size <= c
      <4>1. needed <= c
        BY DEF CapacityFor
      <4> QED
        BY <1>1, <3>1, <3>2, <4>1
    <3>4. ASSUME NEW i \in 0 .. size - 1 PROVE Byte(o.blocks, o.buf, i) = Element + i + 1
      <4>1. i \in 0 .. h - 1 /\ i < c
        BY <1>1, <3>2, <3>3
      <4>2. Byte(o.blocks, o.buf, i) = Byte(blocks, p, i)
        BY <2>2, <2>8, <4>1 DEF CarriedOver
      <4> QED
        BY <3>2, <4>2 DEF Elements
    <3>5. Elements(o.blocks, o.buf, vec.size)
      BY <3>1, <3>4 DEF Elements
    <3> QED
      BY <1>3, <2>8, <3>5, GivenGrows
  <2> QED
    BY <2>6, <2>7, <2>8 DEF Remaps
<1> QED
  BY <1>5, <1>6

\* What was pushed, and n elements more.
LEMMA PushedAfter ==
  ASSUME NEW size \in Nat, NEW n \in Nat
  PROVE  [i \in 1 .. size |-> Element + i] \o [i \in 1 .. n |-> Element + size + i]
            = [i \in 1 .. size + n |-> Element + i]
<1>1. PICK s : s = [i \in 1 .. size |-> Element + i]
  OBVIOUS
<1>2. PICK t : t = [i \in 1 .. n |-> Element + size + i]
  OBVIOUS
<1>3. PICK u : u = [i \in 1 .. size + n |-> Element + i]
  OBVIOUS
<1>4. Element \in Nat
  BY VectorAssumption
<1>5. s \in Seq(Nat) /\ t \in Seq(Nat) /\ u \in Seq(Nat)
  BY <1>1, <1>2, <1>3, <1>4
<1>6. Len(s) = size /\ Len(t) = n /\ Len(u) = size + n
  BY <1>1, <1>2, <1>3
<1>7. PICK w \in Seq(Nat) : w = s \o t
  BY <1>5, ConcatProperties
<1>8. /\ Len(w) = size + n
      /\ \A i \in 1 .. size + n : w[i] = IF i <= size THEN s[i] ELSE t[i - size]
  BY <1>5, <1>6, <1>7, ConcatProperties
<1>9. ASSUME NEW i \in 1 .. size + n PROVE w[i] = u[i]
  <2>1. u[i] = Element + i
    BY <1>3
  <2>2. CASE i <= size
    <3>1. i \in 1 .. size
      BY <2>2
    <3> QED
      BY <1>1, <1>8, <2>1, <2>2, <3>1
  <2>3. CASE ~(i <= size)
    <3>1. i - size \in 1 .. n
      BY <2>3
    <3>2. t[i - size] = Element + size + (i - size)
      BY <1>2, <3>1
    <3>3. Element + size + (i - size) = Element + i
      BY <1>4
    <3> QED
      BY <1>8, <2>1, <2>3, <3>2, <3>3
  <2> QED
    BY <2>2, <2>3
<1>10. w = u
  BY <1>5, <1>6, <1>7, <1>8, <1>9, SeqEqual
<1> QED
  BY <1>1, <1>2, <1>3, <1>7, <1>10

\* n elements written where there is room for them: at q, for c elements.
LEMMA WrittenKeeps ==
  ASSUME VectorInv, NEW n \in Nat, vec.size + n <= MaxElements,
         NEW cs, NEW q \in Nat, q # NULL, NEW c \in Nat, c # 0, vec.size + n <= c,
         c <= OldSize(cs, q), OldSize(cs, q) \in Nat,
         Doubled(c, MaxElements) = LargestCapacity,
         Client(first_block_size, cs, current', live, {q}, Asked), Elements(cs, q, vec.size),
         UNCHANGED <<first_block_size, live>>,
         blocks' = PushedTo(cs, q, vec.size, n),
         vec' = [size |-> vec.size + n, capacity |-> c, data |-> q],
         pushed' = pushed \o [i \in 1 .. n |-> Element + vec.size + i]
  PROVE  VectorInv'
<1>1. PICK size : size = vec.size
  OBVIOUS
<1>2. PICK f : f = first_block_size
  OBVIOUS
<1>3. PICK L : L = live
  OBVIOUS
<1>4. PICK cur : cur = current'
  OBVIOUS
<1>5. size \in Nat /\ MaxElements \in Nat /\ pushed = [i \in 1 .. size |-> Element + i]
  BY <1>1, VectorAssumption DEF VectorInv, VectorHolds
<1>6. size + n <= OldSize(cs, q)
  BY <1>1, <1>5
<1>7. PICK ds : ds = PushedTo(cs, q, size, n)
  OBVIOUS
<1>8. Client(f, cs, cur, L, {q}, Asked) /\ Elements(cs, q, size)
  BY <1>1, <1>2, <1>3, <1>4
<1>9. /\ Client(f, ds, cur, L, {q}, Asked) /\ OldSize(ds, q) = OldSize(cs, q)
      /\ Elements(ds, q, size + n)
  BY <1>5, <1>6, <1>7, <1>8, PushedKeeps
<1>10. /\ first_block_size' = f /\ blocks' = ds /\ live' = L /\ At(vec') = {q}
  BY <1>1, <1>2, <1>3, <1>7 DEF At
<1>11. Holds(At(vec), Asked)'
  BY <1>4, <1>9, <1>10 DEF Holds
<1>12. pushed' = [i \in 1 .. size + n |-> Element + i]
  BY <1>1, <1>5, PushedAfter
<1>13. vec'.size = size + n /\ vec'.capacity = c /\ vec'.data = q
  BY <1>1
<1>14. vec' \in [size : 0 .. MaxElements, capacity : Nat, data : Nat]
  BY <1>1, <1>5
<1>15. VectorHolds(blocks, vec, pushed)'
  BY <1>1, <1>9, <1>10, <1>12, <1>13, <1>14 DEF VectorHolds
<1> QED
  BY <1>11, <1>15 DEF VectorInv

\* The client sees what it saw, if its blocks are the same.
LEMMA SeesTheSame ==
  ASSUME VectorInv, VectorInv', UNCHANGED live
  PROVE  UNCHANGED Seen
<1>1. Seen = Shown(live)
  BY SeenIs DEF VectorInv
<1>2. Client(first_block_size', blocks', current', live', At(vec)', Asked)
  BY DEF VectorInv, Holds
<1>3. Seen' = Shown(live')
  BY <1>2, SeenThen
<1> QED
  BY <1>1, <1>3

\* Vector_push and Vector_pushN.
LEMMA PushKeeps ==
  ASSUME Careful, VectorInv, NEW n \in 1 .. MaxPushN, PushN(n)
  PROVE  VectorInv' /\ UNCHANGED Seen
<1>1. PICK e \in Ensure(vec, n) :
         /\ current' = e.current
         /\ IF e.ok
            THEN /\ blocks' = PushedTo(e.blocks, e.vec.data, e.vec.size, n)
                 /\ vec' = [e.vec EXCEPT !.size = @ + n]
                 /\ pushed' = pushed \o [i \in 1 .. n |-> Element + vec.size + i]
            ELSE blocks' = e.blocks /\ vec' = e.vec /\ UNCHANGED pushed
  BY DEF PushN, PushedTo
<1>2. /\ UNCHANGED <<first_block_size, live>>
      /\ vec.size + n <= MaxElements
      /\ vec.size + n > vec.capacity => Usable
  BY DEF PushN
<1>3. n \in Nat /\ n > 0 /\ MaxElements \in Nat
  BY VectorAssumption
<1>4. /\ vec \in [size : 0 .. MaxElements, capacity : Nat, data : Nat]
      /\ vec.size <= vec.capacity
      /\ vec.data = NULL <=> vec.capacity = 0
      /\ vec.capacity # 0 => /\ Doubled(vec.capacity, MaxElements) = LargestCapacity
                             /\ vec.capacity <= OldSize(blocks, vec.data)
      /\ Elements(blocks, vec.data, vec.size)
  BY DEF VectorInv, VectorHolds
<1>5. vec.size \in Nat /\ vec.capacity \in Nat /\ vec.data \in Nat
  BY <1>3, <1>4
<1>6. PICK needed \in Nat : needed = vec.size + n
  BY <1>3, <1>5
<1>7. needed # 0 /\ needed <= MaxElements /\ vec.size <= needed
  BY <1>2, <1>3, <1>5, <1>6
<1>8. CASE needed <= vec.capacity
  <2>1. e = [ok |-> TRUE, blocks |-> blocks, current |-> current, vec |-> vec]
    BY <1>1, <1>6, <1>8 DEF Ensure
  <2>2. vec.capacity # 0 /\ vec.data # NULL
    BY <1>4, <1>5, <1>7, <1>8
  <2>3. OldSize(blocks, vec.data) \in Nat
    BY <2>2, DataSize
  <2>4. Client(first_block_size, blocks, current', live, {vec.data}, Asked)
    <3>1. At(vec) = {vec.data}
      BY <2>2 DEF At
    <3> QED
      BY <1>1, <2>1, <3>1 DEF VectorInv, Holds
  <2>5. /\ blocks' = PushedTo(blocks, vec.data, vec.size, n)
        /\ vec' = [size |-> vec.size + n, capacity |-> vec.capacity, data |-> vec.data]
        /\ pushed' = pushed \o [i \in 1 .. n |-> Element + vec.size + i]
    BY <1>1, <1>4, <2>1
  <2>6. VectorInv'
    BY <1>2, <1>3, <1>4, <1>5, <1>6, <1>8, <2>2, <2>3, <2>4, <2>5, WrittenKeeps
  <2> QED
    BY <1>2, <2>6, SeesTheSame
<1>9. CASE ~(needed <= vec.capacity)
  <2>1. PICK c : c = NewCapacity(vec, needed)
    OBVIOUS
  <2>2. CapacityFor(c, needed)
    BY <1>7, <2>1, NewCapacityIs
  <2>3. Usable
    BY <1>2, <1>5, <1>6, <1>9
  <2>4. PICK o \in ArenaRemap(blocks, current, vec.data, c) :
           e = [ok |-> o.buf # NULL, blocks |-> o.blocks, current |-> o.current,
                vec |-> IF o.buf = NULL
                        THEN vec
                        ELSE [vec EXCEPT !.capacity = c, !.data = o.buf]]
    BY <1>1, <1>6, <1>9, <2>1 DEF Ensure
  <2>5. \/ o.buf = NULL /\ o.blocks = blocks /\ o.current \in {current, NULL}
        \/ Grew(o, c)
    BY <1>7, <2>2, <2>3, VectorGrows
  <2>6. CASE o.buf = NULL
    <3>1. o.blocks = blocks /\ o.current \in {current, NULL}
      BY <2>5, <2>6 DEF Grew
    <3>2. /\ UNCHANGED <<first_block_size, blocks, live>> /\ current' \in {current, NULL}
          /\ UNCHANGED <<vec, pushed>>
      BY <1>1, <1>2, <2>4, <2>6, <3>1
    <3>3. Holds(At(vec), Asked)
      BY DEF VectorInv
    <3>4. Keeps(At(vec), Asked)
      BY <3>2, <3>3, InVain
    <3>5. VectorInv'
      BY <3>2, <3>4 DEF Keeps, VectorInv, Holds
    <3> QED
      BY <1>2, <3>5, SeesTheSame
  <2>7. CASE o.buf # NULL
    <3>1. PICK q : q = o.buf
      OBVIOUS
    <3>2. PICK cs : cs = o.blocks
      OBVIOUS
    <3>3. /\ q \in Nat /\ q # NULL /\ c <= OldSize(cs, q) /\ Elements(cs, q, vec.size)
          /\ Client(first_block_size, cs, o.current, live, {q}, Asked)
      BY <2>5, <2>7, <3>1, <3>2 DEF Grew
    <3>4. OldSize(cs, q) \in Nat
      <4>1. PICK B : B = DOMAIN live \cup {q}
        OBVIOUS
      <4>2. /\ first_block_size \in FirstSizes /\ cs \in Seq(Chunks(first_block_size))
            /\ AllLaid(cs, B) /\ q \in B
        BY <3>3, <4>1 DEF Client, Sound
      <4> QED
        BY <4>2, PayloadAt DEF PayloadIn
    <3>5. /\ c \in Nat /\ c # 0 /\ needed <= c /\ Doubled(c, MaxElements) = LargestCapacity
      BY <2>2 DEF CapacityFor
    <3>6. e.ok /\ e.blocks = cs /\ e.current = o.current
          /\ e.vec = [size |-> vec.size, capacity |-> c, data |-> q]
      BY <1>4, <2>4, <2>7, <3>1, <3>2
    <3>7. /\ blocks' = PushedTo(cs, q, vec.size, n) /\ current' = o.current
          /\ vec' = [size |-> vec.size + n, capacity |-> c, data |-> q]
          /\ pushed' = pushed \o [i \in 1 .. n |-> Element + vec.size + i]
      BY <1>1, <3>6
    <3>8. VectorInv'
      BY <1>2, <1>3, <1>6, <3>3, <3>4, <3>5, <3>7, WrittenKeeps
    <3> QED
      BY <1>2, <3>8, SeesTheSame
  <2> QED
    BY <2>6, <2>7
<1> QED
  BY <1>8, <1>9

-----------------------------------------------------------------------------
(* The other steps.                                                        *)

\* Fewer of the elements.
LEMMA FewerElements ==
  ASSUME VectorInv, NEW k \in 0 .. vec.size, UNCHANGED vars,
         vec' = [vec EXCEPT !.size = k], pushed' = [i \in 1 .. k |-> Element + i]
  PROVE  VectorInv'
<1>1. /\ vec \in [size : 0 .. MaxElements, capacity : Nat, data : Nat]
      /\ vec.size <= vec.capacity /\ Elements(blocks, vec.data, vec.size)
      /\ MaxElements \in Nat
  BY VectorAssumption DEF VectorInv, VectorHolds
<1>2. /\ vec' \in [size : 0 .. MaxElements, capacity : Nat, data : Nat]
      /\ vec'.size = k /\ vec'.capacity = vec.capacity /\ vec'.data = vec.data
  BY <1>1
<1>3. k <= vec.capacity /\ \A i \in 0 .. k - 1 : i \in 0 .. vec.size - 1
  BY <1>1
<1>4. Elements(blocks, vec.data, k)
  BY <1>1, <1>3 DEF Elements
<1>5. blocks' = blocks
  BY DEF vars
<1>6. VectorHolds(blocks, vec, pushed)'
  BY <1>2, <1>3, <1>4, <1>5 DEF VectorHolds, VectorInv
<1>7. Holds(At(vec), Asked)'
  BY <1>2 DEF VectorInv, Holds, At, vars
<1> QED
  BY <1>6, <1>7 DEF VectorInv

\* Vector_pop
LEMMA PopKeeps ==
  ASSUME VectorInv, Pop
  PROVE  VectorInv' /\ UNCHANGED Seen
<1>1. PICK size : size = vec.size
  OBVIOUS
<1>2. /\ size \in Nat /\ size > 0 /\ pushed = [i \in 1 .. size |-> Element + i]
      /\ vec' = [vec EXCEPT !.size = size - 1] /\ UNCHANGED vars
  BY <1>1, VectorAssumption DEF VectorInv, VectorHolds, Pop
<1>3. pushed' = [i \in 1 .. size - 1 |-> Element + i]
  <2>1. Len(pushed) = size /\ Element \in Nat
    BY <1>2, VectorAssumption
  <2>2. pushed' = [i \in 1 .. size - 1 |-> pushed[i]]
    BY <1>2, <2>1 DEF Pop
  <2>3. \A i \in 1 .. size - 1 : pushed[i] = Element + i
    BY <1>2
  <2> QED
    BY <2>2, <2>3
<1>4. size - 1 \in 0 .. vec.size
  BY <1>1, <1>2
<1>5. VectorInv'
  BY <1>2, <1>3, <1>4, FewerElements
<1> QED
  BY <1>2, <1>5, SeesTheSame DEF vars

\* Vector_clear
LEMMA ClearKeeps ==
  ASSUME VectorInv, Clear
  PROVE  VectorInv' /\ UNCHANGED Seen
<1>1. vec' = [vec EXCEPT !.size = 0] /\ UNCHANGED vars
  BY DEF Clear
<1>2. pushed' = [i \in 1 .. 0 |-> Element + i]
  BY DEF Clear
<1>3. 0 \in 0 .. vec.size
  BY VectorAssumption DEF VectorInv, VectorHolds
<1>4. VectorInv'
  BY <1>1, <1>2, <1>3, FewerElements
<1> QED
  BY <1>1, <1>4, SeesTheSame DEF vars

\* A vector that was initialized holds nothing.
LEMMA EmptyVectorHolds ==
  ASSUME NEW bs
  PROVE  VectorHolds(bs, EmptyVector, <<>>) /\ At(EmptyVector) = {}
<1>1. MaxElements \in Nat
  BY VectorAssumption
<1>2. <<>> = [i \in 1 .. 0 |-> Element + i]
  OBVIOUS
<1>3. Elements(bs, NULL, 0)
  BY DEF Elements
<1> QED
  BY <1>1, <1>2, <1>3 DEF EmptyVector, VectorHolds, At, NULL

\* Vector_deinit
LEMMA VectorDeinitKeeps ==
  ASSUME VectorInv, VectorDeinit
  PROVE  VectorInv' /\ UNCHANGED Seen
<1>1. PICK p : p = vec.data
  OBVIOUS
<1>2. PICK f : f = first_block_size
  OBVIOUS
<1>3. PICK L : L = live
  OBVIOUS
<1>4. PICK A : A = DOMAIN L \cup {p}
  OBVIOUS
<1>5. PICK rs : rs = ArenaRelease(blocks, current, p)
  OBVIOUS
<1>6. p # NULL /\ p \notin DOMAIN L /\ At(vec) = {p}
  BY <1>1, <1>3, DataSize DEF VectorDeinit, At
<1>7. /\ Client(f, blocks, current, L, {p}, Asked) /\ f \in FirstSizes
      /\ Sound(f, blocks, current, A, Asked) /\ p \in A
  BY <1>2, <1>3, <1>4, <1>6 DEF VectorInv, Holds, Client
<1>8. Sound(f, rs, current, A \ {p}, Asked) /\ Same(blocks, rs, A \ {p})
  BY <1>5, <1>7, ArenaReleaseKeeps
<1>9. PICK Y : Y = {}
  OBVIOUS
<1>10. A \ {p} = DOMAIN L /\ DOMAIN L = DOMAIN L \cup Y /\ Y \cap DOMAIN L = {}
  BY <1>4, <1>6, <1>9
<1>11. Client(f, rs, current, L, Y, Asked)
  BY <1>7, <1>8, <1>10, ClientBeside
<1>12. /\ UNCHANGED <<first_block_size, current, live>> /\ blocks' = rs
       /\ vec' = EmptyVector /\ pushed' = <<>>
  BY <1>1, <1>5 DEF VectorDeinit
<1>13. VectorInv'
  BY <1>2, <1>3, <1>9, <1>11, <1>12, EmptyVectorHolds DEF VectorInv, Holds
<1> QED
  BY <1>12, <1>13, SeesTheSame

\* A call of the other client.
LEMMA OtherClientKeeps ==
  ASSUME Careful, VectorInv, OtherClient
  PROVE  VectorInv' /\ [Abstract!Next]_Seen
<1>1. Holds(At(vec), Asked) /\ VectorHolds(blocks, vec, pushed)
  BY DEF VectorInv
<1>2. Sizes \subseteq Asked
  BY DEF Asked
<1>3. Call /\ UNCHANGED <<vec, pushed>>
  BY DEF OtherClient, Call
<1>4. Keeps(At(vec), Asked) /\ [Abstract!Next]_Seen
  BY <1>1, <1>2, <1>3, CallKeeps
<1>5. Same(blocks, blocks', At(vec))
  BY <1>4 DEF Keeps
<1>6. vec.data # NULL => OldSize(blocks, vec.data) \in Nat
  BY DataSize
<1>7. VectorHolds(blocks', vec, pushed)
  BY <1>1, <1>5, <1>6, VectorStill
<1>8. VectorInv'
  BY <1>3, <1>4, <1>7 DEF Keeps, VectorInv, Holds
<1> QED
  BY <1>4, <1>8

\* The arena is emptied.
LEMMA StartOverKeeps ==
  ASSUME Careful, VectorInv, StartOver
  PROVE  VectorInv' /\ Abstract!Next
<1>1. CASE Deinit
  <2>1. Client(first_block_size', blocks', current', live', {}, Asked)
    BY <1>1, EmptyKeeps DEF VectorInv
  <2>2. VectorInv'
    BY <2>1, EmptyVectorHolds DEF VectorInv, Holds, StartOver
  <2> QED
    BY <1>1, <2>2, EmptySeen
<1>2. CASE Reset /\ LargestCapacity + HeaderSize <= first_block_size
  <2>1. \A n \in Sizes : n + HeaderSize <= first_block_size
    BY <1>2 DEF Reset
  <2>2. PICK largest \in Nat : largest = LargestCapacity
    BY AskedIsBearable
  <2>3. PICK f \in Nat : f = first_block_size
    BY BumpAssumption DEF VectorInv, Holds, Client, FirstSizes
  <2>4. \A n \in 1 .. largest : n + HeaderSize <= f
    BY <1>2, <2>2, <2>3, BumpAssumption
  <2>5. \A n \in Asked : n + HeaderSize <= first_block_size
    BY <2>1, <2>2, <2>3, <2>4 DEF Asked
  <2>6. Client(first_block_size', blocks', current', live', {}, Asked)
    BY <1>2, <2>5, EmptyKeeps DEF VectorInv
  <2>7. VectorInv'
    BY <2>6, EmptyVectorHolds DEF VectorInv, Holds, StartOver
  <2> QED
    BY <1>2, <2>7, EmptySeen
<1> QED
  BY <1>1, <1>2 DEF StartOver

\* Each step keeps the invariant, and is to the client a step of the abstract
\* allocator or none.
LEMMA VectorStep ==
  ASSUME Careful, VectorInv, [VectorNext]_vectorVars
  PROVE  VectorInv' /\ [Abstract!Next]_Seen
<1>1. CASE UNCHANGED vectorVars
  BY <1>1, SeesTheSame DEF vectorVars, vars, VectorInv, Holds
<1>2. ASSUME NEW n \in 1 .. MaxPushN, PushN(n)
      PROVE  VectorInv' /\ [Abstract!Next]_Seen
  BY <1>2, PushKeeps
<1>3. CASE Pop
  BY <1>3, PopKeeps
<1>4. CASE Clear
  BY <1>4, ClearKeeps
<1>5. CASE VectorDeinit
  BY <1>5, VectorDeinitKeeps
<1>6. CASE OtherClient
  BY <1>6, OtherClientKeeps
<1>7. CASE StartOver
  BY <1>7, StartOverKeeps
<1> QED
  BY <1>1, <1>2, <1>3, <1>4, <1>5, <1>6, <1>7 DEF VectorNext

\* The invariant of a vector and a client in one arena.
LEMMA VectorInvariance ==
  ASSUME Careful
  PROVE  VectorSpec => []VectorInv
<1>1. VectorInit => VectorInv
  BY InitHolds, EmptyVectorHolds DEF VectorInit, VectorInv
<1>2. VectorInv /\ [VectorNext]_vectorVars => VectorInv'
  BY VectorStep
<1> QED
  BY <1>1, <1>2, PTL DEF VectorSpec

-----------------------------------------------------------------------------
(* What a vector promises.                                                 *)

\* Nor does an allocation run over the end of its arena block where a vector
\* grows beside the client's blocks.
THEOREM VectorInBounds ==
  ASSUME Careful
  PROVE  VectorSpec => []BlocksInBounds
<1>1. VectorInv => BlocksInBounds
  BY HoldsInBounds DEF VectorInv
<1> QED
  BY <1>1, VectorInvariance, PTL

\* The vector never believes it has more room than the arena gave it, whichever
\* of its pushes failed for want of memory and wherever growing moved it.
THEOREM VectorRoom ==
  ASSUME Careful
  PROVE  VectorSpec => []RoomIsReal
<1>1. VectorInv => RoomIsReal
  BY DEF VectorInv, VectorHolds, RoomIsReal
<1> QED
  BY <1>1, VectorInvariance, PTL

\* The vector holds what was pushed, in order, wherever growing moved it and
\* whatever the other client does in the arena meanwhile.
THEOREM VectorHoldsPushed ==
  ASSUME Careful
  PROVE  VectorSpec => []HoldsPushed
<1>1. ASSUME VectorInv PROVE HoldsPushed
  <2>1. PICK size : size = vec.size
    OBVIOUS
  <2>2. PICK p : p = vec.data
    OBVIOUS
  <2>3. /\ size \in Nat /\ p \in Nat /\ Elements(blocks, p, size)
        /\ pushed = [i \in 1 .. size |-> Element + i]
    BY <1>1, <2>1, <2>2, VectorAssumption DEF VectorInv, VectorHolds
  <2>4. Offset(p) \in Int
    BY <2>3, Addresses, ArenaAssumption
  <2>5. ASSUME NEW i \in 1 .. size
        PROVE  blocks[BlockOf(p)].mem[Offset(p) + i - 1] = pushed[i]
    <3>1. i - 1 \in 0 .. size - 1
      BY <2>3
    <3>2. Byte(blocks, p, i - 1) = Element + (i - 1) + 1
      BY <2>3, <3>1 DEF Elements
    <3>3. Offset(p) + (i - 1) = Offset(p) + i - 1 /\ Element + (i - 1) + 1 = Element + i
      BY <2>3, <2>4, VectorAssumption
    <3> QED
      BY <2>3, <3>2, <3>3 DEF Byte
  <2>6. Len(pushed) = size
    BY <2>3
  <2> QED
    BY <2>1, <2>2, <2>5, <2>6 DEF HoldsPushed
<1>2. VectorInv => HoldsPushed
  BY <1>1
<1> QED
  BY <1>2, VectorInvariance, PTL

\* A vector that grows and gives back its blocks beside the client's does not
\* break the promise of the allocator to the client.
THEOREM VectorRefinement ==
  ASSUME Careful
  PROVE  VectorSpec => ImplementsHeap
<1>1. VectorInit => Abstract!Init
  BY DEF VectorInit, Init, Abstract!Init, Seen
<1>2. VectorInv /\ [VectorNext]_vectorVars => [Abstract!Next]_Seen
  BY VectorStep
<1> QED
  BY <1>1, <1>2, VectorInvariance, PTL DEF VectorSpec, ImplementsHeap, Abstract!Spec
=============================================================================
