----------------------------- MODULE BitPool_proof -----------------------------
(***************************************************************************)
(* Proofs about BitPool, for every word length and every number of slots   *)
(* that is a multiple of it.                                               *)
(***************************************************************************)
EXTENDS BitPool, WellFoundedInduction, TLAPS

USE BitPoolAssumption

-----------------------------------------------------------------------------
(* Arithmetic.                                                             *)

\* Division with remainder.
LEMMA DivMod ==
    ASSUME NEW x \in Nat
    PROVE  /\ Word(x) \in Nat
           /\ Bit(x) \in Bits
           /\ x = W * Word(x) + Bit(x)
  BY DEF Word, Bit, Bits

\* A number is put together in one way only.
LEMMA Unique ==
    ASSUME NEW q \in Nat, NEW b \in Bits
    PROVE  /\ W * q + b \in Nat
           /\ Word(W * q + b) = q
           /\ Bit(W * q + b) = b
<1>1. W \in Nat \ {0} /\ b \in 0 .. W - 1 BY DEF Bits
<1>2. (W * q + b) \div W = q /\ (W * q + b) % W = b BY <1>1
<1>3. W * q \in Nat BY <1>1
<1>4. QED BY <1>1, <1>2, <1>3 DEF Word, Bit

LEMMA Bound ==
    ASSUME NEW q \in Nat, NEW b \in Bits, NEW r \in Nat, q < r
    PROVE  W * q + b < W * r
  BY DEF Bits

\* The relation "less than" as a set, and the least of a set of numbers.
LessThan == CHOOSE R : IsWellFoundedOn(R, Nat) /\ \A x, y \in Nat : x < y => <<x, y>> \in R

LEMMA LessThanWellFounded ==
    IsWellFoundedOn(LessThan, Nat) /\ \A x, y \in Nat : x < y => <<x, y>> \in LessThan
<1> DEFINE R == OpToRel(<, Nat)
<1>1. IsWellFoundedOn(R, Nat) BY NatLessThanWellFounded
<1>2. \A x, y \in Nat : x < y => <<x, y>> \in R BY DEF OpToRel
<1>3. QED BY <1>1, <1>2, Zenon DEF LessThan

LEMMA Least ==
    ASSUME NEW T, T \subseteq Nat, T # {}
    PROVE  \E x \in T : \A y \in T : x <= y
<1>1. IsWellFoundedOn(LessThan, Nat) BY LessThanWellFounded
<1>2. \E x \in T : \A y \in T : ~ (<<y, x>> \in LessThan) BY <1>1, WFMin, Zenon
<1>3. PICK x \in T : \A y \in T : ~ (<<y, x>> \in LessThan) BY <1>2
<1>4. ASSUME NEW y \in T PROVE x <= y
  <2>1. ~ (y < x) BY <1>3, LessThanWellFounded
  <2>2. x \in Nat /\ y \in Nat OBVIOUS
  <2>3. QED BY <2>1, <2>2
<1>5. QED BY <1>4

\* The lowest bit that is 0 in a word that has one.
LEMMA LowestFreeIsLowest ==
    ASSUME NEW word \in SUBSET Bits, ~IsFull(word)
    PROVE  /\ LowestFree(word) \in Bits \ word
           /\ \A c \in Bits : c < LowestFree(word) => c \in word
<1>1. Bits \ word # {} /\ Bits \ word \subseteq Nat
  <2>1. Bits \subseteq Nat BY DEF Bits
  <2>2. word \subseteq Bits /\ word # Bits BY DEF IsFull
  <2>3. QED BY <2>1, <2>2
<1>2. \E b \in Bits \ word : \A c \in Bits \ word : b <= c BY <1>1, Least
<1>3. /\ LowestFree(word) \in Bits \ word
      /\ \A c \in Bits \ word : LowestFree(word) <= c
  BY <1>2 DEF LowestFree
<1>4. ASSUME NEW c \in Bits, c < LowestFree(word) PROVE c \in word
  <2>1. c \in Nat /\ LowestFree(word) \in Nat BY <1>1, <1>3 DEF Bits
  <2>2. ~ (LowestFree(word) <= c) BY <2>1, <1>4
  <2>3. QED BY <1>3, <2>2
<1>5. QED BY <1>3, <1>4

-----------------------------------------------------------------------------
(* Words, slots and how many there are.                                    *)

LEMMA WordCounts ==
    ASSUME N \in Capacities
    PROVE  /\ N \in Nat \ {0}
           /\ L0Count \in Nat \ {0}
           /\ N = W * L0Count
           /\ L1Count \in Nat
<1>1. N \in Nat /\ N > 0 /\ N % W = 0 OBVIOUS
<1>2. L0Count \in Nat /\ N = W * L0Count
  <2>1. Word(N) \in Nat /\ N = W * Word(N) + Bit(N) BY <1>1, DivMod
  <2>2. QED BY <1>1, <2>1 DEF L0Count, Word, Bit
<1>3. L0Count # 0 BY <1>1, <1>2
<1>4. L1Count \in Nat
  <2>1. W * W \in Nat \ {0} OBVIOUS
  <2>2. PICK m \in Nat : m = N + W * W - 1 BY <1>1, <2>1
  <2>3. PICK d \in Nat \ {0} : d = W * W BY <2>1
  <2>4. m \div d \in Nat BY <2>2, <2>3
  <2>5. QED BY <2>2, <2>3, <2>4 DEF L1Count
<1>5. QED BY <1>1, <1>2, <1>3, <1>4

\* A word of l0 has its bit in l1.
LEMMA WordHasSummary ==
    ASSUME N \in Capacities, NEW w \in 0 .. L0Count - 1
    PROVE  /\ Word(w) \in 0 .. L1Count - 1
           /\ Bit(w) \in Bits
           /\ w = W * Word(w) + Bit(w)
<1>1. w \in Nat /\ L0Count \in Nat BY WordCounts
<1>2. Word(w) \in Nat /\ Bit(w) \in Bits /\ w = W * Word(w) + Bit(w) BY <1>1, DivMod
<1>3. Word(w) < L1Count
  <2>1. PICK q \in Nat : q = Word(w) BY <1>2
  <2>2. W * q <= w BY <1>1, <1>2, <2>1 DEF Bits
  <2>3. W * (W * q) + W <= N
    <3>1. w + 1 <= L0Count BY <1>1
    <3>2. PICK p \in Nat : p = W * q BY <2>1
    <3>3. PICK r \in Nat : r = L0Count BY <1>1
    <3>4. p + 1 <= r BY <3>1, <2>2, <1>1, <3>2, <3>3
    <3>6. W * (p + 1) <= W * r BY <3>4
    <3>5. QED BY <3>2, <3>3, <3>6, WordCounts
  <2>4. PICK d \in Nat \ {0} : d = W * W OBVIOUS
  <2>5. d * q = W * (W * q)
    <3>1. (W * W) * q = W * (W * q) BY <2>1
    <3>2. QED BY <3>1, <2>4
  <2>6. PICK m \in Nat : m = N + W * W - 1
    <3>1. N + d - 1 \in Nat BY WordCounts
    <3>2. QED BY <3>1, <2>4
  <2>7. d * (q + 1) <= m BY <2>1, <2>3, <2>4, <2>5, <2>6, WordCounts
  <2>8. q + 1 <= m \div d BY <2>1, <2>4, <2>6, <2>7
  <2>9. QED BY <2>1, <2>4, <2>6, <2>8, WordCounts DEF L1Count
<1>4. QED BY <1>2, <1>3, WordCounts

\* A slot has its bit in l0, and a bit of l0 is a slot.
LEMMA SlotHasBit ==
    ASSUME N \in Capacities, NEW x \in Slots
    PROVE  /\ Word(x) \in 0 .. L0Count - 1
           /\ Bit(x) \in Bits
           /\ x = W * Word(x) + Bit(x)
<1>1. x \in Nat /\ x < N BY WordCounts DEF Slots
<1>2. Word(x) \in Nat /\ Bit(x) \in Bits /\ x = W * Word(x) + Bit(x) BY <1>1, DivMod
<1>3. Word(x) < L0Count
  <2>1. PICK q \in Nat, b \in Bits, r \in Nat : q = Word(x) /\ b = Bit(x) /\ r = L0Count
    BY <1>2, WordCounts
  <2>2. W * q + b < W * r BY <1>1, <1>2, <2>1, WordCounts
  <2>3. b \in Nat BY DEF Bits
  <2>4. ~ (r <= q)
    <3>1. r <= q => W * r <= W * q OBVIOUS
    <3>2. W * r \in Nat /\ W * q \in Nat OBVIOUS
    <3>3. QED BY <2>2, <2>3, <3>1, <3>2
  <2>5. QED BY <2>1, <2>4
<1>4. QED BY <1>2, <1>3, WordCounts

LEMMA BitIsSlot ==
    ASSUME N \in Capacities, NEW w \in 0 .. L0Count - 1, NEW b \in Bits
    PROVE  /\ w * W + b \in Slots
           /\ Word(w * W + b) = w
           /\ Bit(w * W + b) = b
<1>1. w \in Nat /\ w < L0Count /\ L0Count \in Nat BY WordCounts
<1>2. w * W = W * w BY <1>1
<1>3. /\ W * w + b \in Nat
      /\ Word(W * w + b) = w
      /\ Bit(W * w + b) = b
  BY <1>1, Unique
<1>4. W * w + b < N BY <1>1, Bound, WordCounts
<1>5. QED BY <1>2, <1>3, <1>4, WordCounts DEF Slots

-----------------------------------------------------------------------------
(* The invariant: TypeOK and SummaryExact, from which an allocation can    *)
(* trust l1.                                                               *)

Inv == TypeOK /\ SummaryExact

\* What SummaryExact says of one word.
LEMMA SummaryOfWord ==
    ASSUME Inv, NEW w \in 0 .. L0Count - 1
    PROVE  Bit(w) \in l1[Word(w)] <=> IsFull(l0[w])
<1>1. N \in Capacities BY DEF Inv, TypeOK
<1>2. /\ Word(w) \in 0 .. L1Count - 1
      /\ Bit(w) \in Bits
      /\ w = W * Word(w) + Bit(w)
  BY <1>1, WordHasSummary
<1>3. l1[Word(w)] = {b \in Bits : W * Word(w) + b < L0Count /\ IsFull(l0[W * Word(w) + b])}
  BY <1>2 DEF Inv, SummaryExact
<1>4. w < L0Count BY <1>1, WordCounts
<1>5. QED BY <1>2, <1>3, <1>4

\* A word that is full has no free slot, and one that is not full has one.
LEMMA FullWords ==
    ASSUME TypeOK, \A w \in 0 .. L0Count - 1 : IsFull(l0[w])
    PROVE  Used = Slots
<1>1. N \in Capacities BY DEF TypeOK
<1>2. ASSUME NEW x \in Slots PROVE Check1(x)
  <2>1. Word(x) \in 0 .. L0Count - 1 /\ Bit(x) \in Bits BY <1>1, SlotHasBit
  <2>2. l0[Word(x)] = Bits BY <2>1 DEF IsFull
  <2>3. QED BY <2>1, <2>2 DEF Check1
<1>3. QED BY <1>2 DEF Used

\* FindWord takes the lowest bit that is 0 in word i of l1, the first that has
\* one.
FindsIn(i) == /\ ~IsFull(l1[i])
              /\ \A k \in 0 .. i - 1 : IsFull(l1[k])
              /\ FindWord = W * i + LowestFree(l1[i])

LEMMA FindWordFinds ==
    ASSUME L1Count \in Nat, ~ (N <= W), \E i \in 0 .. L1Count - 1 : ~IsFull(l1[i])
    PROVE  \E i \in 0 .. L1Count - 1 : FindsIn(i)
<1> DEFINE Open == {i \in 0 .. L1Count - 1 : ~IsFull(l1[i])}
<1>1. PICK i \in Open : \A j \in Open : i <= j
  <2>1. Open \subseteq Nat /\ Open # {} OBVIOUS
  <2>2. QED BY <2>1, Least
<1>2. ASSUME NEW k \in 0 .. i - 1 PROVE IsFull(l1[k])
  <2>1. k \in 0 .. L1Count - 1 /\ ~ (i <= k) BY <1>1
  <2>2. QED BY <1>1, <2>1
<1>3. \E j \in 0 .. L1Count - 1 :
        ~IsFull(l1[j]) /\ \A k \in 0 .. j - 1 : IsFull(l1[k])
  BY <1>1, <1>2
<1>4. QED BY <1>3 DEF FindsIn, FindWord

\* Every word before the one FindWord finds is full, and so are all when it
\* finds none.
LEMMA FindWordIsFirst ==
    ASSUME Inv
    PROVE  \/ FindWord = -1 /\ \A w \in 0 .. L0Count - 1 : IsFull(l0[w])
           \/ /\ FindWord \in Nat
              /\ \A w \in 0 .. L0Count - 1 : w < FindWord => IsFull(l0[w])
<1>1. /\ N \in Capacities
      /\ l1 \in [0 .. L1Count - 1 -> SUBSET Bits]
  BY DEF Inv, TypeOK
<1>2. L0Count \in Nat \ {0} /\ L1Count \in Nat BY <1>1, WordCounts
<1>3. CASE N <= W
  <2>1. FindWord = 0 BY <1>3 DEF FindWord
  <2>2. QED BY <2>1, <1>2
<1>4. CASE ~ (N <= W) /\ \A i \in 0 .. L1Count - 1 : IsFull(l1[i])
  <2>1. FindWord = -1 BY <1>4 DEF FindWord
  <2>2. ASSUME NEW w \in 0 .. L0Count - 1 PROVE IsFull(l0[w])
    <3>1. Word(w) \in 0 .. L1Count - 1 /\ Bit(w) \in Bits BY <1>1, WordHasSummary
    <3>2. Bit(w) \in l1[Word(w)] BY <3>1, <1>4 DEF IsFull
    <3>3. QED BY <3>2, SummaryOfWord
  <2>3. QED BY <2>1, <2>2
<1>5. CASE ~ (N <= W) /\ \E i \in 0 .. L1Count - 1 : ~IsFull(l1[i])
  <2>3. PICK i \in 0 .. L1Count - 1 : FindsIn(i) BY <1>2, <1>5, FindWordFinds
  <2>4. /\ LowestFree(l1[i]) \in Bits
        /\ \A c \in Bits : c < LowestFree(l1[i]) => c \in l1[i]
    BY <1>1, <2>3, LowestFreeIsLowest DEF FindsIn
  <2>5. PICK b \in Bits : b = LowestFree(l1[i]) BY <2>4
  <2>6. i \in Nat /\ b \in 0 .. W - 1 BY <1>2 DEF Bits
  <2>7. FindWord \in Nat
    <3>1. W * i \in Nat BY <2>6
    <3>2. QED BY <2>3, <2>5, <2>6, <3>1 DEF FindsIn
  <2>8. ASSUME NEW w \in 0 .. L0Count - 1, w < FindWord PROVE IsFull(l0[w])
    <3>1. /\ Word(w) \in 0 .. L1Count - 1 /\ Bit(w) \in Bits
          /\ w = W * Word(w) + Bit(w)
      BY <1>1, WordHasSummary
    <3>2. PICK q \in Nat, c \in 0 .. W - 1 : q = Word(w) /\ c = Bit(w)
      BY <3>1, <1>2 DEF Bits
    <3>3. W * q + c < W * i + b BY <2>3, <2>5, <2>8, <3>1, <3>2 DEF FindsIn
    <3>4. q <= i
      <4>1. i < q => W * (i + 1) <= W * q BY <2>6
      <4>2. i < q => W * i + b < W * q BY <4>1, <2>6
      <4>3. W * q \in Nat /\ W * i \in Nat BY <2>6
      <4>4. QED BY <3>3, <4>2, <4>3, <2>6
    <3>5. CASE q < i
      <4>1. IsFull(l1[q]) BY <3>5, <2>3, <2>6 DEF FindsIn
      <4>2. Bit(w) \in l1[Word(w)] BY <3>1, <3>2, <4>1 DEF IsFull
      <4>3. QED BY <4>2, SummaryOfWord
    <3>6. CASE q = i
      <4>1. W * i \in Nat BY <2>6
      <4>2. c < b BY <3>3, <3>6, <4>1, <2>6
      <4>3. Bit(w) \in l1[Word(w)] BY <2>4, <2>5, <3>1, <3>2, <3>6, <4>2
      <4>4. QED BY <4>3, SummaryOfWord
    <3>7. QED BY <3>4, <3>5, <3>6, <2>6
  <2>9. QED BY <2>7, <2>8
<1>6. QED BY <1>3, <1>4, <1>5

\* A word that FindWord finds in the pool is not full, unless the pool has
\* but one.
LEMMA FoundWordHasRoom ==
    ASSUME Inv, FindWord \in 0 .. L0Count - 1, N > W
    PROVE  ~IsFull(l0[FindWord])
<1>1. /\ N \in Capacities
      /\ l1 \in [0 .. L1Count - 1 -> SUBSET Bits]
  BY DEF Inv, TypeOK
<1>2. W \in Nat /\ N \in Nat BY <1>1, WordCounts
<1>3. \E i \in 0 .. L1Count - 1 : ~IsFull(l1[i])
  <2>1. FindWord # -1 BY <1>1, WordCounts
  <2>2. QED BY <2>1, <1>2 DEF FindWord
<1>4. L1Count \in Nat /\ ~ (N <= W) BY <1>1, <1>2, WordCounts
<1>5. PICK i \in 0 .. L1Count - 1 : FindsIn(i) BY <1>3, <1>4, FindWordFinds
<1>6. LowestFree(l1[i]) \in Bits \ l1[i] BY <1>1, <1>5, LowestFreeIsLowest DEF FindsIn
<1>7. i \in Nat BY <1>1, WordCounts
<1>8. Word(FindWord) = i /\ Bit(FindWord) = LowestFree(l1[i]) BY <1>5, <1>6, <1>7, Unique DEF FindsIn
<1>9. QED BY <1>6, <1>8, SummaryOfWord

\* BIT_POOL_FIND_0 finds a free slot, unless there is none.
LEMMA Find0IsFree ==
    ASSUME Inv
    PROVE  \/ Find0 \in Slots /\ ~Check1(Find0)
           \/ Find0 = -1 /\ Used = Slots
<1>1. /\ N \in Capacities
      /\ l0 \in [0 .. L0Count - 1 -> SUBSET Bits]
      /\ TypeOK
  BY DEF Inv, TypeOK
<1>2. L0Count \in Nat \ {0} /\ N = W * L0Count /\ N \in Nat BY <1>1, WordCounts
<1>3. CASE FindWord = -1 \/ FindWord >= L0Count
  <2>1. \A w \in 0 .. L0Count - 1 : IsFull(l0[w]) BY <1>2, <1>3, FindWordIsFirst
  <2>2. Find0 = -1 BY <1>3 DEF Find0
  <2>3. QED BY <1>1, <2>1, <2>2, FullWords
<1>4. CASE ~ (FindWord = -1 \/ FindWord >= L0Count) /\ IsFull(l0[FindWord])
  <2>1. FindWord \in 0 .. L0Count - 1 BY <1>2, <1>4, FindWordIsFirst
  <2>2. N <= W BY <1>2, <1>4, <2>1, FoundWordHasRoom
  <2>3. L0Count = 1
    <3>1. PICK r \in Nat \ {0} : r = L0Count BY <1>2
    <3>2. r > 1 => W * r > W BY <3>1
    <3>3. QED BY <1>2, <2>2, <3>1, <3>2
  <2>4. \A w \in 0 .. L0Count - 1 : IsFull(l0[w]) BY <1>4, <2>1, <2>3
  <2>5. Find0 = -1 BY <1>4 DEF Find0
  <2>6. QED BY <1>1, <2>4, <2>5, FullWords
<1>5. CASE ~ (FindWord = -1 \/ FindWord >= L0Count) /\ ~IsFull(l0[FindWord])
  <2>1. PICK w \in 0 .. L0Count - 1 : w = FindWord BY <1>2, <1>5, FindWordIsFirst
  <2>2. LowestFree(l0[w]) \in Bits \ l0[w] BY <1>1, <1>5, <2>1, LowestFreeIsLowest
  <2>3. PICK b \in Bits : b = LowestFree(l0[w]) /\ b \notin l0[w] BY <2>2
  <2>4. Find0 = w * W + b BY <1>5, <2>1, <2>3 DEF Find0
  <2>5. Find0 \in Slots /\ Word(Find0) = w /\ Bit(Find0) = b BY <1>1, <2>4, BitIsSlot
  <2>6. QED BY <2>3, <2>5 DEF Check1
<1>6. QED BY <1>3, <1>4, <1>5

-----------------------------------------------------------------------------
(* Setting and clearing a bit keeps the levels in step.                    *)

Levels == /\ N \in Capacities
          /\ l1 \in [0 .. L1Count - 1 -> SUBSET Bits]
          /\ l0 \in [0 .. L0Count - 1 -> SUBSET Bits]

\* SummaryExact, bit by bit.
BitExact(i, b) == b \in l1[i] <=> (W * i + b < L0Count /\ IsFull(l0[W * i + b]))

LEMMA SummaryByBit ==
    ASSUME Levels
    PROVE  SummaryExact <=> \A i \in 0 .. L1Count - 1, b \in Bits : BitExact(i, b)
<1>1. \A i \in 0 .. L1Count - 1 : l1[i] \subseteq Bits BY DEF Levels
<1>2. QED BY <1>1 DEF SummaryExact, BitExact

\* A step that gives word w of l0 a new value, and its bit of l1 the value that
\* goes with it, keeps the summary exact.
LEMMA OneWord ==
    ASSUME Levels, SummaryExact, N' = N,
           NEW w \in 0 .. L0Count - 1, NEW word \in SUBSET Bits,
           l0' = [l0 EXCEPT ![w] = word],
           l1' \in [0 .. L1Count - 1 -> SUBSET Bits],
           \A i \in 0 .. L1Count - 1, b \in Bits :
               ~ (i = Word(w) /\ b = Bit(w)) => (b \in l1'[i] <=> b \in l1[i]),
           Bit(w) \in l1'[Word(w)] <=> IsFull(word)
    PROVE  Levels' /\ SummaryExact'
<1>1. N \in Capacities /\ l0 \in [0 .. L0Count - 1 -> SUBSET Bits] BY DEF Levels
<1>2. L0Count' = L0Count /\ L1Count' = L1Count BY DEF L0Count, L1Count
<1>3. Levels' BY <1>1, <1>2 DEF Levels
<1>4. ASSUME NEW i \in 0 .. L1Count - 1, NEW b \in Bits
      PROVE  b \in l1'[i] <=> (W * i + b < L0Count /\ IsFull(l0'[W * i + b]))
  <2>1. BitExact(i, b) BY SummaryByBit
  <2>2. L1Count \in Nat /\ L0Count \in Nat BY <1>1, WordCounts
  <2>3. i \in Nat BY <2>2
  <2>4. W * i + b \in Nat /\ Word(W * i + b) = i /\ Bit(W * i + b) = b BY <2>3, Unique
  <2>5. CASE W * i + b = w
    <3>1. i = Word(w) /\ b = Bit(w) BY <2>4, <2>5
    <3>2. l0'[w] = word /\ w < L0Count BY <1>1, <2>2
    <3>3. QED BY <2>5, <3>1, <3>2
  <2>6. CASE W * i + b # w
    <3>1. w = W * Word(w) + Bit(w) BY <1>1, WordHasSummary
    <3>2. ~ (i = Word(w) /\ b = Bit(w)) BY <2>6, <3>1
    <3>3. b \in l1'[i] <=> b \in l1[i] BY <3>2
    <3>4. W * i + b < L0Count => l0'[W * i + b] = l0[W * i + b]
      <4>1. W * i + b < L0Count => W * i + b \in 0 .. L0Count - 1 BY <2>2, <2>4
      <4>2. QED BY <1>1, <2>6, <4>1
    <3>5. QED BY <2>1, <3>3, <3>4 DEF BitExact
  <2>7. QED BY <2>5, <2>6
<1>5. SummaryExact'
  <2>1. \A i \in 0 .. L1Count - 1 : l1'[i] \subseteq Bits OBVIOUS
  <2>2. QED BY <1>2, <1>4, <2>1 DEF SummaryExact, IsFull, Bits
<1>6. QED BY <1>3, <1>5

\* What l0 says after word w of it has got the value word.
LEMMA BitsAfter ==
    ASSUME Levels, N' = N,
           NEW w \in 0 .. L0Count - 1, NEW word \in SUBSET Bits,
           l0' = [l0 EXCEPT ![w] = word]
    PROVE  \A y \in Slots :
               Check1(y)' <=> IF Word(y) = w THEN Bit(y) \in word ELSE Check1(y)
<1>1. ASSUME NEW y \in Slots
      PROVE  Bit(y) \in l0'[Word(y)] <=>
                 IF Word(y) = w THEN Bit(y) \in word ELSE Bit(y) \in l0[Word(y)]
  <2>1. Word(y) \in 0 .. L0Count - 1 BY SlotHasBit DEF Levels
  <2>2. l0 \in [0 .. L0Count - 1 -> SUBSET Bits] BY DEF Levels
  <2>3. l0'[Word(y)] = IF Word(y) = w THEN word ELSE l0[Word(y)] BY <2>1, <2>2
  <2>4. QED BY <2>3
<1>2. QED BY <1>1 DEF Check1, Word, Bit

LEMMA SlotIsItsBit ==
    ASSUME N \in Capacities, NEW x \in Slots, NEW y \in Slots
    PROVE  x = y <=> (Word(x) = Word(y) /\ Bit(x) = Bit(y))
  BY SlotHasBit

\* BIT_POOL_SET_1 adds one slot to those in use, and keeps the invariant.
LEMMA Set1Keeps ==
    ASSUME Levels, SummaryExact, N' = N, NEW x \in Slots, Set1(x)
    PROVE  Levels' /\ SummaryExact' /\ Used' = Used \cup {x}
<1> DEFINE w == Word(x)
           word == l0[w] \cup {Bit(x)}
<1>1. N \in Capacities /\ l0 \in [0 .. L0Count - 1 -> SUBSET Bits]
      /\ l1 \in [0 .. L1Count - 1 -> SUBSET Bits]
  BY DEF Levels
<1>2. w \in 0 .. L0Count - 1 /\ Bit(x) \in Bits BY <1>1, SlotHasBit
<1>3. word \in SUBSET Bits BY <1>1, <1>2
<1>4. Word(w) \in 0 .. L1Count - 1 /\ Bit(w) \in Bits /\ w = W * Word(w) + Bit(w)
  BY <1>1, <1>2, WordHasSummary
<1>5. l0' = [l0 EXCEPT ![w] = word]
  <2>1. l0' = [l0 EXCEPT ![Word(x)] = l0[Word(x)] \cup {Bit(x)}] BY DEF Set1
  <2>2. QED BY <2>1
<1>6. l1' = IF IsFull(word)
            THEN [l1 EXCEPT ![Word(w)] = l1[Word(w)] \cup {Bit(w)}] ELSE l1
  BY DEF Set1
<1>7. l1' \in [0 .. L1Count - 1 -> SUBSET Bits] BY <1>1, <1>4, <1>6
<1>8. \A i \in 0 .. L1Count - 1, b \in Bits :
          ~ (i = Word(w) /\ b = Bit(w)) => (b \in l1'[i] <=> b \in l1[i])
  BY <1>1, <1>4, <1>6
<1>9. Bit(w) \in l1'[Word(w)] <=> IsFull(word)
  <2>1. CASE IsFull(word) BY <1>1, <1>4, <1>6, <2>1
  <2>2. CASE ~IsFull(word)
    <3>1. l0[w] \subseteq word /\ word \subseteq Bits BY <1>3
    <3>2. ~IsFull(l0[w]) BY <2>2, <3>1 DEF IsFull
    <3>3. BitExact(Word(w), Bit(w)) BY <1>4, SummaryByBit
    <3>4. ~ (Bit(w) \in l1[Word(w)]) BY <1>4, <3>2, <3>3 DEF BitExact
    <3>5. QED BY <1>6, <2>2, <3>4
  <2>3. QED BY <2>1, <2>2
<1>10. Levels' /\ SummaryExact'
  <2> HIDE DEF w, word
  <2>1. QED BY <1>2, <1>3, <1>5, <1>7, <1>8, <1>9, OneWord
<1>11. \A y \in Slots : Check1(y)' <=> (Check1(y) \/ y = x)
  <2>1. \A y \in Slots :
            Check1(y)' <=> IF Word(y) = w THEN Bit(y) \in word ELSE Check1(y)
    <3> HIDE DEF w, word
    <3>1. QED BY <1>2, <1>3, <1>5, BitsAfter
  <2>2. ASSUME NEW y \in Slots PROVE Check1(y)' <=> (Check1(y) \/ y = x)
    <3>1. y = x <=> (Word(y) = w /\ Bit(y) = Bit(x)) BY <1>1, SlotIsItsBit
    <3>2. QED BY <2>1, <3>1 DEF Check1
  <2>3. QED BY <2>2
<1>12. Slots' = Slots BY DEF Slots
<1>13. Used' = {y \in Slots : Check1(y)'} BY <1>12 DEF Used
<1>14. QED BY <1>10, <1>11, <1>13 DEF Used

\* BIT_POOL_SET_0 takes one slot from those in use, and keeps the invariant.
LEMMA Set0Keeps ==
    ASSUME Levels, SummaryExact, N' = N, NEW x \in Slots, Set0(x)
    PROVE  Levels' /\ SummaryExact' /\ Used' = Used \ {x}
<1> DEFINE w == Word(x)
           word == l0[w] \ {Bit(x)}
<1>1. N \in Capacities /\ l0 \in [0 .. L0Count - 1 -> SUBSET Bits]
      /\ l1 \in [0 .. L1Count - 1 -> SUBSET Bits]
  BY DEF Levels
<1>2. w \in 0 .. L0Count - 1 /\ Bit(x) \in Bits BY <1>1, SlotHasBit
<1>3. word \in SUBSET Bits BY <1>1, <1>2
<1>4. Word(w) \in 0 .. L1Count - 1 /\ Bit(w) \in Bits BY <1>1, <1>2, WordHasSummary
<1>5. l0' = [l0 EXCEPT ![w] = word]
  <2>1. l0' = [l0 EXCEPT ![Word(x)] = l0[Word(x)] \ {Bit(x)}] BY DEF Set0
  <2>2. QED BY <2>1
<1>6. l1' = [l1 EXCEPT ![Word(w)] = l1[Word(w)] \ {Bit(w)}] BY DEF Set0
<1>7. l1' \in [0 .. L1Count - 1 -> SUBSET Bits] BY <1>1, <1>4, <1>6
<1>8. \A i \in 0 .. L1Count - 1, b \in Bits :
          ~ (i = Word(w) /\ b = Bit(w)) => (b \in l1'[i] <=> b \in l1[i])
  BY <1>1, <1>4, <1>6
<1>9. Bit(w) \in l1'[Word(w)] <=> IsFull(word)
  <2>1. ~ (Bit(w) \in l1'[Word(w)]) BY <1>1, <1>4, <1>6
  <2>2. ~IsFull(word) BY <1>2 DEF IsFull
  <2>3. QED BY <2>1, <2>2
<1>10. Levels' /\ SummaryExact'
  <2> HIDE DEF w, word
  <2>1. QED BY <1>2, <1>3, <1>5, <1>7, <1>8, <1>9, OneWord
<1>11. \A y \in Slots : Check1(y)' <=> (Check1(y) /\ y # x)
  <2>1. \A y \in Slots :
            Check1(y)' <=> IF Word(y) = w THEN Bit(y) \in word ELSE Check1(y)
    <3> HIDE DEF w, word
    <3>1. QED BY <1>2, <1>3, <1>5, BitsAfter
  <2>2. ASSUME NEW y \in Slots PROVE Check1(y)' <=> (Check1(y) /\ y # x)
    <3>1. y = x <=> (Word(y) = w /\ Bit(y) = Bit(x)) BY <1>1, SlotIsItsBit
    <3>2. QED BY <2>1, <3>1 DEF Check1
  <2>3. QED BY <2>2
<1>12. Slots' = Slots BY DEF Slots
<1>13. Used' = {y \in Slots : Check1(y)'} BY <1>12 DEF Used
<1>14. QED BY <1>10, <1>11, <1>13 DEF Used

-----------------------------------------------------------------------------
(* The invariant, and the refinement.                                      *)

LEMMA InitInv == Init => Inv /\ Used = {}
<1> SUFFICES ASSUME Init PROVE Inv /\ Used = {} OBVIOUS
<1>1. N \in Capacities BY DEF Init
<1>2. L0Count \in Nat \ {0} /\ L1Count \in Nat BY <1>1, WordCounts
<1>3. TypeOK BY <1>1 DEF Init, TypeOK
<1>4. \A w \in 0 .. L0Count - 1 : ~IsFull(l0[w])
  <2>1. 0 \in Bits BY DEF Bits
  <2>2. QED BY <2>1 DEF Init, IsFull
<1>5. SummaryExact
  <2>1. ASSUME NEW i \in 0 .. L1Count - 1, NEW b \in Bits PROVE BitExact(i, b)
    <3>1. i \in Nat BY <1>2
    <3>2. W * i + b \in Nat BY <3>1, Unique
    <3>3. l1[i] = {} BY DEF Init
    <3>4. W * i + b < L0Count => W * i + b \in 0 .. L0Count - 1 BY <1>2, <3>2
    <3>5. QED BY <1>4, <3>3, <3>4 DEF BitExact
  <2>2. Levels BY <1>3 DEF TypeOK, Levels
  <2>3. QED BY <2>1, <2>2, SummaryByBit
<1>6. Used = {}
  <2>1. ASSUME NEW x \in Slots PROVE ~Check1(x)
    <3>1. Word(x) \in 0 .. L0Count - 1 BY <1>1, SlotHasBit
    <3>2. l0[Word(x)] = {} BY <3>1 DEF Init
    <3>3. QED BY <3>2 DEF Check1
  <2>2. QED BY <2>1 DEF Used
<1>7. QED BY <1>3, <1>5, <1>6 DEF Inv

LEMMA InvIsLevels == Inv <=> Levels /\ SummaryExact /\ index \in Slots \cup {-1}
  BY DEF Inv, TypeOK, Levels

\* Every operation keeps the invariant, and is the one of SlotPool.
LEMMA StepInv ==
    Inv /\ [Next]_vars => Inv' /\ [SP!Next]_<<N, Used, index>>
<1> SUFFICES ASSUME Inv, [Next]_vars
             PROVE  Inv' /\ [SP!Next]_<<N, Used, index>>
  OBVIOUS
<1>1. Levels /\ SummaryExact /\ index \in Slots \cup {-1} BY InvIsLevels
<1>2. N' = N => Slots' = Slots BY DEF Slots
<1>3. SP!Slots = Slots BY DEF SP!Slots, Slots
<1>4. N \in Nat \ {0} BY <1>1, WordCounts DEF Levels
<1>5. CASE Alloc
  <2>1. N' = N /\ index' = Find0 BY <1>5 DEF Alloc
  <2>2. CASE Find0 \in Slots /\ ~Check1(Find0)
    <3>1. PICK x \in Slots : x = Find0 BY <2>2
    <3>2. x # -1 BY <1>4 DEF Slots
    <3>3. Set1(x) BY <1>5, <2>1, <3>1, <3>2 DEF Alloc
    <3>4. Levels' /\ SummaryExact' /\ Used' = Used \cup {x}
      BY <1>1, <2>1, <3>3, Set1Keeps
    <3>5. Inv'
      <4>1. index' \in Slots' \cup {-1} BY <1>2, <2>1, <3>1
      <4>2. QED BY <3>4, <4>1 DEF Inv, TypeOK, Levels
    <3>6. x \in SP!Slots \ Used BY <1>3, <2>2, <3>1 DEF Used
    <3>7. SP!Alloc BY <2>1, <3>1, <3>4, <3>6 DEF SP!Alloc
    <3>8. QED BY <3>5, <3>7 DEF SP!Next
  <2>3. CASE Find0 = -1 /\ Used = Slots
    <3>1. UNCHANGED <<l1, l0>> BY <1>5, <2>1, <2>3 DEF Alloc
    <3>2. L0Count' = L0Count /\ L1Count' = L1Count BY <2>1 DEF L0Count, L1Count
    <3>3. Levels' /\ SummaryExact'
      BY <1>1, <2>1, <3>1, <3>2 DEF Levels, SummaryExact, IsFull, Bits
    <3>4. Inv'
      <4>1. index' \in Slots' \cup {-1} BY <2>1, <2>3
      <4>2. QED BY <3>3, <4>1 DEF Inv, TypeOK, Levels
    <3>5. Used' = Used
      BY <1>2, <2>1, <3>1 DEF Used, Check1, Word, Bit
    <3>6. SP!Alloc BY <1>3, <2>1, <2>3, <3>5 DEF SP!Alloc
    <3>7. QED BY <3>4, <3>6 DEF SP!Next
  <2>4. QED BY <2>2, <2>3, Find0IsFree
<1>6. ASSUME NEW x \in Slots, Claim(x)
      PROVE  Inv' /\ [SP!Next]_<<N, Used, index>>
  <2>1. N' = N /\ index' = index /\ Set1(x) BY <1>6 DEF Claim
  <2>2. Levels' /\ SummaryExact' /\ Used' = Used \cup {x} BY <1>1, <2>1, Set1Keeps
  <2>3. index' \in Slots' \cup {-1} BY <1>1, <1>2, <2>1
  <2>4. Inv' BY <2>2, <2>3 DEF Inv, TypeOK, Levels
  <2>5. SP!Claim(x) BY <2>1, <2>2 DEF SP!Claim
  <2>6. QED BY <1>3, <2>4, <2>5 DEF SP!Next
<1>7. ASSUME NEW x \in Slots, Release(x)
      PROVE  Inv' /\ [SP!Next]_<<N, Used, index>>
  <2>1. N' = N /\ index' = index /\ Set0(x) BY <1>7 DEF Release
  <2>2. Levels' /\ SummaryExact' /\ Used' = Used \ {x} BY <1>1, <2>1, Set0Keeps
  <2>3. index' \in Slots' \cup {-1} BY <1>1, <1>2, <2>1
  <2>4. Inv' BY <2>2, <2>3 DEF Inv, TypeOK, Levels
  <2>5. SP!Release(x) BY <2>1, <2>2 DEF SP!Release
  <2>6. QED BY <1>3, <2>4, <2>5 DEF SP!Next
<1>8. CASE UNCHANGED vars
  <2>1. N' = N /\ l1' = l1 /\ l0' = l0 /\ index' = index BY <1>8 DEF vars
  <2>2. L0Count' = L0Count /\ L1Count' = L1Count BY <2>1 DEF L0Count, L1Count
  <2>3. Levels' /\ SummaryExact'
    BY <1>1, <2>1, <2>2 DEF Levels, SummaryExact, IsFull, Bits
  <2>4. index' \in Slots' \cup {-1} BY <1>1, <1>2, <2>1
  <2>5. Used' = Used BY <1>2, <2>1 DEF Used, Check1, Word, Bit
  <2>6. QED BY <2>1, <2>3, <2>4, <2>5 DEF Inv, TypeOK, Levels
<1>9. QED BY <1>5, <1>6, <1>7, <1>8 DEF Next

\* The pool is well formed in every state, whatever the length of a word and
\* the number of slots.
THEOREM TypeCorrect == Spec => []TypeOK
<1>1. Inv /\ [Next]_vars => Inv' BY StepInv
<1>2. Init => Inv BY InitInv
<1>3. Inv => TypeOK BY DEF Inv
<1>4. QED BY <1>1, <1>2, <1>3, PTL DEF Spec

\* A word of slots is marked full if and only if it is full, after any
\* sequence of BIT_POOL_SET_1 and BIT_POOL_SET_0.
THEOREM SummaryCorrect == Spec => []SummaryExact
<1>1. Inv /\ [Next]_vars => Inv' BY StepInv
<1>2. Init => Inv BY InitInv
<1>3. Inv => SummaryExact BY DEF Inv
<1>4. QED BY <1>1, <1>2, <1>3, PTL DEF Spec

\* The two levels implement one set of slots: BIT_POOL_ALLOC gives out a free
\* slot, and none only when none is free.
THEOREM Refinement == Spec => ImplementsSlotPool
<1>1. Inv /\ [Next]_vars => Inv' BY StepInv
<1>2. Init => Inv BY InitInv
<1>3. Init => SP!Init BY InitInv DEF Init, SP!Init
<1>4. Inv /\ [Next]_vars => [SP!Next]_<<N, Used, index>> BY StepInv
<1>5. QED BY <1>1, <1>2, <1>3, <1>4, PTL DEF Spec, ImplementsSlotPool, SP!Spec
=============================================================================
