---------------------------- MODULE BumpBlock_proof ----------------------------
(***************************************************************************)
(* What the arithmetic of BumpBlock keeps true of a block of memory and of *)
(* the allocations in it, whoever uses it: a region_t, or a region_t with  *)
(* an annex.  All of it is about operators; no module's state is involved. *)
(***************************************************************************)
EXTENDS BumpBlock, Sequences, TLAPS

\* Blocks of cap bytes.
Blocks(cap) == [size : 0 .. cap, capacity : {cap}, mem : [0 .. cap - 1 -> Nat]]

\* The bytes of the allocation at p, header included.
From(p)    == p - HeaderSize
Past(b, p) == p + BufferSize(b, p)

\* The allocations at S lie apart in the used part of b, at aligned addresses.
Laid(b, S) ==
    /\ S \subseteq HeaderSize .. b.capacity
    /\ \A p \in S : Past(b, p) <= b.size
    /\ \A p, q \in S : p < q => Past(b, p) <= From(q)
    /\ \A p \in S : From(p) % MaxAlign = 0

\* The allocations of b at S have the same bytes in c.
Untouched(b, c, S) ==
    \A p \in S : \A a \in From(p) .. Past(b, p) - 1 : c.mem[a] = b.mem[a]

-----------------------------------------------------------------------------
(* Layouts.                                                                *)

\* The padding makes an address a multiple of the alignment, and a multiple of
\* the alignment needs none.
LEMMA LossProperties ==
  ASSUME NEW n \in Nat
  PROVE  /\ AlignmentLoss(n) \in Nat
         /\ (n + AlignmentLoss(n)) % MaxAlign = 0
         /\ n % MaxAlign = 0 => AlignmentLoss(n) = 0
<1> USE BumpAssumption
<1>1. n % MaxAlign \in 0 .. MaxAlign - 1
  OBVIOUS
<1>2. AlignmentLoss(n) \in Nat
  BY <1>1 DEF AlignmentLoss
<1>3. CASE n % MaxAlign = 0
  BY <1>3, n + 0 = n DEF AlignmentLoss
<1>4. CASE n % MaxAlign # 0
  <2>1. PICK k \in Nat : k = n \div MaxAlign
    OBVIOUS
  <2>2. n = MaxAlign * k + (n % MaxAlign)
    BY <2>1
  <2>3. n + AlignmentLoss(n) = MaxAlign * (k + 1)
    BY <2>1, <2>2, <1>1, <1>4 DEF AlignmentLoss
  <2>4. (MaxAlign * (k + 1)) % MaxAlign = 0
    BY <2>1
  <2> QED
    BY <2>3, <2>4, <1>2, <1>4
<1> QED
  BY <1>2, <1>3, <1>4 DEF AlignmentLoss

\* The parts of a block.
LEMMA BlockParts ==
  ASSUME NEW cap \in Nat, NEW b \in Blocks(cap)
  PROVE  /\ b.size \in Nat /\ b.size <= cap /\ b.capacity = cap
         /\ b.mem \in [0 .. cap - 1 -> Nat] /\ DOMAIN b.mem = 0 .. cap - 1
         /\ b = [size |-> b.size, capacity |-> cap, mem |-> b.mem]
  BY DEF Blocks

\* An allocation of a layout: where it is, and how it lies to another.
LEMMA LaidAt ==
  ASSUME NEW cap \in Nat, NEW b \in Blocks(cap), NEW S, Laid(b, S), NEW p \in S
  PROVE  /\ p \in Nat /\ HeaderSize <= p /\ p <= cap
         /\ BufferSize(b, p) \in Nat
         /\ From(p) \in Nat /\ Past(b, p) \in Nat
         /\ From(p) < p /\ p <= Past(b, p) /\ Past(b, p) <= b.size
         /\ \A q \in S : q # p => Past(b, p) <= From(q) \/ Past(b, q) <= From(p)
<1> USE BumpAssumption
<1>1. p \in HeaderSize .. cap /\ Past(b, p) <= b.size
  BY BlockParts DEF Laid
<1>2. From(p) \in 0 .. cap - 1 /\ From(p) = p - HeaderSize
  BY <1>1 DEF From
<1>3. PICK h : h = b.mem[From(p)]
  OBVIOUS
<1>4. h \in Nat /\ BufferSize(b, p) = h
  BY <1>2, <1>3, BlockParts DEF BufferSize, From
<1>5. Past(b, p) = p + h
  BY <1>4 DEF Past
<1>6. ASSUME NEW q \in S, q # p
      PROVE  Past(b, p) <= From(q) \/ Past(b, q) <= From(p)
  <2>1. q \in Nat /\ p \in Nat
    BY <1>1, BlockParts DEF Laid
  <2>2. p < q \/ q < p
    BY <2>1, <1>6
  <2> QED
    BY <2>2 DEF Laid
<1> QED
  BY <1>1, <1>2, <1>4, <1>5, <1>6

\* A layout holds of the allocations that are left.
LEMMA LaidSubset ==
  ASSUME NEW b, NEW S, Laid(b, S), NEW T \in SUBSET S
  PROVE  Laid(b, T)
  BY DEF Laid

\* What only reads the headers and lets the used part grow keeps a layout.
LEMMA LaidStill ==
  ASSUME NEW cap \in Nat, NEW b \in Blocks(cap), NEW c \in Blocks(cap),
         NEW S, Laid(b, S),
         \A p \in S : c.mem[From(p)] = b.mem[From(p)] /\ Past(b, p) <= c.size
  PROVE  /\ Laid(c, S)
         /\ \A p \in S : BufferSize(c, p) = BufferSize(b, p) /\ Past(c, p) = Past(b, p)
<1>1. b.capacity = cap /\ c.capacity = cap
  BY BlockParts
<1>2. \A p \in S : BufferSize(c, p) = BufferSize(b, p)
  BY DEF BufferSize, From
<1>3. \A p \in S : Past(c, p) = Past(b, p)
  BY <1>2 DEF Past
<1> QED
  BY <1>1, <1>2, <1>3 DEF Laid

\* c is b but for the bytes at from .. past - 1.
DiffersIn(cap, b, c, from, past) ==
    /\ c \in Blocks(cap) /\ c.size = b.size
    /\ \A a \in 0 .. cap - 1 : a \notin from .. past - 1 => c.mem[a] = b.mem[a]

\* The allocations at S are as they were in b, but for the payload at p.
Rewritten(b, c, S, p) ==
    /\ Laid(c, S)
    /\ Untouched(b, c, S \ {p})
    /\ BufferSize(c, p) = BufferSize(b, p)

\* Writing to the payload at p changes no layout and no other allocation.
LEMMA WriteLays ==
  ASSUME NEW cap \in Nat, NEW b \in Blocks(cap), NEW c, NEW S, Laid(b, S), NEW p \in S,
         DiffersIn(cap, b, c, p, Past(b, p))
  PROVE  Rewritten(b, c, S, p)
<1> USE BumpAssumption
<1>1. b.size \in Nat /\ b.size <= cap
  BY BlockParts
<1>0. /\ c \in Blocks(cap) /\ c.size = b.size
      /\ \A a \in 0 .. cap - 1 : a \notin p .. Past(b, p) - 1 => c.mem[a] = b.mem[a]
  BY DEF DiffersIn
<1>2. ASSUME NEW x \in S PROVE c.mem[From(x)] = b.mem[From(x)]
  <2>1. /\ p \in Nat /\ x \in Nat /\ From(x) \in Nat /\ From(x) < x /\ From(p) < p
        /\ Past(b, x) \in Nat /\ x <= Past(b, x) /\ Past(b, x) <= b.size
        /\ From(p) \in Nat /\ Past(b, p) \in Nat
        /\ x # p => Past(b, p) <= From(x) \/ Past(b, x) <= From(p)
    BY LaidAt
  <2>2. From(x) \in 0 .. cap - 1
    BY <1>1, <2>1
  <2>3. From(x) \notin p .. Past(b, p) - 1
    BY <2>1
  <2> QED
    BY <2>2, <2>3, <1>0
<1>3. ASSUME NEW x \in S \ {p}, NEW a \in From(x) .. Past(b, x) - 1
      PROVE  c.mem[a] = b.mem[a]
  <2>1. /\ p \in Nat /\ From(x) \in Nat /\ From(p) < p
        /\ Past(b, x) \in Nat /\ Past(b, x) <= b.size
        /\ From(p) \in Nat /\ Past(b, p) \in Nat
        /\ Past(b, p) <= From(x) \/ Past(b, x) <= From(p)
    BY LaidAt
  <2>2. a \in 0 .. cap - 1 /\ a \notin p .. Past(b, p) - 1
    BY <1>1, <2>1
  <2> QED
    BY <2>2, <1>0
<1>4. \A x \in S : Past(b, x) <= c.size
  BY <1>0 DEF Laid
<1> QED
  BY <1>0, <1>2, <1>3, <1>4, LaidStill DEF Untouched, Rewritten

\* f is m but for the n bytes at "from", which are v.
FilledIn(cap, m, f, from, n, v) ==
    /\ f \in [0 .. cap - 1 -> Nat]
    /\ \A a \in 0 .. cap - 1 : f[a] = IF a \in from .. from + n - 1 THEN v ELSE m[a]

\* What Fill does to memory.
LEMMA FillProperties ==
  ASSUME NEW cap \in Nat, NEW m \in [0 .. cap - 1 -> Nat], NEW from, NEW n, NEW v \in Nat,
         NEW f, f = Fill(m, from, n, v)
  PROVE  FilledIn(cap, m, f, from, n, v)
<1>1. f = [a \in 0 .. cap - 1 |-> IF a \in from .. from + n - 1 THEN v ELSE m[a]]
  BY DEF Fill
<1> QED
  BY <1>1 DEF FilledIn

\* An allocation that fits lies aligned behind the used part, says its size in
\* its header, and changes nothing else.
LEMMA PlaceProperties ==
  ASSUME NEW cap \in Nat, NEW b \in Blocks(cap), NEW n \in Nat,
         b.size + AlignmentLoss(b.size) + HeaderSize + n <= cap
  PROVE  LET new == Place(b, n)
         IN  /\ new.buf = b.size + AlignmentLoss(b.size) + HeaderSize
             /\ new.buf \in Nat /\ HeaderSize <= new.buf /\ new.buf # NULL
             /\ new.buf + n <= cap
             /\ b.size <= From(new.buf) /\ From(new.buf) % MaxAlign = 0
             /\ new.block \in Blocks(cap) /\ new.block.size = new.buf + n
             /\ BufferSize(new.block, new.buf) = n
             /\ \A a \in 0 .. cap - 1 :
                   a \notin From(new.buf) .. new.buf - 1 => new.block.mem[a] = b.mem[a]
<1> DEFINE at  == b.size + AlignmentLoss(b.size)
           new == Place(b, n)
<1> USE BumpAssumption
<1>1. /\ b.size \in Nat /\ b.size <= cap /\ b.capacity = cap
      /\ b = [size |-> b.size, capacity |-> cap, mem |-> b.mem]
  BY BlockParts
<1>2. AlignmentLoss(b.size) \in Nat /\ at % MaxAlign = 0
  BY <1>1, LossProperties
<1>3. at + HeaderSize + n <= cap /\ at \in Nat /\ b.size <= at
  BY <1>1, <1>2
<1>4. new = [block |-> [b EXCEPT !.size = at + HeaderSize + n,
                                !.mem = Fill(@, at, HeaderSize, n)],
             buf |-> at + HeaderSize]
  BY DEF Place
<1> HIDE DEF at, new
<1>5. PICK m : m = Fill(b.mem, at, HeaderSize, n)
  OBVIOUS
<1>6. /\ m \in [0 .. cap - 1 -> Nat]
      /\ \A a \in 0 .. cap - 1 : m[a] = IF a \in at .. at + HeaderSize - 1 THEN n ELSE b.mem[a]
  <2>1. PICK o : o = b.mem
    OBVIOUS
  <2>2. o \in [0 .. cap - 1 -> Nat] /\ m = Fill(o, at, HeaderSize, n)
    BY <1>5, <2>1, BlockParts
  <2>3. FilledIn(cap, o, m, at, HeaderSize, n)
    BY <2>2, FillProperties
  <2> QED
    BY <2>1, <2>3 DEF FilledIn
<1>7. /\ new.buf = at + HeaderSize
      /\ new.block = [size |-> at + HeaderSize + n, capacity |-> cap, mem |-> m]
  BY <1>1, <1>4, <1>5
<1>8. new.block \in Blocks(cap)
  <2>1. at + HeaderSize + n \in 0 .. cap
    BY <1>3
  <2> QED
    BY <2>1, <1>6, <1>7 DEF Blocks
<1>9. From(new.buf) = at
  BY <1>3, <1>7 DEF From
<1>10. BufferSize(new.block, new.buf) = n
  <2>1. at \in 0 .. cap - 1 /\ at \in at .. at + HeaderSize - 1
    BY <1>3
  <2>2. new.block.mem[at] = n
    BY <2>1, <1>6, <1>7
  <2> QED
    BY <2>2, <1>9 DEF BufferSize, From
<1>11. ASSUME NEW a \in 0 .. cap - 1, a \notin From(new.buf) .. new.buf - 1
       PROVE  new.block.mem[a] = b.mem[a]
  BY <1>3, <1>6, <1>7, <1>9, <1>11
<1>12. new.buf \in Nat /\ HeaderSize <= new.buf /\ new.buf # NULL /\ new.buf + n <= cap
  BY <1>3, <1>7 DEF NULL
<1>13. new.block.size = new.buf + n
  BY <1>7
<1> QED
  BY <1>2, <1>3, <1>7, <1>8, <1>9, <1>10, <1>11, <1>12, <1>13 DEF at, new

\* The new allocation lies apart from those that are there.
LEMMA PlaceLays ==
  ASSUME NEW cap \in Nat, NEW b \in Blocks(cap), NEW n \in Nat, NEW S, Laid(b, S),
         b.size + AlignmentLoss(b.size) + HeaderSize + n <= cap,
         NEW new, new = Place(b, n)
  PROVE  /\ new.buf \notin S
         /\ Laid(new.block, S \cup {new.buf})
         /\ Untouched(b, new.block, S)
         /\ BufferSize(new.block, new.buf) = n
<1> USE BumpAssumption
<1>1. PICK q : q = new.buf
  OBVIOUS
<1>2. PICK c : c = new.block
  OBVIOUS
<1>3. /\ q \in Nat /\ HeaderSize <= q /\ q + n <= cap
      /\ b.size <= From(q) /\ From(q) % MaxAlign = 0
      /\ c \in Blocks(cap) /\ c.size = q + n /\ BufferSize(c, q) = n
      /\ \A a \in 0 .. cap - 1 : a \notin From(q) .. q - 1 => c.mem[a] = b.mem[a]
  BY <1>1, <1>2, PlaceProperties
<1>4. /\ From(q) = q - HeaderSize /\ From(q) \in Nat /\ Past(c, q) = q + n
      /\ b.size \in Nat /\ b.size <= cap /\ c.capacity = cap
  BY <1>3, BlockParts DEF From, Past
<1>5. ASSUME NEW x \in S
      PROVE  /\ x \in Nat /\ From(x) \in Nat /\ From(x) < x /\ x <= Past(b, x)
             /\ Past(b, x) \in Nat /\ Past(b, x) <= From(q)
             /\ \A a \in From(x) .. Past(b, x) - 1 : c.mem[a] = b.mem[a]
  <2>1. /\ x \in Nat /\ From(x) \in Nat /\ From(x) < x /\ x <= Past(b, x)
        /\ Past(b, x) \in Nat /\ Past(b, x) <= b.size
    BY LaidAt
  <2>2. ASSUME NEW a \in From(x) .. Past(b, x) - 1 PROVE c.mem[a] = b.mem[a]
    <3>1. a \in 0 .. cap - 1 /\ a \notin From(q) .. q - 1
      BY <1>3, <1>4, <2>1
    <3> QED
      BY <3>1, <1>3
  <2> QED
    BY <1>3, <1>4, <2>1, <2>2
<1>6. ASSUME NEW x \in S
      PROVE  c.mem[From(x)] = b.mem[From(x)] /\ Past(b, x) <= c.size
  <2>1. From(x) \in From(x) .. Past(b, x) - 1
    BY <1>5
  <2> QED
    BY <1>3, <1>4, <1>5, <2>1
<1>7. Laid(c, S) /\ \A x \in S : Past(c, x) = Past(b, x)
  BY <1>3, <1>6, LaidStill
<1>8. q \notin S
  BY <1>3, <1>4, <1>5
<1>9. Laid(c, S \cup {q})
  <2>1. S \cup {q} \subseteq HeaderSize .. c.capacity
    BY <1>3, <1>4, <1>7 DEF Laid
  <2>2. \A x \in S \cup {q} : Past(c, x) <= c.size
    BY <1>3, <1>4, <1>7 DEF Laid
  <2>3. ASSUME NEW x \in S \cup {q}, NEW y \in S \cup {q}, x < y
        PROVE  Past(c, x) <= From(y)
    <3>1. CASE x \in S /\ y \in S
      BY <2>3, <3>1, <1>7 DEF Laid
    <3>2. CASE x \in S /\ y = q
      BY <3>2, <1>5, <1>7
    <3>3. CASE x = q /\ y \in S \cup {q}
      BY <2>3, <3>3, <1>3, <1>4, <1>5
    <3> QED
      BY <3>1, <3>2, <3>3
  <2>4. \A x \in S \cup {q} : From(x) % MaxAlign = 0
    BY <1>3, <1>7 DEF Laid
  <2> QED
    BY <2>1, <2>2, <2>3, <2>4 DEF Laid
<1> QED
  BY <1>1, <1>2, <1>3, <1>5, <1>8, <1>9 DEF Untouched

\* Giving back an allocation leaves the memory and the others alone; the last
\* one's bytes are free again.
LEMMA ReleaseLays ==
  ASSUME NEW cap \in Nat, NEW b \in Blocks(cap), NEW S, Laid(b, S), NEW p \in S,
         NEW c, c = Release(b, p)
  PROVE  /\ c \in Blocks(cap) /\ c.mem = b.mem
         /\ Laid(c, S \ {p}) /\ Untouched(b, c, S \ {p})
         /\ IsLast(b, p) => c.size = From(p) /\ Past(b, p) = b.size
<1> USE BumpAssumption
<1>1. PICK h : h = BufferSize(b, p)
  OBVIOUS
<1>2. /\ p \in Nat /\ h \in Nat /\ HeaderSize <= p /\ Past(b, p) = p + h
      /\ From(p) = p - HeaderSize /\ From(p) \in Nat /\ Past(b, p) <= b.size
      /\ b.size \in Nat /\ b.size <= cap
      /\ b = [size |-> b.size, capacity |-> cap, mem |-> b.mem]
      /\ b.mem \in [0 .. cap - 1 -> Nat]
  BY <1>1, LaidAt, BlockParts DEF From, Past
<1>3. CASE ~IsLast(b, p)
  <2>1. c = b
    BY <1>3 DEF Release
  <2> QED
    BY <1>3, <2>1 DEF Laid, Untouched
<1>4. CASE IsLast(b, p)
  <2>1. b.size = p + h
    BY <1>1, <1>2, <1>4 DEF IsLast
  <2>2. c = [size |-> b.size - (h + HeaderSize), capacity |-> cap, mem |-> b.mem]
    BY <1>1, <1>2, <1>4 DEF Release
  <2>3. c.size = From(p) /\ From(p) \in 0 .. cap
    BY <1>2, <2>1, <2>2
  <2>4. c \in Blocks(cap) /\ c.mem = b.mem
    BY <1>2, <2>2, <2>3 DEF Blocks
  <2>5. ASSUME NEW x \in S \ {p} PROVE Past(b, x) <= c.size
    <3>1. /\ x \in Nat /\ Past(b, x) \in Nat /\ Past(b, x) <= b.size
          /\ From(x) < x /\ From(x) \in Nat /\ x <= Past(b, x)
          /\ Past(b, p) <= From(x) \/ Past(b, x) <= From(p)
      BY LaidAt
    <3> QED
      BY <1>2, <2>1, <2>3, <3>1
  <2>6. Laid(b, S \ {p})
    BY LaidSubset
  <2>7. Laid(c, S \ {p})
    BY <2>4, <2>5, <2>6, LaidStill
  <2> QED
    BY <1>2, <2>1, <2>3, <2>4, <2>7 DEF Untouched
<1> QED
  BY <1>3, <1>4

-----------------------------------------------------------------------------
(* region_alloc and region_remap.                                          *)

\* What a call has done that gives the allocation at q in exchange for nothing
\* or for another one: q is apart from the allocations that stay, at S, which
\* are not touched, and has room for n bytes.
Given(cap, b, c, S, q, n) ==
    /\ c \in Blocks(cap)
    /\ q \notin S /\ q # NULL
    /\ Laid(c, S \cup {q})
    /\ Untouched(b, c, S)
    /\ n <= BufferSize(c, q)

\* region_alloc gives an allocation of n bytes, and n is not 0, or changes nothing.
LEMMA RegionAllocGives ==
  ASSUME NEW cap \in Nat, NEW b \in Blocks(cap), NEW S, Laid(b, S), NEW n \in Nat,
         NEW new, new = RegionAlloc(b, n)
  PROVE  /\ new.buf = NULL => new.block = b
         /\ new.buf # NULL => /\ Given(cap, b, new.block, S, new.buf, n)
                              /\ new.buf < cap /\ new.buf + n <= cap
                              /\ new = Place(b, n) /\ RegionFits(b, n)
<1> USE BumpAssumption
<1>1. CASE n # 0 /\ RegionFits(b, n)
  <2>1. new = Place(b, n)
    BY <1>1 DEF RegionAlloc
  <2>2. b.size + AlignmentLoss(b.size) + HeaderSize + n <= cap
    <3>1. b.size \in Nat /\ b.capacity = cap /\ AlignmentLoss(b.size) \in Nat
      BY BlockParts, LossProperties
    <3> QED
      BY <1>1, <3>1 DEF RegionFits
  <2>3. /\ new.buf # NULL /\ new.block \in Blocks(cap)
        /\ new.buf + n <= cap /\ new.buf \in Nat
    BY <2>1, <2>2, PlaceProperties
  <2>5. new.buf < cap
    BY <1>1, <2>3
  <2>4. /\ new.buf \notin S /\ Laid(new.block, S \cup {new.buf})
        /\ Untouched(b, new.block, S) /\ BufferSize(new.block, new.buf) = n
    BY <2>1, <2>2, PlaceLays
  <2> QED
    BY <1>1, <2>1, <2>3, <2>4, <2>5 DEF Given
<1>2. CASE ~(n # 0 /\ RegionFits(b, n))
  BY <1>2 DEF RegionAlloc, Failed
<1> QED
  BY <1>1, <1>2

\* What a remap carries over, of "had" bytes at p.
Carried(b, p, had, c, q, n) ==
    \A i \in 0 .. had - 1 : i < n => c.mem[q + i] = b.mem[p + i]

\* The last allocation grows in place: what region_alloc gives after region_free
\* has given the last one back is at the same address, its contents still there.
LEMMA RemapGrows ==
  ASSUME NEW cap \in Nat, NEW b \in Blocks(cap), NEW S, Laid(b, S), NEW p \in S,
         NEW n \in Nat, IsLast(b, p), NEW new, new = RegionAlloc(Release(b, p), n),
         new.buf # NULL
  PROVE  /\ Given(cap, b, new.block, S \ {p}, new.buf, n)
         /\ new.buf < cap
         /\ Carried(b, p, BufferSize(b, p), new.block, new.buf, n)
<1> USE BumpAssumption
<1>1. PICK r : r = Release(b, p)
  OBVIOUS
<1>2. /\ r \in Blocks(cap) /\ r.mem = b.mem
      /\ Laid(r, S \ {p}) /\ r.size = From(p)
  BY <1>1, ReleaseLays
<1>3. /\ Given(cap, r, new.block, S \ {p}, new.buf, n)
      /\ new.buf < cap /\ new = Place(r, n) /\ RegionFits(r, n)
  BY <1>1, <1>2, RegionAllocGives
<1>4. \A x : BufferSize(r, x) = BufferSize(b, x) /\ Past(r, x) = Past(b, x)
  BY <1>2 DEF BufferSize, Past
<1>5. Given(cap, b, new.block, S \ {p}, new.buf, n)
  BY <1>2, <1>3, <1>4 DEF Given, Untouched
<1>6. /\ p \in Nat /\ HeaderSize <= p /\ From(p) \in Nat /\ From(p) = p - HeaderSize
      /\ Past(b, p) = p + BufferSize(b, p) /\ Past(b, p) <= b.size
      /\ b.size \in Nat /\ b.size <= cap /\ BufferSize(b, p) \in Nat
      /\ From(p) % MaxAlign = 0
  BY LaidAt, BlockParts DEF From, Past, Laid
<1>7. AlignmentLoss(r.size) = 0
  BY <1>2, <1>6, LossProperties
<1>8. r.size + AlignmentLoss(r.size) + HeaderSize + n <= cap
  <2>1. r.capacity = cap
    BY <1>2, BlockParts
  <2>2. n + HeaderSize + 0 <= cap - From(p)
    BY <1>2, <1>3, <1>7, <2>1 DEF RegionFits
  <2> QED
    BY <1>2, <1>6, <1>7, <2>2
<1>9. /\ new.buf = r.size + AlignmentLoss(r.size) + HeaderSize
      /\ \A a \in 0 .. cap - 1 :
             a \notin From(new.buf) .. new.buf - 1 => new.block.mem[a] = r.mem[a]
  BY <1>2, <1>3, <1>8, PlaceProperties
<1>10. new.buf = p
  BY <1>2, <1>6, <1>7, <1>9
<1>11. ASSUME NEW i \in 0 .. BufferSize(b, p) - 1
       PROVE  new.block.mem[p + i] = b.mem[p + i]
  <2>1. p + i \in 0 .. cap - 1 /\ p + i \notin From(p) .. p - 1
    BY <1>6
  <2> QED
    BY <2>1, <1>2, <1>9, <1>10
<1> QED
  BY <1>3, <1>5, <1>10, <1>11 DEF Carried

\* f is m but for the n bytes at "to", which are those of m at "from".
Copied(cap, m, f, to, from, n) ==
    /\ f \in [0 .. cap - 1 -> Nat]
    /\ \A a \in 0 .. cap - 1 : a \notin to .. to + n - 1 => f[a] = m[a]
    /\ \A i \in 0 .. n - 1 : f[to + i] = m[from + i]

\* What Copy does to memory, of bytes that were there before the ones at "to".
LEMMA CopyProperties ==
  ASSUME NEW cap \in Nat, NEW m \in [0 .. cap - 1 -> Nat], NEW to \in Nat,
         NEW from \in Nat, NEW n \in Nat, to + n <= cap, from + n <= cap,
         NEW f, f = Copy(m, to, from, n)
  PROVE  Copied(cap, m, f, to, from, n)
<1>1. f = [a \in 0 .. cap - 1 |-> IF a \in to .. to + n - 1 THEN m[a - to + from] ELSE m[a]]
  BY DEF Copy
<1>2. ASSUME NEW a \in 0 .. cap - 1 PROVE f[a] \in Nat
  <2>1. CASE a \in to .. to + n - 1
    <3>1. a - to + from \in 0 .. cap - 1
      BY <2>1
    <3> QED
      BY <1>1, <2>1, <3>1
  <2>2. CASE a \notin to .. to + n - 1
    BY <1>1, <2>2
  <2> QED
    BY <2>1, <2>2
<1>3. f \in [0 .. cap - 1 -> Nat]
  BY <1>1, <1>2
<1>4. ASSUME NEW i \in 0 .. n - 1 PROVE f[to + i] = m[from + i]
  <2>1. /\ to + i \in 0 .. cap - 1 /\ to + i \in to .. to + n - 1
        /\ (to + i) - to + from = from + i
    OBVIOUS
  <2> QED
    BY <1>1, <2>1
<1> QED
  BY <1>1, <1>3, <1>4 DEF Copied

\* An allocation that does not grow in place: a new one, with the old contents.
LEMMA RemapMoves ==
  ASSUME NEW cap \in Nat, NEW b \in Blocks(cap), NEW S, Laid(b, S), NEW p \in S,
         NEW n \in Nat, ~(BufferSize(b, p) >= n), NEW old, old = RegionAlloc(b, n),
         old.buf # NULL, NEW c,
         c = [size |-> old.block.size, capacity |-> cap,
              mem |-> Copy(old.block.mem, old.buf, p, BufferSize(b, p))]
  PROVE  /\ Given(cap, b, c, S \ {p}, old.buf, n)
         /\ old.buf < cap
         /\ Carried(b, p, BufferSize(b, p), c, old.buf, n)
<1> USE BumpAssumption
<1>1. PICK q : q = old.buf
  OBVIOUS
<1>2. PICK d : d = old.block
  OBVIOUS
<1>3. PICK h : h = BufferSize(b, p)
  OBVIOUS
<1>4. /\ p \in Nat /\ h \in Nat /\ Past(b, p) = p + h /\ p + h <= b.size
      /\ From(p) \in Nat /\ From(p) < p /\ b.size <= cap /\ h < n /\ b.size \in Nat
  BY <1>3, LaidAt, BlockParts DEF Past
<1>5. Given(cap, b, d, S, q, n) /\ q + n <= cap /\ q < cap
  BY <1>1, <1>2, RegionAllocGives
<1>6. /\ d \in Blocks(cap) /\ q \notin S /\ q # NULL /\ Laid(d, S \cup {q})
      /\ Untouched(b, d, S) /\ n <= BufferSize(d, q)
  BY <1>5 DEF Given
<1>7. q \in Nat /\ BufferSize(d, q) \in Nat /\ Past(d, q) = q + BufferSize(d, q)
  BY <1>6, LaidAt DEF Past
<1>8. PICK o : o = d.mem
  OBVIOUS
<1>19. PICK m : m = Copy(o, q, p, h)
  OBVIOUS
<1>9. o \in [0 .. cap - 1 -> Nat] /\ q + h <= cap /\ p + h <= cap
  BY <1>4, <1>5, <1>6, <1>7, <1>8, BlockParts
<1>10. /\ m \in [0 .. cap - 1 -> Nat]
       /\ \A a \in 0 .. cap - 1 : a \notin q .. q + h - 1 => m[a] = o[a]
       /\ \A i \in 0 .. h - 1 : m[q + i] = o[p + i]
  <2>1. q \in Nat /\ p \in Nat /\ h \in Nat
    BY <1>4, <1>7
  <2>2. Copied(cap, o, m, q, p, h)
    BY <1>9, <1>19, <2>1, CopyProperties
  <2> QED
    BY <2>2 DEF Copied
<1>11. c = [size |-> d.size, capacity |-> cap, mem |-> m]
  BY <1>1, <1>2, <1>3, <1>8, <1>19
<1>12. c \in Blocks(cap) /\ c.size = d.size /\ c.mem = m
  BY <1>6, <1>10, <1>11 DEF Blocks
<1>13. DiffersIn(cap, d, c, q, Past(d, q))
  <2>1. ASSUME NEW a \in 0 .. cap - 1, a \notin q .. Past(d, q) - 1
        PROVE  a \notin q .. q + h - 1
    BY <1>4, <1>6, <1>7, <2>1
  <2> QED
    BY <2>1, <1>8, <1>10, <1>12 DEF DiffersIn
<1>14. Rewritten(d, c, S \cup {q}, q)
  BY <1>6, <1>13, WriteLays
<1>15. Laid(c, (S \ {p}) \cup {q})
  BY <1>14, LaidSubset DEF Rewritten
<1>16. ASSUME NEW x \in S \ {p}, NEW a \in From(x) .. Past(b, x) - 1
       PROVE  c.mem[a] = b.mem[a]
  <2>1. d.mem[a] = b.mem[a] /\ x \in (S \cup {q}) \ {q}
    BY <1>6 DEF Untouched
  <2>2. d.mem[From(x)] = b.mem[From(x)]
    <3>1. From(x) \in From(x) .. Past(b, x) - 1
      BY LaidAt
    <3> QED
      BY <3>1, <1>6 DEF Untouched
  <2>3. Past(d, x) = Past(b, x)
    BY <2>2 DEF Past, BufferSize, From
  <2> QED
    BY <2>1, <2>3, <1>14 DEF Untouched, Rewritten
<1>17. ASSUME NEW i \in 0 .. h - 1 PROVE c.mem[q + i] = b.mem[p + i]
  <2>1. p + i \in From(p) .. Past(b, p) - 1
    BY <1>4
  <2>2. d.mem[p + i] = b.mem[p + i]
    BY <2>1, <1>6 DEF Untouched
  <2> QED
    BY <2>2, <1>8, <1>10, <1>12
<1>18. Given(cap, b, c, S \ {p}, q, n)
  BY <1>6, <1>12, <1>14, <1>15, <1>16 DEF Given, Untouched, Rewritten
<1> QED
  BY <1>1, <1>3, <1>5, <1>17, <1>18 DEF Carried

\* region_remap of an allocation gives one with its contents, or changes nothing.
LEMMA RegionRemapGives ==
  ASSUME NEW cap \in Nat, NEW b \in Blocks(cap), NEW S, Laid(b, S), NEW p \in S,
         NEW n \in Nat, NEW new, new = RegionRemap(b, p, n)
  PROVE  /\ new.buf = NULL => new.block = b
         /\ new.buf # NULL => /\ Given(cap, b, new.block, S \ {p}, new.buf, n)
                              /\ new.buf = p \/ new.buf < cap
                              /\ Carried(b, p, BufferSize(b, p), new.block, new.buf, n)
<1> USE BumpAssumption
<1>1. p \in Nat /\ p # NULL /\ BufferSize(b, p) \in Nat
  BY LaidAt DEF NULL
<1>2. CASE BufferSize(b, p) >= n
  <2>1. new = [block |-> b, buf |-> p]
    BY <1>1, <1>2 DEF RegionRemap
  <2>2. (S \ {p}) \cup {p} = S
    OBVIOUS
  <2>3. n <= BufferSize(b, p)
    BY <1>1, <1>2
  <2> QED
    BY <1>1, <2>1, <2>2, <2>3 DEF Given, Untouched, Carried
<1>3. CASE ~(BufferSize(b, p) >= n) /\ IsLast(b, p) /\ BytesLeft(b, p) >= n
  <2>1. new = RegionAlloc(Release(b, p), n)
    BY <1>1, <1>3 DEF RegionRemap
  <2>2. new.buf # NULL
    <3>1. PICK r : r = Release(b, p)
      OBVIOUS
    <3>2. /\ r \in Blocks(cap) /\ r.size = From(p) /\ Past(b, p) = b.size
          /\ Laid(r, S \ {p})
      BY <1>3, <3>1, ReleaseLays
    <3>3. /\ From(p) \in Nat /\ From(p) = p - HeaderSize /\ From(p) % MaxAlign = 0
          /\ b.size = p + BufferSize(b, p) /\ b.capacity = cap /\ r.capacity = cap
          /\ b.size <= cap /\ n # 0
      BY <1>1, <1>3, <3>2, LaidAt, BlockParts DEF From, Past, Laid
    <3>4. n <= cap - p
      <4>1. cap - b.size + BufferSize(b, p) = cap - p /\ cap - p \in Nat
        BY <1>1, <3>3
      <4>2. ASSUME NEW k \in Nat, NEW u \in Nat \ {0} PROVE k % u <= k
        OBVIOUS
      <4>3. (cap - p) % U32 <= cap - p
        BY <4>1, <4>2
      <4>4. BytesLeft(b, p) = (cap - p) % U32
        BY <3>3, <4>1 DEF BytesLeft
      <4> QED
        BY <1>1, <1>3, <4>1, <4>3, <4>4
    <3>5. AlignmentLoss(r.size) = 0
      BY <3>2, <3>3, LossProperties
    <3>6. RegionFits(r, n)
      BY <1>1, <3>2, <3>3, <3>4, <3>5 DEF RegionFits
    <3>7. new = Place(r, n)
      BY <2>1, <3>1, <3>3, <3>6 DEF RegionAlloc
    <3>8. r.size + AlignmentLoss(r.size) + HeaderSize + n <= cap
      BY <1>1, <3>2, <3>3, <3>4, <3>5
    <3> QED
      BY <3>2, <3>7, <3>8, PlaceProperties
  <2> QED
    BY <1>3, <2>1, <2>2, RemapGrows
<1>4. CASE ~(BufferSize(b, p) >= n) /\ ~(IsLast(b, p) /\ BytesLeft(b, p) >= n)
  <2>1. PICK old : old = RegionAlloc(b, n)
    OBVIOUS
  <2>2. new = IF old.buf = NULL THEN old
              ELSE [old EXCEPT !.block.mem = Copy(@, old.buf, p, BufferSize(b, p))]
    BY <1>1, <1>4, <2>1 DEF RegionRemap
  <2>3. old = [block |-> old.block, buf |-> old.buf]
    BY <2>1 DEF RegionAlloc, Place, Failed
  <2>4. CASE old.buf = NULL
    BY <2>1, <2>2, <2>4, RegionAllocGives
  <2>5. CASE old.buf # NULL
    <3>1. /\ new.buf = old.buf
          /\ new.block = [old.block EXCEPT !.mem = Copy(@, old.buf, p, BufferSize(b, p))]
      BY <2>2, <2>3, <2>5
    <3>2. old.block \in Blocks(cap)
      BY <2>1, <2>5, RegionAllocGives DEF Given
    <3>3. new.block = [size |-> old.block.size, capacity |-> cap,
                       mem |-> Copy(old.block.mem, old.buf, p, BufferSize(b, p))]
      BY <3>1, <3>2, BlockParts
    <3>4. /\ Given(cap, b, new.block, S \ {p}, old.buf, n)
          /\ old.buf < cap
          /\ Carried(b, p, BufferSize(b, p), new.block, old.buf, n)
      BY <1>4, <2>1, <2>5, <3>3, RemapMoves
    <3> QED
      BY <2>5, <3>1, <3>4
  <2> QED
    BY <2>4, <2>5
<1> QED
  BY <1>2, <1>3, <1>4

-----------------------------------------------------------------------------
(* A client that holds the allocations in the domain of L, and has filled  *)
(* the L[p].len bytes it asked for at p with L[p].tag.                     *)

Held(cap, b, L) ==
    /\ b \in Blocks(cap)
    /\ Laid(b, DOMAIN L)
    /\ L \in [DOMAIN L -> [len : Nat, tag : Nat]]
    /\ \A p \in DOMAIN L : /\ L[p].len <= BufferSize(b, p)
                           /\ \A i \in 0 .. L[p].len - 1 : b.mem[p + i] = L[p].tag

\* The client's bytes lie apart.
LEMMA HeldApart ==
  ASSUME NEW cap \in Nat, NEW b, NEW L, Held(cap, b, L), NEW p \in DOMAIN L
  PROVE  /\ p \in Nat /\ HeaderSize <= p /\ L[p] \in [len : Nat, tag : Nat]
         /\ p + L[p].len <= b.size /\ b.size <= cap /\ b.size \in Nat
         /\ \A q \in DOMAIN L \ {p} : p + L[p].len <= q \/ q + L[q].len <= p
<1> USE BumpAssumption
<1>1. ASSUME NEW q \in DOMAIN L
      PROVE  /\ q \in Nat /\ HeaderSize <= q /\ L[q] \in [len : Nat, tag : Nat]
             /\ q + L[q].len <= Past(b, q) /\ Past(b, q) <= b.size
             /\ Past(b, q) \in Nat /\ From(q) < q /\ From(q) \in Nat
  <2>1. /\ b \in Blocks(cap) /\ Laid(b, DOMAIN L) /\ L[q] \in [len : Nat, tag : Nat]
        /\ L[q].len <= BufferSize(b, q)
    BY DEF Held
  <2>2. /\ q \in Nat /\ HeaderSize <= q /\ BufferSize(b, q) \in Nat
        /\ Past(b, q) \in Nat /\ Past(b, q) <= b.size /\ From(q) < q /\ From(q) \in Nat
    BY <2>1, LaidAt
  <2>3. Past(b, q) = q + BufferSize(b, q) /\ L[q].len \in Nat
    BY <2>1 DEF Past
  <2> QED
    BY <2>1, <2>2, <2>3
<1>2. b.size \in Nat /\ b.size <= cap
  BY BlockParts DEF Held
<1>3. ASSUME NEW q \in DOMAIN L \ {p}
      PROVE  p + L[p].len <= q \/ q + L[q].len <= p
  <2>1. Past(b, p) <= From(q) \/ Past(b, q) <= From(p)
    BY LaidAt DEF Held
  <2>2. L[p].len \in Nat /\ L[q].len \in Nat
    BY <1>1
  <2> QED
    BY <1>1, <2>1, <2>2
<1>4. p + L[p].len <= b.size
  <2>1. L[p].len \in Nat
    BY <1>1
  <2> QED
    BY <1>1, <1>2, <2>1
<1> QED
  BY <1>1, <1>2, <1>3, <1>4

\* The allocations of the client at T, where they are not touched.
LEMMA HeldStill ==
  ASSUME NEW cap \in Nat, NEW b, NEW L, Held(cap, b, L), NEW T \in SUBSET DOMAIN L,
         NEW c \in Blocks(cap), Laid(c, T), Untouched(b, c, T),
         NEW M, M = [x \in T |-> L[x]]
  PROVE  Held(cap, c, M)
<1> USE BumpAssumption
<1>1. ASSUME NEW x \in T
      PROVE  /\ L[x].len <= BufferSize(c, x) /\ L[x] \in [len : Nat, tag : Nat]
             /\ \A i \in 0 .. L[x].len - 1 : c.mem[x + i] = L[x].tag
  <2>1. /\ b \in Blocks(cap) /\ Laid(b, DOMAIN L) /\ L[x] \in [len : Nat, tag : Nat]
        /\ L[x].len <= BufferSize(b, x)
        /\ \A i \in 0 .. L[x].len - 1 : b.mem[x + i] = L[x].tag
    BY DEF Held
  <2>2. /\ x \in Nat /\ From(x) < x /\ x <= Past(b, x) /\ BufferSize(b, x) \in Nat
        /\ From(x) \in Nat /\ Past(b, x) = x + BufferSize(b, x) /\ L[x].len \in Nat
    BY <2>1, LaidAt DEF Past
  <2>3. \A a \in From(x) .. Past(b, x) - 1 : c.mem[a] = b.mem[a]
    BY DEF Untouched
  <2>4. BufferSize(c, x) = BufferSize(b, x)
    <3>1. From(x) \in From(x) .. Past(b, x) - 1
      BY <2>2
    <3> QED
      BY <2>3, <3>1 DEF BufferSize, From
  <2>5. ASSUME NEW i \in 0 .. L[x].len - 1 PROVE c.mem[x + i] = L[x].tag
    <3>1. x + i \in From(x) .. Past(b, x) - 1
      BY <2>1, <2>2
    <3> QED
      BY <2>1, <2>3, <3>1
  <2> QED
    BY <2>1, <2>4, <2>5
<1>2. DOMAIN M = T /\ \A x \in T : M[x] = L[x]
  OBVIOUS
<1>3. M \in [T -> [len : Nat, tag : Nat]]
  BY <1>1
<1> QED
  BY <1>1, <1>2, <1>3 DEF Held

\* Fewer allocations.
LEMMA HeldSubset ==
  ASSUME NEW cap \in Nat, NEW b, NEW L, Held(cap, b, L), NEW T \in SUBSET DOMAIN L,
         NEW M, M = [x \in T |-> L[x]]
  PROVE  Held(cap, b, M)
<1>1. b \in Blocks(cap) /\ Laid(b, T) /\ Untouched(b, b, T)
  BY LaidSubset DEF Held, Untouched
<1> QED
  BY <1>1, HeldStill

\* region_free.
LEMMA HeldRelease ==
  ASSUME NEW cap \in Nat, NEW b, NEW L, Held(cap, b, L), NEW p \in DOMAIN L,
         NEW M, M = [x \in DOMAIN L \ {p} |-> L[x]]
  PROVE  Held(cap, Release(b, p), M)
<1>1. PICK c : c = Release(b, p)
  OBVIOUS
<1>2. PICK S : S = DOMAIN L
  OBVIOUS
<1>3. b \in Blocks(cap) /\ Laid(b, S) /\ p \in S
  BY <1>2 DEF Held
<1>4. c \in Blocks(cap) /\ Laid(c, S \ {p}) /\ Untouched(b, c, S \ {p})
  BY <1>1, <1>3, ReleaseLays
<1> QED
  BY <1>1, <1>2, <1>4, HeldStill

\* region_alloc for somebody else, or in vain.
LEMMA HeldAlloc ==
  ASSUME NEW cap \in Nat, NEW b, NEW L, Held(cap, b, L), NEW n \in Nat,
         NEW new, new = RegionAlloc(b, n)
  PROVE  Held(cap, new.block, L)
<1>1. PICK S : S = DOMAIN L
  OBVIOUS
<1>2. b \in Blocks(cap) /\ Laid(b, S) /\ L = [x \in S |-> L[x]]
  BY <1>1 DEF Held
<1>3. CASE new.buf = NULL
  BY <1>2, <1>3, RegionAllocGives
<1>4. CASE new.buf # NULL
  <2>1. Given(cap, b, new.block, S, new.buf, n)
    BY <1>2, <1>4, RegionAllocGives
  <2>2. /\ new.block \in Blocks(cap) /\ Untouched(b, new.block, S)
        /\ Laid(new.block, S \cup {new.buf})
    BY <2>1 DEF Given
  <2>3. Laid(new.block, S)
    BY <2>2, LaidSubset
  <2> QED
    BY <1>1, <1>2, <2>2, <2>3, HeldStill
<1> QED
  BY <1>3, <1>4

\* As many of the n bytes at q as "had" says are filled.
Starts(c, q, had, n, tag) == \A i \in 0 .. had - 1 : i < n => c.mem[q + i] = tag

\* What the client holds: n bytes "tag" at q, and what it held at K.
Gets(L, K, q, n, tag) ==
    [x \in K \cup {q} |-> IF x = q THEN [len |-> n, tag |-> tag] ELSE L[x]]

\* The client gets n bytes at q, the first "had" of them filled, and fills the rest.
LEMMA HeldFilled ==
  ASSUME NEW cap \in Nat, NEW b, NEW L, Held(cap, b, L), NEW S \in SUBSET DOMAIN L,
         NEW c, NEW q, NEW n \in Nat, Given(cap, b, c, S, q, n),
         NEW had \in Nat, NEW tag \in Nat,
         Starts(c, q, had, n, tag),
         NEW d, d = [size |-> c.size, capacity |-> cap,
                     mem |-> Fill(c.mem, q + had, n - had, tag)],
         NEW M, M = Gets(L, S, q, n, tag)
  PROVE  Held(cap, d, M)
<1> USE BumpAssumption
<1>1. /\ c \in Blocks(cap) /\ q \notin S /\ Laid(c, S \cup {q})
      /\ Untouched(b, c, S) /\ n <= BufferSize(c, q)
  BY DEF Given
<1>2. /\ q \in Nat /\ BufferSize(c, q) \in Nat /\ Past(c, q) = q + BufferSize(c, q)
      /\ Past(c, q) <= cap
  <2>1. q \in S \cup {q} /\ c.size \in Nat /\ c.size <= cap
    BY <1>1, BlockParts
  <2>2. /\ q \in Nat /\ BufferSize(c, q) \in Nat /\ Past(c, q) \in Nat /\ Past(c, q) <= c.size
    BY <1>1, <2>1, LaidAt
  <2> QED
    BY <2>1, <2>2 DEF Past
<1>3. PICK o : o = c.mem
  OBVIOUS
<1>4. PICK m : m = Fill(o, q + had, n - had, tag)
  OBVIOUS
<1>5. o \in [0 .. cap - 1 -> Nat]
  BY <1>1, <1>3, BlockParts
<1>6. /\ m \in [0 .. cap - 1 -> Nat]
      /\ \A a \in 0 .. cap - 1 :
            m[a] = IF a \in q + had .. (q + had) + (n - had) - 1 THEN tag ELSE o[a]
  <2>1. FilledIn(cap, o, m, q + had, n - had, tag)
    BY <1>4, <1>5, FillProperties
  <2> QED
    BY <2>1 DEF FilledIn
<1>7. d.mem = m /\ d.size = c.size /\ d \in Blocks(cap)
  <2>1. d = [size |-> c.size, capacity |-> cap, mem |-> m]
    BY <1>3, <1>4
  <2> QED
    BY <1>1, <1>6, <2>1 DEF Blocks
<1>8. DiffersIn(cap, c, d, q, Past(c, q))
  <2>1. ASSUME NEW a \in 0 .. cap - 1, a \notin q .. Past(c, q) - 1
        PROVE  a \notin q + had .. (q + had) + (n - had) - 1
    BY <1>1, <1>2, <2>1
  <2> QED
    BY <2>1, <1>3, <1>6, <1>7 DEF DiffersIn
<1>9. Rewritten(c, d, S \cup {q}, q)
  BY <1>1, <1>8, WriteLays
<1>10. /\ Laid(d, S \cup {q}) /\ Untouched(c, d, S) /\ BufferSize(d, q) = BufferSize(c, q)
  <2>1. (S \cup {q}) \ {q} = S
    BY <1>1
  <2> QED
    BY <1>9, <2>1 DEF Rewritten
<1>11. PICK K : K = [x \in S |-> L[x]]
  OBVIOUS
<1>12. Held(cap, d, K)
  <2>1. Laid(c, S) /\ Laid(d, S)
    BY <1>1, <1>10, LaidSubset
  <2>2. Held(cap, c, K)
    BY <1>1, <1>11, <2>1, HeldStill
  <2>3. DOMAIN K = S /\ K = [x \in S |-> K[x]]
    BY <1>11
  <2> QED
    BY <1>7, <1>10, <2>1, <2>2, <2>3, HeldStill
<1>13. ASSUME NEW i \in 0 .. n - 1 PROVE m[q + i] = tag
  <2>1. q + i \in 0 .. cap - 1
    BY <1>1, <1>2
  <2>2. CASE i < had
    BY <1>3, <1>6, <2>1, <2>2 DEF Starts
  <2>3. CASE ~(i < had)
    <3>1. q + i \in q + had .. (q + had) + (n - had) - 1
      BY <1>2, <2>3
    <3> QED
      BY <1>6, <2>1, <3>1
  <2> QED
    BY <2>2, <2>3
<1>14. /\ DOMAIN M = S \cup {q} /\ DOMAIN K = S
       /\ M[q].len = n /\ M[q].tag = tag /\ M[q] \in [len : Nat, tag : Nat]
       /\ \A x \in S : M[x] = K[x]
  BY <1>1, <1>11 DEF Gets
<1>15. ASSUME NEW x \in S \cup {q}
       PROVE  /\ M[x] \in [len : Nat, tag : Nat] /\ M[x].len <= BufferSize(d, x)
              /\ \A i \in 0 .. M[x].len - 1 : d.mem[x + i] = M[x].tag
  <2>1. CASE x = q
    BY <2>1, <1>1, <1>7, <1>10, <1>13, <1>14
  <2>2. CASE x \in S
    BY <2>2, <1>12, <1>14 DEF Held
  <2> QED
    BY <2>1, <2>2
<1>16. M \in [S \cup {q} -> [len : Nat, tag : Nat]]
  <2>1. M = [x \in S \cup {q} |-> M[x]]
    BY DEF Gets
  <2> QED
    BY <2>1, <1>15
<1> QED
  BY <1>7, <1>10, <1>14, <1>15, <1>16 DEF Held

-----------------------------------------------------------------------------
(* What the client sees: L[p].len bytes L[p].tag at p.                     *)

Shown(L) == [p \in DOMAIN L |-> [i \in 1 .. L[p].len |-> L[p].tag]]

\* It is what the block's memory holds.
LEMMA HeldShown ==
  ASSUME NEW cap \in Nat, NEW b, NEW L, Held(cap, b, L), NEW p \in DOMAIN L
  PROVE  [i \in 1 .. L[p].len |-> b.mem[p + i - 1]] = Shown(L)[p]
<1>1. L[p].len \in Nat /\ p \in Nat
  BY HeldApart
<1>2. ASSUME NEW i \in 1 .. L[p].len PROVE b.mem[p + i - 1] = L[p].tag
  <2>1. i - 1 \in 0 .. L[p].len - 1 /\ p + (i - 1) = p + i - 1
    BY <1>1
  <2> QED
    BY <2>1 DEF Held
<1> QED
  BY <1>2 DEF Shown

\* A sequence of n bytes "tag".
LEMMA RunProperties ==
  ASSUME NEW n \in Nat, NEW tag \in Nat, NEW s, s = [i \in 1 .. n |-> tag]
  PROVE  s \in Seq(Nat) /\ Len(s) = n /\ \A i \in 1 .. n : s[i] = tag
  OBVIOUS

\* The change from L to M is one an abstract allocator may make: a client that
\* keeps what it has at K gets n bytes "tag" at q, apart from the others.
ShowsNew(L, M, K, q, n, tag) ==
    /\ DOMAIN Shown(M) = K \cup {q} /\ DOMAIN Shown(L) = DOMAIN L
    /\ Shown(M)[q] = [i \in 1 .. n |-> tag]
    /\ Shown(M)[q] \in Seq(Nat)
    /\ Shown(M) = [x \in K \cup {q} |-> IF x = q THEN Shown(M)[q] ELSE Shown(L)[x]]
    /\ \A x \in K : q + Len(Shown(M)[q]) <= x \/ x + Len(Shown(L)[x]) <= q

\* n bytes at q are apart from the client's at K.
Apart(L, K, q, n) == \A x \in K : q + n <= x \/ x + L[x].len <= q

\* It is, if they are.
LEMMA ShownNew ==
  ASSUME NEW L, NEW K \in SUBSET DOMAIN L, NEW q, q \notin K, NEW n \in Nat, NEW tag \in Nat,
         L \in [DOMAIN L -> [len : Nat, tag : Nat]], Apart(L, K, q, n),
         NEW M, M = Gets(L, K, q, n, tag)
  PROVE  ShowsNew(L, M, K, q, n, tag)
<1>1. /\ DOMAIN M = K \cup {q} /\ M[q].len = n /\ M[q].tag = tag
      /\ \A x \in K : M[x] = L[x]
  BY DEF Gets
<1>2. Shown(M)[q] = [i \in 1 .. n |-> tag]
  BY <1>1 DEF Shown
<1>3. Shown(M)[q] \in Seq(Nat) /\ Len(Shown(M)[q]) = n
  BY <1>2, RunProperties
<1>4. ASSUME NEW x \in K PROVE Shown(M)[x] = Shown(L)[x] /\ Len(Shown(L)[x]) = L[x].len
  <2>1. Shown(L)[x] = [i \in 1 .. L[x].len |-> L[x].tag]
    BY DEF Shown
  <2>2. Shown(M)[x] = [i \in 1 .. L[x].len |-> L[x].tag]
    BY <1>1 DEF Shown
  <2>3. L[x].len \in Nat /\ L[x].tag \in Nat
    OBVIOUS
  <2>4. Len(Shown(L)[x]) = L[x].len
    BY <2>1, <2>3, RunProperties
  <2> QED
    BY <2>1, <2>2, <2>4
<1>5. /\ DOMAIN Shown(M) = K \cup {q} /\ DOMAIN Shown(L) = DOMAIN L
      /\ Shown(M) = [x \in K \cup {q} |-> Shown(M)[x]]
  BY <1>1 DEF Shown
<1>6. Shown(M) = [x \in K \cup {q} |-> IF x = q THEN Shown(M)[q] ELSE Shown(L)[x]]
  BY <1>4, <1>5
<1> QED
  BY <1>2, <1>3, <1>4, <1>5, <1>6 DEF ShowsNew, Apart
=============================================================================
