----------------------------- MODULE Region_proof -----------------------------
(***************************************************************************)
(* The region allocator keeps its client's blocks apart and their contents *)
(* whole, for every capacity, header size, alignment and set of sizes.     *)
(***************************************************************************)
EXTENDS Region, BumpBlock_proof

\* The client's blocks are laid out in the region, filled with their tags.
IInv == /\ Held(Capacity, region, live)
        /\ \A p \in DOMAIN live : live[p].tag \in Tags

\* The four invariants that the runs check are its parts.
LEMMA Parts == IInv => TypeOK /\ BlocksDisjoint /\ HeadersAligned /\ ContentsKept
<1> SUFFICES ASSUME IInv PROVE TypeOK /\ BlocksDisjoint /\ HeadersAligned /\ ContentsKept
  OBVIOUS
<1> USE BumpAssumption, RegionAssumption
<1>1. /\ region \in Blocks(Capacity) /\ Laid(region, DOMAIN live)
      /\ live \in [DOMAIN live -> [len : Nat, tag : Nat]]
      /\ \A p \in DOMAIN live :
            /\ live[p].len <= BufferSize(region, p) /\ live[p].tag \in Tags
            /\ \A i \in 0 .. live[p].len - 1 : region.mem[p + i] = live[p].tag
  BY DEF IInv, Held
<1>2. TypeOK
  <2>1. DOMAIN live \subseteq HeaderSize .. Capacity
    BY <1>1, BlockParts DEF Laid
  <2>2. \A p \in DOMAIN live : live[p] \in [len : Nat, tag : Tags]
    BY <1>1
  <2>3. live \in [DOMAIN live -> [len : Nat, tag : Tags]]
    BY <1>1, <2>2
  <2> QED
    BY <1>1, <2>1, <2>3 DEF TypeOK, Blocks
<1>3. \A p : Start(p) = From(p) /\ End(p) = Past(region, p)
  BY DEF Start, End, From, Past
<1>4. BlocksDisjoint
  <2>1. \A p \in DOMAIN live : From(p) >= 0
    BY <1>1, LaidAt
  <2> QED
    BY <1>1, <1>3, <2>1 DEF BlocksDisjoint, Laid
<1>5. HeadersAligned
  BY <1>1, <1>3 DEF HeadersAligned, Laid
<1> QED
  BY <1>1, <1>2, <1>4, <1>5 DEF ContentsKept

-----------------------------------------------------------------------------
(* Steps.                                                                  *)

\* The client has n bytes "tag" at q, and what it had at K.
Gives(K, q, n, tag) ==
    /\ q \notin K
    /\ Held(Capacity, region', live')
    /\ live' = Gets(live, K, q, n, tag)

\* It does where the client fills a block that the region gave it.
LEMMA FilledGives ==
  ASSUME IInv, NEW K \in SUBSET DOMAIN live, NEW c, NEW q, NEW n \in Nat,
         Given(Capacity, region, c, K, q, n), NEW had \in Nat, NEW tag \in Nat,
         Starts(c, q, had, n, tag),
         region' = Written(c, q, had, n, tag),
         live' = Gets(live, K, q, n, tag)
  PROVE  Gives(K, q, n, tag)
<1> USE RegionAssumption
<1>1. c \in Blocks(Capacity) /\ q \notin K
  BY DEF Given
<1>2. region' = [size |-> c.size, capacity |-> Capacity,
                 mem |-> Fill(c.mem, q + had, n - had, tag)]
  <2>1. c = [size |-> c.size, capacity |-> Capacity, mem |-> c.mem]
    BY <1>1, BlockParts
  <2> QED
    BY <2>1 DEF Written
<1>3. Held(Capacity, region, live)
  BY DEF IInv
<1>4. Held(Capacity, region', live')
  BY <1>2, <1>3, HeldFilled
<1> QED
  BY <1>1, <1>4 DEF Gives

\* region_alloc gives a block or changes nothing, and so does region_remap(NULL, n).
LEMMA AllocGives ==
  ASSUME IInv, NEW n \in Nat, NEW tag \in Tags, Alloc(n, tag) \/ RemapNull(n, tag)
  PROVE  UNCHANGED vars \/ \E q : Gives(DOMAIN live, q, n, tag)
<1> USE RegionAssumption
<1>1. PICK new : new = RegionAlloc(region, n)
  OBVIOUS
<1>2. RegionRemap(region, NULL, n) = new
  BY <1>1 DEF RegionRemap
<1>3. CASE new.buf = NULL
  BY <1>1, <1>2, <1>3 DEF Alloc, RemapNull
<1>4. CASE new.buf # NULL
  <2>1. /\ region' = Written(new.block, new.buf, 0, n, tag)
        /\ live' = Moved(new.buf, new.buf, [len |-> n, tag |-> tag])
    BY <1>1, <1>2, <1>4 DEF Alloc, RemapNull
  <2>2. region \in Blocks(Capacity) /\ Laid(region, DOMAIN live)
    BY DEF IInv, Held
  <2>3. Given(Capacity, region, new.block, DOMAIN live, new.buf, n)
    BY <1>1, <1>4, <2>2, RegionAllocGives
  <2>4. (DOMAIN live \ {new.buf}) \cup {new.buf} = DOMAIN live \cup {new.buf}
    OBVIOUS
  <2>5. live' = Gets(live, DOMAIN live, new.buf, n, tag)
    BY <2>1, <2>4 DEF Moved, Gets
  <2>6. Starts(new.block, new.buf, 0, n, tag)
    BY DEF Starts
  <2>7. Gives(DOMAIN live, new.buf, n, tag)
    BY <2>1, <2>3, <2>5, <2>6, FilledGives
  <2> QED
    BY <2>7
<1> QED
  BY <1>3, <1>4

\* region_remap gives a block in exchange, with what the client wrote to the old
\* one, or changes nothing.
LEMMA RemapGives ==
  ASSUME IInv, NEW p \in DOMAIN live, NEW n \in Nat, Remap(p, n)
  PROVE  UNCHANGED vars \/ \E q : Gives(DOMAIN live \ {p}, q, n, live[p].tag)
<1> USE RegionAssumption
<1>1. PICK new : new = RegionRemap(region, p, n)
  OBVIOUS
<1>2. CASE new.buf = NULL
  BY <1>1, <1>2 DEF Remap
<1>3. CASE new.buf # NULL
  <2>1. PICK l : l = live[p].len
    OBVIOUS
  <2>2. PICK tag : tag = live[p].tag
    OBVIOUS
  <2>3. /\ region' = Written(new.block, new.buf, l, n, tag)
        /\ live' = Moved(p, new.buf, [len |-> n, tag |-> tag])
    BY <1>1, <1>3, <2>1, <2>2 DEF Remap
  <2>4. /\ region \in Blocks(Capacity) /\ Laid(region, DOMAIN live)
        /\ l \in Nat /\ tag \in Nat /\ l <= BufferSize(region, p)
        /\ \A i \in 0 .. l - 1 : region.mem[p + i] = tag
    BY <2>1, <2>2 DEF IInv, Held
  <2>5. /\ Given(Capacity, region, new.block, DOMAIN live \ {p}, new.buf, n)
        /\ Carried(region, p, BufferSize(region, p), new.block, new.buf, n)
    BY <1>1, <1>3, <2>4, RegionRemapGives
  <2>6. BufferSize(region, p) \in Nat
    BY <2>4, LaidAt
  <2>7. Starts(new.block, new.buf, l, n, tag)
    <3>1. ASSUME NEW i \in 0 .. l - 1 PROVE i \in 0 .. BufferSize(region, p) - 1
      BY <2>4, <2>6
    <3> QED
      BY <2>4, <2>5, <3>1 DEF Carried, Starts
  <2>8. live' = Gets(live, DOMAIN live \ {p}, new.buf, n, tag)
    BY <2>3 DEF Moved, Gets
  <2>9. Gives(DOMAIN live \ {p}, new.buf, n, tag)
    BY <2>3, <2>4, <2>5, <2>7, <2>8, FilledGives
  <2> QED
    BY <2>2, <2>9
<1> QED
  BY <1>2, <1>3

-----------------------------------------------------------------------------
(* The invariant.                                                          *)

\* No block is live at first.
LEMMA InitIInv == Init => IInv
<1> SUFFICES ASSUME Init PROVE IInv
  OBVIOUS
<1> USE BumpAssumption, RegionAssumption
<1>1. DOMAIN live = {} /\ live = [x \in {} |-> x]
  BY DEF Init
<1>2. region \in Blocks(Capacity)
  <2>1. 0 \in 0 .. Capacity /\ [a \in 0 .. Capacity - 1 |-> 0] \in [0 .. Capacity - 1 -> Nat]
    OBVIOUS
  <2> QED
    BY <2>1 DEF Init, Blocks
<1> QED
  BY <1>1, <1>2 DEF IInv, Held, Laid

\* A step that gives a block keeps the invariant.
LEMMA GivesIInv ==
  ASSUME IInv, NEW K \in SUBSET DOMAIN live, NEW q, NEW n \in Nat, NEW tag \in Tags,
         Gives(K, q, n, tag)
  PROVE  IInv'
<1>1. \A x \in DOMAIN live' : live'[x].tag \in Tags
  <2>1. DOMAIN live' = K \cup {q} /\ live'[q].tag = tag /\ \A x \in K : live'[x] = live[x]
    BY DEF Gives, Gets
  <2> QED
    BY <2>1 DEF IInv
<1> QED
  BY <1>1 DEF IInv, Gives

\* Every step gives a block, frees one or changes nothing.
LEMMA StepIInv == IInv /\ [Next]_vars => IInv'
<1> SUFFICES ASSUME IInv, [Next]_vars PROVE IInv'
  OBVIOUS
<1> USE RegionAssumption
<1>1. CASE UNCHANGED vars
  BY <1>1 DEF vars, IInv
<1>2. ASSUME NEW n \in Sizes, NEW tag \in Tags, Alloc(n, tag) \/ RemapNull(n, tag)
      PROVE  IInv'
  <2>1. UNCHANGED vars \/ \E q : Gives(DOMAIN live, q, n, tag)
    BY <1>2, AllocGives
  <2> QED
    BY <1>1, <2>1, GivesIInv
<1>3. ASSUME NEW p \in DOMAIN live, NEW n \in Sizes, Remap(p, n)
      PROVE  IInv'
  <2>1. UNCHANGED vars \/ \E q : Gives(DOMAIN live \ {p}, q, n, live[p].tag)
    BY <1>3, RemapGives
  <2>2. live[p].tag \in Tags /\ DOMAIN live \ {p} \in SUBSET DOMAIN live
    BY DEF IInv
  <2> QED
    BY <1>1, <2>1, <2>2, GivesIInv
<1>4. ASSUME NEW p \in DOMAIN live, Free(p) PROVE IInv'
  <2>1. Held(Capacity, region', live')
    BY <1>4, HeldRelease DEF Free, IInv
  <2>2. \A x \in DOMAIN live' : live'[x].tag \in Tags
    BY <1>4 DEF Free, IInv
  <2> QED
    BY <2>1, <2>2 DEF IInv
<1> QED
  BY <1>1, <1>2, <1>3, <1>4 DEF Next

\* It holds of every reachable state.
THEOREM Invariance == Spec => []IInv
  BY InitIInv, StepIInv, PTL DEF Spec

\* region_t's bookkeeping stays in the range of its buffer.
THEOREM TypeCorrect == Spec => []TypeOK
  BY Invariance, Parts, PTL

\* No two blocks region_alloc and region_remap give out share a byte, headers
\* included, however blocks are freed and remapped in between.
THEOREM Disjoint == Spec => []BlocksDisjoint
  BY Invariance, Parts, PTL

\* Headers stay aligned, so that region_remap grows the last block in place.
THEOREM Aligned == Spec => []HeadersAligned
  BY Invariance, Parts, PTL

\* What the client wrote to a block is there as long as it holds the block.
THEOREM Kept == Spec => []ContentsKept
  BY Invariance, Parts, PTL

-----------------------------------------------------------------------------
(* The refinement of the abstract allocator.                               *)

\* The client sees its tags.
LEMMA SeenIs == IInv => Seen = Shown(live)
<1> SUFFICES ASSUME IInv PROVE Seen = Shown(live)
  OBVIOUS
<1>1. Seen = [p \in DOMAIN live |-> Shown(live)[p]]
  BY HeldShown, RegionAssumption DEF Seen, IInv
<1> QED
  BY <1>1 DEF Shown

\* The same of the state after a step.
LEMMA SeenThen == IInv' => Seen' = Shown(live')
<1>1. (IInv => Seen = Shown(live))'
  BY SeenIs, PTL
<1> QED
  BY <1>1

\* What the abstract allocator sees of n bytes "tag" at q, new beside those at K.
SeesNew(K, q, n, tag) ==
    /\ q \in DOMAIN Seen' /\ q \notin K
    /\ Seen'[q] = [i \in 1 .. n |-> tag]
    /\ Seen'[q] \in Seq(Nat)
    /\ Abstract!Clear(q, Seen'[q], K)
    /\ Seen' = [x \in K \cup {q} |-> IF x = q THEN Seen'[q] ELSE Seen[x]]

\* It sees that of a block that is given.
LEMMA GivesSeen ==
  ASSUME IInv, NEW K \in SUBSET DOMAIN live, NEW q, NEW n \in Nat, NEW tag \in Tags,
         Gives(K, q, n, tag)
  PROVE  SeesNew(K, q, n, tag)
<1> USE RegionAssumption
<1>1. Seen = Shown(live) /\ Seen' = Shown(live')
  BY SeenIs, SeenThen, GivesIInv
<1>2. /\ q \notin K /\ Held(Capacity, region', live')
      /\ live' = Gets(live, K, q, n, tag)
  BY DEF Gives
<1>3. live \in [DOMAIN live -> [len : Nat, tag : Nat]]
  BY DEF IInv, Held
<1>4. ASSUME NEW x \in K PROVE q + n <= x \/ x + live[x].len <= q
  <2>1. /\ q \in DOMAIN live' /\ x \in DOMAIN live' \ {q}
        /\ live'[q].len = n /\ live'[x] = live[x]
    BY <1>2 DEF Gets
  <2> QED
    BY <1>2, <2>1, HeldApart
<1>5. ShowsNew(live, live', K, q, n, tag)
  BY <1>2, <1>3, <1>4, ShownNew DEF Apart
<1> QED
  BY <1>1, <1>2, <1>5 DEF ShowsNew, SeesNew, Abstract!Clear

\* Every step of the region is one of the abstract allocator.
LEMMA StepRefines == IInv /\ [Next]_vars => [Abstract!Next]_Seen
<1> SUFFICES ASSUME IInv, [Next]_vars PROVE [Abstract!Next]_Seen
  OBVIOUS
<1> USE RegionAssumption
<1>1. CASE UNCHANGED vars
  BY <1>1 DEF vars, Seen
<1>2. DOMAIN Seen = DOMAIN live
  BY DEF Seen
<1>3. ASSUME NEW n \in Sizes, NEW tag \in Tags, Alloc(n, tag) \/ RemapNull(n, tag)
      PROVE  [Abstract!Next]_Seen
  <2>1. UNCHANGED vars \/ \E q : Gives(DOMAIN live, q, n, tag)
    BY <1>3, AllocGives
  <2>2. ASSUME NEW q, Gives(DOMAIN live, q, n, tag) PROVE Abstract!Alloc
    <3>1. /\ q \in DOMAIN Seen' \ DOMAIN Seen
          /\ Seen'[q] \in Seq(Nat)
          /\ Abstract!Clear(q, Seen'[q], DOMAIN Seen)
          /\ Seen' = [x \in DOMAIN Seen \cup {q} |-> IF x = q THEN Seen'[q] ELSE Seen[x]]
      <4>1. SeesNew(DOMAIN live, q, n, tag)
        BY <2>2, GivesSeen
      <4> QED
        BY <1>2, <4>1 DEF SeesNew
    <3>2. (DOMAIN Seen \ {q}) \cup {q} = DOMAIN Seen \cup {q}
      OBVIOUS
    <3>3. Seen' = Abstract!Moved(q, q, Seen'[q])
      BY <3>1, <3>2 DEF Abstract!Moved
    <3> QED
      BY <3>1, <3>3 DEF Abstract!Alloc
  <2> QED
    BY <1>1, <2>1, <2>2 DEF Abstract!Next
<1>4. ASSUME NEW p \in DOMAIN live, NEW n \in Sizes, Remap(p, n)
      PROVE  [Abstract!Next]_Seen
  <2>1. UNCHANGED vars \/ \E q : Gives(DOMAIN live \ {p}, q, n, live[p].tag)
    BY <1>4, RemapGives
  <2>2. /\ live[p].tag \in Tags /\ live[p].tag \in Nat /\ live[p].len \in Nat
        /\ DOMAIN live \ {p} \in SUBSET DOMAIN live
        /\ Seen[p] = [i \in 1 .. live[p].len |-> live[p].tag]
    BY SeenIs DEF IInv, Held, Shown
  <2>3. ASSUME NEW q, Gives(DOMAIN live \ {p}, q, n, live[p].tag) PROVE Abstract!Remap
    <3>1. /\ q \in DOMAIN Seen' /\ q \notin DOMAIN Seen \ {p}
          /\ Seen'[q] = [i \in 1 .. n |-> live[p].tag]
          /\ Seen'[q] \in Seq(Nat)
          /\ Abstract!Clear(q, Seen'[q], DOMAIN Seen \ {p})
          /\ Seen' = [x \in (DOMAIN Seen \ {p}) \cup {q} |->
                         IF x = q THEN Seen'[q] ELSE Seen[x]]
      <4>1. SeesNew(DOMAIN live \ {p}, q, n, live[p].tag)
        BY <2>2, <2>3, GivesSeen
      <4> QED
        BY <1>2, <4>1 DEF SeesNew
    <3>2. Abstract!CarriesOver(Seen[p], Seen'[q])
      BY <2>2, <3>1, RunProperties DEF Abstract!CarriesOver
    <3>3. Seen' = Abstract!Moved(p, q, Seen'[q])
      BY <3>1 DEF Abstract!Moved
    <3> QED
      BY <1>2, <3>1, <3>2, <3>3 DEF Abstract!Remap
  <2> QED
    BY <1>1, <2>1, <2>3 DEF Abstract!Next
<1>5. ASSUME NEW p \in DOMAIN live, Free(p) PROVE [Abstract!Next]_Seen
  <2>1. Seen = Shown(live) /\ Seen' = Shown(live')
    BY SeenIs, SeenThen, StepIInv
  <2>2. Seen' = [x \in DOMAIN Seen \ {p} |-> Seen[x]]
    BY <1>5, <2>1 DEF Free, Shown
  <2> QED
    BY <2>2, <1>2 DEF Abstract!Free, Abstract!Next
<1> QED
  BY <1>1, <1>3, <1>4, <1>5 DEF Next

\* The region keeps the promise of an allocator: its blocks are disjoint, keep
\* their contents, and carry them over when they are remapped.
THEOREM Refinement == Spec => ImplementsHeap
<1>1. Init => Abstract!Init
  BY DEF Init, Abstract!Init, Seen
<1> QED
  BY <1>1, Invariance, StepRefines, PTL DEF Spec, ImplementsHeap, Abstract!Spec
=============================================================================
