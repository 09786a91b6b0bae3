------------------------------ MODULE Annex_proof ------------------------------
(***************************************************************************)
(* The annex keeps the promise of an allocator whatever the fallback does  *)
(* that an allocator may do, and hands each block to the allocator it is   *)
(* of: for every capacity, set of sizes and set of the fallback's places.  *)
(***************************************************************************)
EXTENDS Annex, BumpBlock_proof

\* The blocks at K that the region owns, as its client has them.
NearPart(K) == [p \in {x \in K : IsOwned(x)} |-> live[p]]

\* The block at p has in g the n bytes "tag".
FarHolds(g, p, n, tag) == p \in DOMAIN g /\ g[p] = [i \in 1 .. n |-> tag]

\* The region's blocks are laid out in it as in a region without an annex, and
\* the fallback has the others.
IInv ==
    /\ live \in [DOMAIN live -> [len : Sizes, tag : Tags]]
    /\ Held(Capacity, near, NearPart(DOMAIN live))
    /\ DOMAIN far \subseteq FarAddresses
    /\ \A p \in DOMAIN live :
          IsOwned(p) \/ FarHolds(far, p, live[p].len, live[p].tag)

-----------------------------------------------------------------------------
(* Where blocks are.                                                       *)

\* No address of the fallback is one of the region.
LEMMA FarAway ==
  ASSUME NEW p \in FarAddresses
  PROVE  p \in Nat /\ p > Capacity /\ p # NULL /\ ~IsOwned(p)
  BY AnnexAssumption DEF IsOwned, NULL

\* A block of the client.
LEMMA LiveBlock ==
  ASSUME IInv, NEW p \in DOMAIN live
  PROVE  /\ p \in Nat /\ p # NULL
         /\ live[p] \in [len : Sizes, tag : Tags] /\ live[p] \in [len : Nat, tag : Nat]
         /\ IsOwned(p) => /\ p \in DOMAIN NearPart(DOMAIN live)
                          /\ NearPart(DOMAIN live)[p] = live[p]
                          /\ p + live[p].len <= near.size /\ near.size <= Capacity
         /\ ~IsOwned(p) => /\ p \in FarAddresses
                           /\ FarHolds(far, p, live[p].len, live[p].tag)
<1> USE AnnexAssumption, BumpAssumption
<1>1. live[p] \in [len : Sizes, tag : Tags] /\ live[p] \in [len : Nat, tag : Nat]
  BY DEF IInv
<1>2. CASE IsOwned(p)
  <2>1. /\ p \in DOMAIN NearPart(DOMAIN live) /\ NearPart(DOMAIN live)[p] = live[p]
    BY <1>2 DEF NearPart
  <2>2. Held(Capacity, near, NearPart(DOMAIN live))
    BY DEF IInv
  <2>3. p \in Nat /\ p + live[p].len <= near.size /\ near.size <= Capacity
    BY <2>1, <2>2, HeldApart
  <2> QED
    BY <1>1, <1>2, <2>1, <2>3 DEF IsOwned
<1>3. CASE ~IsOwned(p)
  <2>1. FarHolds(far, p, live[p].len, live[p].tag) /\ p \in FarAddresses
    BY <1>3 DEF IInv, FarHolds
  <2> QED
    BY <1>1, <1>3, <2>1, FarAway
<1> QED
  BY <1>2, <1>3

\* The client's blocks lie apart, those of the region and those of the fallback.
LEMMA LiveApart ==
  ASSUME IInv, NEW p \in DOMAIN live, NEW q \in DOMAIN live, p # q
  PROVE  p + live[p].len <= q \/ q + live[q].len <= p
<1> USE AnnexAssumption
<1>1. ASSUME NEW x \in DOMAIN live, NEW y \in DOMAIN live, IsOwned(x), ~IsOwned(y)
      PROVE  x + live[x].len <= y
  <2>1. /\ x \in Nat /\ live[x].len \in Nat /\ near.size \in Nat
        /\ x + live[x].len <= near.size /\ near.size <= Capacity
    BY <1>1, LiveBlock, HeldApart, BlockParts DEF IInv, Held
  <2>2. y \in Nat /\ y > Capacity
    BY <1>1, LiveBlock, FarAway
  <2> QED
    BY <2>1, <2>2
<1>2. CASE IsOwned(p) /\ IsOwned(q)
  <2>1. PICK L : L = NearPart(DOMAIN live)
    OBVIOUS
  <2>2. /\ p \in DOMAIN L /\ q \in DOMAIN L /\ L[p] = live[p] /\ L[q] = live[q]
        /\ Held(Capacity, near, L)
    BY <1>2, <2>1, LiveBlock DEF IInv
  <2> QED
    BY <2>2, HeldApart
<1>3. CASE IsOwned(p) /\ ~IsOwned(q)
  BY <1>1, <1>3
<1>4. CASE ~IsOwned(p) /\ IsOwned(q)
  BY <1>1, <1>4
<1>5. CASE ~IsOwned(p) /\ ~IsOwned(q)
  <2>1. /\ p \in FarAddresses /\ q \in FarAddresses /\ p \in Nat /\ q \in Nat
        /\ live[p].len \in Sizes /\ live[q].len \in Sizes
    BY <1>5, LiveBlock
  <2>2. p < q \/ q < p
    BY <2>1
  <2> QED
    BY <2>1, <2>2
<1> QED
  BY <1>2, <1>3, <1>4, <1>5

\* The invariant that the run checks.
LEMMA OwnersPart == IInv => EachHasItsOwner
  BY LiveBlock DEF EachHasItsOwner, FarHolds

-----------------------------------------------------------------------------
(* Steps.  "b" and "g" are a region and a fallback on the way to the next  *)
(* state.                                                                  *)

\* They have the client's blocks at K as they are.
Stays(K, b, g) ==
    /\ Held(Capacity, b, NearPart(K))
    /\ DOMAIN g \subseteq FarAddresses
    /\ \A p \in K : IsOwned(p) \/ FarHolds(g, p, live[p].len, live[p].tag)

\* They do now.
LEMMA StaysNow == IInv => Stays(DOMAIN live, near, far)
  BY DEF IInv, Stays

\* Of fewer blocks, more so.
LEMMA StaysSubset ==
  ASSUME NEW K \in SUBSET DOMAIN live, NEW b, NEW g, Stays(K, b, g), NEW T \in SUBSET K
  PROVE  Stays(T, b, g)
<1>1. PICK L : L = NearPart(K)
  OBVIOUS
<1>2. PICK S : S = {x \in T : IsOwned(x)}
  OBVIOUS
<1>3. NearPart(T) = [x \in S |-> L[x]] /\ S \in SUBSET DOMAIN L
  BY <1>1, <1>2 DEF NearPart
<1>4. Held(Capacity, b, L)
  BY <1>1 DEF Stays
<1>5. Held(Capacity, b, NearPart(T))
  BY <1>3, <1>4, HeldSubset, AnnexAssumption
<1> QED
  BY <1>5 DEF Stays

\* What a step has done that gave the client n bytes "tag" at q, and left it
\* what it had at K.
Gives(K, q, n, tag) ==
    /\ q \notin K
    /\ live' = Gets(live, K, q, n, tag)
    /\ Held(Capacity, near', NearPart(DOMAIN live)')
    /\ DOMAIN far' \subseteq FarAddresses
    /\ \A p \in K : IsOwned(p) \/ FarHolds(far', p, live[p].len, live[p].tag)
    /\ IsOwned(q) \/ FarHolds(far', q, n, tag)

\* Such a step keeps the invariant.
LEMMA GivesIInv ==
  ASSUME IInv, NEW K \in SUBSET DOMAIN live, NEW q, NEW n \in Sizes, NEW tag \in Tags,
         Gives(K, q, n, tag)
  PROVE  IInv'
<1>1. /\ DOMAIN live' = K \cup {q} /\ live'[q] = [len |-> n, tag |-> tag]
      /\ \A x \in K : live'[x] = live[x] /\ x # q
      /\ live' = [x \in DOMAIN live' |-> live'[x]]
  BY DEF Gives, Gets
<1>2. \A x \in DOMAIN live' : live'[x] \in [len : Sizes, tag : Tags]
  BY <1>1, LiveBlock
<1>3. live' \in [DOMAIN live' -> [len : Sizes, tag : Tags]]
  BY <1>1, <1>2
<1>4. ASSUME NEW x \in DOMAIN live'
      PROVE  IsOwned(x) \/ FarHolds(far', x, live'[x].len, live'[x].tag)
  <2>1. CASE x = q
    BY <2>1, <1>1 DEF Gives
  <2>2. CASE x \in K
    BY <2>2, <1>1 DEF Gives
  <2> QED
    BY <2>1, <2>2, <1>1
<1> QED
  BY <1>3, <1>4 DEF IInv, Gives, FarHolds

\* The client fills a block that the region gave it.
LEMMA NearGives ==
  ASSUME IInv, NEW K \in SUBSET DOMAIN live, NEW c, NEW q, IsOwned(q), NEW n \in Nat,
         Given(Capacity, near, c, {x \in K : IsOwned(x)}, q, n),
         NEW had \in Nat, NEW tag \in Nat, Starts(c, q, had, n, tag),
         near' = [c EXCEPT !.mem = Fill(@, q + had, n - had, tag)],
         far' = far, live' = Gets(live, K, q, n, tag)
  PROVE  Gives(K, q, n, tag)
<1> USE AnnexAssumption
<1>1. PICK S : S = {x \in K : IsOwned(x)}
  OBVIOUS
<1>2. PICK L : L = NearPart(DOMAIN live)
  OBVIOUS
<1>3. q \notin K /\ c \in Blocks(Capacity) /\ Given(Capacity, near, c, S, q, n)
  BY <1>1 DEF Given
<1>4. /\ S \in SUBSET DOMAIN L /\ Held(Capacity, near, L)
      /\ \A x \in S : L[x] = live[x]
  BY <1>1, <1>2 DEF NearPart, IInv
<1>5. NearPart(DOMAIN live)' = Gets(L, S, q, n, tag)
  <2>1. DOMAIN live' = K \cup {q} /\ \A x \in K \cup {q} :
           live'[x] = IF x = q THEN [len |-> n, tag |-> tag] ELSE live[x]
    BY DEF Gets
  <2>2. {x \in DOMAIN live' : IsOwned(x)} = S \cup {q}
    BY <1>1, <2>1
  <2>3. NearPart(DOMAIN live)' = [p \in S \cup {q} |-> live'[p]]
    BY <2>2 DEF NearPart
  <2> QED
    BY <1>1, <1>4, <2>1, <2>3 DEF Gets
<1>6. near' = [size |-> c.size, capacity |-> Capacity,
               mem |-> Fill(c.mem, q + had, n - had, tag)]
  BY <1>3, BlockParts
<1>7. Held(Capacity, near', NearPart(DOMAIN live)')
  <2>1. PICK M : M = Gets(L, S, q, n, tag)
    OBVIOUS
  <2>2. PICK d : d = [size |-> c.size, capacity |-> Capacity,
                      mem |-> Fill(c.mem, q + had, n - had, tag)]
    OBVIOUS
  <2>3. Held(Capacity, d, M)
    BY <1>3, <1>4, <2>1, <2>2, HeldFilled
  <2> QED
    BY <1>5, <1>6, <2>1, <2>2, <2>3
<1> QED
  BY <1>3, <1>7 DEF Gives, IInv

\* The block at q is one that g has for the client, beside those at K, with room
\* for n bytes of which "had" are filled.
Ready(g, K, q, had, n, tag) ==
    /\ q \in FarAddresses /\ q \in DOMAIN g /\ q \notin K
    /\ DOMAIN g[q] = 1 .. n
    /\ \A i \in 1 .. n : i <= had => g[q][i] = tag

\* The client fills a block of the fallback.
LEMMA FarGives ==
  ASSUME IInv, NEW K \in SUBSET DOMAIN live, NEW b, NEW g, Stays(K, b, g),
         NEW q, NEW n \in Nat, NEW had \in Nat, NEW tag \in Nat,
         Ready(g, K, q, had, n, tag),
         near' = b,
         far' = [g EXCEPT ![q] = [i \in DOMAIN @ |-> IF i > had THEN tag ELSE @[i]]],
         live' = Gets(live, K, q, n, tag)
  PROVE  Gives(K, q, n, tag)
<1>1. /\ q \in FarAddresses /\ q \in DOMAIN g /\ q \notin K /\ ~IsOwned(q)
      /\ DOMAIN g[q] = 1 .. n
      /\ \A i \in 1 .. n : i <= had => g[q][i] = tag
  BY FarAway DEF Ready
<1>2. PICK s : s = [i \in 1 .. n |-> IF i > had THEN tag ELSE g[q][i]]
  OBVIOUS
<1>3. /\ DOMAIN far' = DOMAIN g /\ far'[q] = s
      /\ \A x \in DOMAIN g : x # q => far'[x] = g[x]
  BY <1>1, <1>2
<1>4. s = [i \in 1 .. n |-> tag]
  <2>1. ASSUME NEW i \in 1 .. n PROVE (IF i > had THEN tag ELSE g[q][i]) = tag
    BY <1>1
  <2> QED
    BY <1>2, <2>1
<1>5. \A x \in K : IsOwned(x) \/ FarHolds(far', x, live[x].len, live[x].tag)
  BY <1>1, <1>3 DEF Stays, FarHolds
<1>6. NearPart(DOMAIN live)' = NearPart(K)
  <2>1. DOMAIN live' = K \cup {q} /\ \A x \in K : live'[x] = live[x]
    BY <1>1 DEF Gets
  <2>2. {x \in DOMAIN live' : IsOwned(x)} = {x \in K : IsOwned(x)}
    BY <1>1, <2>1
  <2> QED
    BY <2>1, <2>2 DEF NearPart
<1>7. Held(Capacity, near', NearPart(DOMAIN live)')
  BY <1>6 DEF Stays
<1>8. DOMAIN far' \subseteq FarAddresses /\ FarHolds(far', q, n, tag)
  BY <1>1, <1>3, <1>4 DEF Stays, FarHolds
<1> QED
  BY <1>1, <1>5, <1>7, <1>8 DEF Gives

\* What the fallback may answer when it is asked for n bytes: nothing that it has
\* for the client is lost, and a block it gives is another one.
LEMMA FallbackAllocStays ==
  ASSUME IInv, NEW K \in SUBSET DOMAIN live, NEW b, NEW g, Stays(K, b, g),
         NEW n \in Nat, NEW r \in FallbackAlloc(g, n)
  PROVE  /\ Stays(K, b, r.far)
         /\ r.buf # NULL => \A tag \in Nat : Ready(r.far, K, r.buf, 0, n, tag)
<1>1. CASE r = FallbackFails(g)
  BY <1>1 DEF FallbackFails
<1>2. ASSUME NEW q \in FarAddresses \ DOMAIN g,
             r = [far |-> WithBlock(g, q, [i \in 1 .. n |-> 0]), buf |-> q]
      PROVE  /\ Stays(K, b, r.far)
             /\ \A tag \in Nat : Ready(r.far, K, q, 0, n, tag)
  <2>1. PICK h : h = WithBlock(g, q, [i \in 1 .. n |-> 0])
    OBVIOUS
  <2>2. /\ r.far = h /\ DOMAIN h = DOMAIN g \cup {q} /\ h[q] = [i \in 1 .. n |-> 0]
        /\ \A x \in DOMAIN g : h[x] = g[x]
    BY <1>2, <2>1 DEF WithBlock
  <2>3. q \notin K
    BY FarAway DEF Stays, FarHolds
  <2>4. Stays(K, b, h)
    BY <2>2 DEF Stays, FarHolds
  <2>5. ASSUME NEW tag \in Nat PROVE Ready(h, K, q, 0, n, tag)
    BY <2>2, <2>3 DEF Ready
  <2> QED
    BY <2>2, <2>4, <2>5
<1>3. \/ r = FallbackFails(g)
      \/ \E q \in FarAddresses \ DOMAIN g :
            r = [far |-> WithBlock(g, q, [i \in 1 .. n |-> 0]), buf |-> q]
  BY DEF FallbackAlloc
<1> QED
  BY <1>1, <1>2, <1>3

\* What the fallback may answer to a remap of its block at p.
LEMMA FallbackRemapStays ==
  ASSUME IInv, NEW p \in DOMAIN live, ~IsOwned(p), NEW n \in Nat,
         NEW r \in FallbackRemap(far, p, n), r.buf # NULL
  PROVE  /\ Stays(DOMAIN live \ {p}, near, r.far)
         /\ Ready(r.far, DOMAIN live \ {p}, r.buf, live[p].len, n, live[p].tag)
<1> USE AnnexAssumption
<1>1. PICK l : l = live[p].len
  OBVIOUS
<1>2. PICK tag : tag = live[p].tag
  OBVIOUS
<1>3. PICK K : K = DOMAIN live \ {p}
  OBVIOUS
<1>4. /\ p # NULL /\ l \in Nat /\ tag \in Nat /\ p \in DOMAIN far /\ p \in FarAddresses
      /\ far[p] = [i \in 1 .. l |-> tag]
  BY <1>1, <1>2, LiveBlock DEF FarHolds
<1>5. PICK q \in (FarAddresses \ DOMAIN far) \cup {p} :
         r = [far |-> WithBlock(Without(far, p), q, Resized(far[p], n)), buf |-> q]
  BY <1>4 DEF FallbackRemap, FallbackFails
<1>6. PICK h : h = WithBlock(Without(far, p), q, Resized(far[p], n))
  OBVIOUS
<1>7. PICK s : s = far[p]
  OBVIOUS
<1>8. s = [i \in 1 .. l |-> tag] /\ Len(s) = l /\ \A i \in 1 .. l : s[i] = tag
  BY <1>4, <1>7, RunProperties
<1>9. /\ r.far = h /\ r.buf = q
      /\ DOMAIN h = (DOMAIN far \ {p}) \cup {q}
      /\ h[q] = [i \in 1 .. n |-> IF i <= l THEN s[i] ELSE 0]
      /\ \A x \in DOMAIN far \ {p} : x # q => h[x] = far[x]
  BY <1>5, <1>6, <1>7, <1>8 DEF WithBlock, Without, Resized
<1>10. q \in FarAddresses /\ ~IsOwned(q) /\ (q \in DOMAIN far => q = p)
  BY <1>4, FarAway
<1>11. Stays(K, near, far)
  BY <1>3, StaysNow, StaysSubset
<1>12. q \notin K
  BY <1>3, <1>10, <1>11 DEF Stays, FarHolds
<1>13. Stays(K, near, h)
  <2>1. ASSUME NEW x \in K PROVE IsOwned(x) \/ FarHolds(h, x, live[x].len, live[x].tag)
    <3>1. CASE FarHolds(far, x, live[x].len, live[x].tag)
      <4>1. x \in DOMAIN far \ {p} /\ x # q
        BY <1>3, <1>12, <3>1 DEF FarHolds
      <4> QED
        BY <1>9, <3>1, <4>1 DEF FarHolds
    <3> QED
      BY <1>11, <3>1 DEF Stays
  <2> QED
    BY <1>9, <1>10, <1>11, <2>1 DEF Stays
<1>14. Ready(h, K, q, l, n, tag)
  BY <1>8, <1>9, <1>10, <1>12 DEF Ready
<1> QED
  BY <1>1, <1>2, <1>3, <1>9, <1>13, <1>14

\* A block that leaves the region takes its contents along.
LEMMA CopyOutStays ==
  ASSUME IInv, NEW p \in DOMAIN live, IsOwned(p), NEW n \in Nat,
         NEW r \in FallbackAlloc(far, n), r.buf # NULL,
         NEW g, g = CopyOut(near, p, r.far, r.buf)
  PROVE  /\ Stays(DOMAIN live \ {p}, near, g)
         /\ Ready(g, DOMAIN live \ {p}, r.buf, live[p].len, n, live[p].tag)
<1> USE AnnexAssumption
<1>1. PICK l : l = live[p].len
  OBVIOUS
<1>2. PICK tag : tag = live[p].tag
  OBVIOUS
<1>3. PICK K : K = DOMAIN live \ {p}
  OBVIOUS
<1>4. PICK q : q = r.buf
  OBVIOUS
<1>5. PICK h : h = r.far
  OBVIOUS
<1>6. /\ l \in Nat /\ tag \in Nat /\ p \in Nat
      /\ l <= BufferSize(near, p) /\ BufferSize(near, p) \in Nat
      /\ \A i \in 0 .. l - 1 : near.mem[p + i] = tag
  <2>1. PICK L : L = NearPart(DOMAIN live)
    OBVIOUS
  <2>2. /\ p \in DOMAIN L /\ L[p] = live[p] /\ Held(Capacity, near, L)
        /\ live[p] \in [len : Nat, tag : Nat] /\ p \in Nat
    BY <2>1, LiveBlock DEF IInv
  <2>3. near \in Blocks(Capacity) /\ Laid(near, DOMAIN L)
    BY <2>2 DEF Held
  <2>4. BufferSize(near, p) \in Nat
    BY <2>2, <2>3, LaidAt
  <2> QED
    BY <1>1, <1>2, <2>2, <2>4 DEF Held
<1>7. K \in SUBSET DOMAIN live /\ Stays(K, near, far)
  BY <1>3, StaysNow, StaysSubset
<1>8. Stays(K, near, h) /\ Ready(h, K, q, 0, n, tag)
  BY <1>4, <1>5, <1>6, <1>7, FallbackAllocStays
<1>9. q \in DOMAIN h /\ DOMAIN h[q] = 1 .. n /\ q \in FarAddresses /\ q \notin K
  BY <1>8 DEF Ready
<1>10. /\ DOMAIN g = DOMAIN h
       /\ g[q] = [i \in 1 .. n |-> IF i <= BufferSize(near, p)
                                   THEN near.mem[p + i - 1] ELSE h[q][i]]
       /\ \A x \in DOMAIN h : x # q => g[x] = h[x]
  BY <1>4, <1>5, <1>9 DEF CopyOut
<1>11. Stays(K, near, g)
  BY <1>8, <1>9, <1>10 DEF Stays, FarHolds
<1>12. ASSUME NEW i \in 1 .. n, i <= l PROVE g[q][i] = tag
  <2>1. i - 1 \in 0 .. l - 1 /\ p + (i - 1) = p + i - 1 /\ i <= BufferSize(near, p)
    BY <1>6, <1>12
  <2> QED
    BY <1>6, <1>10, <2>1
<1>13. Ready(g, K, q, l, n, tag)
  BY <1>9, <1>10, <1>12 DEF Ready
<1> QED
  BY <1>1, <1>2, <1>3, <1>4, <1>11, <1>13

-----------------------------------------------------------------------------
(* Each action gives a block or nothing.                                   *)

\* What a step has done that gave the client nothing: none of its blocks is lost.
GivesNone == live' = live /\ Stays(DOMAIN live, near', far')

\* A call for n bytes, of the client that gives up the block at p for it.
LEMMA ReceivesFar ==
  ASSUME IInv, NEW p, NEW o, NEW n \in Nat, NEW had \in Nat, NEW tag \in Nat,
         Stays(DOMAIN live \ {p}, o.near, o.far),
         Ready(o.far, DOMAIN live \ {p}, o.buf, had, n, tag),
         Receives(o, p, had, n, tag)
  PROVE  Gives(DOMAIN live \ {p}, o.buf, n, tag)
<1>1. ~IsOwned(o.buf)
  BY FarAway DEF Ready
<1>2. /\ near' = o.near
      /\ far' = [o.far EXCEPT ![o.buf] = [i \in DOMAIN @ |-> IF i > had THEN tag ELSE @[i]]]
      /\ live' = Gets(live, DOMAIN live \ {p}, o.buf, n, tag)
  BY <1>1 DEF Receives, Gets
<1> QED
  BY <1>2, FarGives

\* annex_alloc.
LEMMA AllocGives ==
  ASSUME IInv, NEW n \in Nat, NEW tag \in Nat, Alloc(n, tag)
  PROVE  GivesNone \/ \E q : Gives(DOMAIN live, q, n, tag)
<1> USE AnnexAssumption
<1>1. PICK o \in AnnexAlloc(near, far, n) :
         IF o.buf = NULL THEN ReceivesNone(o) ELSE Receives(o, NULL, 0, n, tag)
  BY DEF Alloc
<1>2. DOMAIN live \ {NULL} = DOMAIN live
  BY LiveBlock
<1>3. PICK new : new = RegionAlloc(near, n)
  OBVIOUS
<1>4. CASE new.buf # NULL
  <2>1. o = [near |-> new.block, far |-> far, buf |-> new.buf]
    BY <1>1, <1>3, <1>4 DEF AnnexAlloc
  <2>2. PICK S : S = {x \in DOMAIN live : IsOwned(x)}
    OBVIOUS
  <2>3. near \in Blocks(Capacity) /\ Laid(near, S)
    <3>1. DOMAIN NearPart(DOMAIN live) = S
      BY <2>2 DEF NearPart
    <3> QED
      BY <3>1 DEF IInv, Held
  <2>4. Given(Capacity, near, new.block, S, new.buf, n) /\ new.buf < Capacity
    BY <1>3, <1>4, <2>3, RegionAllocGives
  <2>5. IsOwned(new.buf)
    BY <1>4, <2>4 DEF IsOwned
  <2>6. /\ near' = [new.block EXCEPT !.mem = Fill(@, new.buf + 0, n - 0, tag)]
        /\ far' = far /\ live' = Gets(live, DOMAIN live, new.buf, n, tag)
    BY <1>1, <1>2, <1>4, <2>1, <2>5 DEF Receives, Gets
  <2>7. Starts(new.block, new.buf, 0, n, tag)
    BY DEF Starts
  <2>8. Gives(DOMAIN live, new.buf, n, tag)
    BY <2>2, <2>4, <2>5, <2>6, <2>7, NearGives
  <2> QED
    BY <2>8
<1>5. CASE new.buf = NULL
  <2>1. PICK r \in FallbackAlloc(far, n) : o = Outcome(near, r)
    BY <1>1, <1>3, <1>5 DEF AnnexAlloc
  <2>2. o.near = near /\ o.far = r.far /\ o.buf = r.buf
    BY <2>1 DEF Outcome
  <2>3. /\ Stays(DOMAIN live, near, r.far)
        /\ r.buf # NULL => Ready(r.far, DOMAIN live, r.buf, 0, n, tag)
    BY StaysNow, FallbackAllocStays
  <2>4. CASE o.buf = NULL
    BY <1>1, <2>2, <2>3, <2>4 DEF ReceivesNone, GivesNone
  <2>5. CASE o.buf # NULL
    <3>1. Gives(DOMAIN live \ {NULL}, o.buf, n, tag)
      BY <1>1, <1>2, <2>2, <2>3, <2>5, ReceivesFar
    <3> QED
      BY <1>2, <3>1
  <2> QED
    BY <2>4, <2>5
<1> QED
  BY <1>4, <1>5

\* annex_remap(NULL, n): what is allocated first, if anything, is lost.
LEMMA RemapNullGives ==
  ASSUME IInv, NEW n \in Nat, NEW tag \in Nat, RemapNull(n, tag)
  PROVE  GivesNone \/ \E q : Gives(DOMAIN live, q, n, tag)
<1> USE AnnexAssumption
<1>1. PICK o \in AnnexRemap(near, far, NULL, n) :
         IF o.buf = NULL THEN ReceivesNone(o) ELSE Receives(o, NULL, 0, n, tag)
  BY DEF RemapNull
<1>2. DOMAIN live \ {NULL} = DOMAIN live
  BY LiveBlock
<1>3. PICK a \in AnnexAlloc(near, far, n) :
         \E r \in FallbackAlloc(a.far, n) : o = Outcome(a.near, r)
  BY <1>1 DEF AnnexRemap, FallbackRemap
<1>4. PICK r \in FallbackAlloc(a.far, n) : o = Outcome(a.near, r)
  BY <1>3
<1>5. Stays(DOMAIN live, a.near, a.far)
  <2>1. PICK new : new = RegionAlloc(near, n)
    OBVIOUS
  <2>2. CASE new.buf # NULL
    <3>1. a.near = new.block /\ a.far = far
      BY <1>3, <2>1, <2>2 DEF AnnexAlloc
    <3>2. Held(Capacity, new.block, NearPart(DOMAIN live))
      BY <2>1, HeldAlloc DEF IInv
    <3> QED
      BY <3>1, <3>2, StaysNow DEF Stays
  <2>3. CASE new.buf = NULL
    <3>1. PICK first \in FallbackAlloc(far, n) : a = Outcome(near, first)
      BY <1>3, <2>1, <2>3 DEF AnnexAlloc
    <3>2. Stays(DOMAIN live, near, first.far)
      BY StaysNow, FallbackAllocStays
    <3> QED
      BY <3>1, <3>2 DEF Outcome
  <2> QED
    BY <2>2, <2>3
<1>6. /\ Stays(DOMAIN live, a.near, r.far)
      /\ r.buf # NULL => Ready(r.far, DOMAIN live, r.buf, 0, n, tag)
  BY <1>5, FallbackAllocStays
<1>7. o.near = a.near /\ o.far = r.far /\ o.buf = r.buf
  BY <1>4 DEF Outcome
<1>8. CASE o.buf = NULL
  BY <1>1, <1>6, <1>7, <1>8 DEF ReceivesNone, GivesNone
<1>9. CASE o.buf # NULL
  <2>1. Gives(DOMAIN live \ {NULL}, o.buf, n, tag)
    BY <1>1, <1>2, <1>6, <1>7, <1>9, ReceivesFar
  <2> QED
    BY <1>2, <2>1
<1> QED
  BY <1>8, <1>9

\* annex_remap of a block in the region that still has room for it.
LEMMA RemapNearGives ==
  ASSUME IInv, NEW p \in DOMAIN live, IsOwned(p), NEW n \in Nat,
         NEW new, new = RegionRemap(near, p, n), new.buf # NULL,
         NEW o, o = [near |-> new.block, far |-> far, buf |-> new.buf],
         Receives(o, p, live[p].len, n, live[p].tag)
  PROVE  Gives(DOMAIN live \ {p}, new.buf, n, live[p].tag)
<1>0. Capacity \in Nat
  BY AnnexAssumption
<1>1. PICK l : l = live[p].len
  OBVIOUS
<1>2. PICK tag : tag = live[p].tag
  OBVIOUS
<1>3. PICK K : K = DOMAIN live \ {p}
  OBVIOUS
<1>4. PICK S : S = {x \in DOMAIN live : IsOwned(x)}
  OBVIOUS
<1>5. p \in S /\ {x \in K : IsOwned(x)} = S \ {p}
  BY <1>3, <1>4
<1>6. near \in Blocks(Capacity) /\ Laid(near, S)
  <2>1. DOMAIN NearPart(DOMAIN live) = S
    BY <1>4 DEF NearPart
  <2> QED
    BY <2>1 DEF IInv, Held
<1>7. /\ Given(Capacity, near, new.block, S \ {p}, new.buf, n)
      /\ new.buf = p \/ new.buf < Capacity
      /\ Carried(near, p, BufferSize(near, p), new.block, new.buf, n)
  BY <1>0, <1>5, <1>6, RegionRemapGives
<1>8. /\ l \in Nat /\ tag \in Nat /\ l <= BufferSize(near, p)
      /\ \A i \in 0 .. l - 1 : near.mem[p + i] = tag
  <2>1. PICK L : L = NearPart(DOMAIN live)
    OBVIOUS
  <2>2. /\ p \in DOMAIN L /\ L[p] = live[p] /\ Held(Capacity, near, L)
        /\ live[p] \in [len : Nat, tag : Nat]
    BY <2>1, LiveBlock DEF IInv
  <2> QED
    BY <1>1, <1>2, <2>2 DEF Held
<1>9. Starts(new.block, new.buf, l, n, tag)
  <2>1. BufferSize(near, p) \in Nat
    BY <1>0, <1>5, <1>6, LaidAt
  <2>2. ASSUME NEW i \in 0 .. l - 1 PROVE i \in 0 .. BufferSize(near, p) - 1
    BY <1>8, <2>1
  <2> QED
    BY <1>7, <1>8, <2>2 DEF Carried, Starts
<1>10. IsOwned(new.buf)
  BY <1>7 DEF IsOwned
<1>11. /\ near' = [new.block EXCEPT !.mem = Fill(@, new.buf + l, n - l, tag)]
       /\ far' = far /\ live' = Gets(live, K, new.buf, n, tag)
  BY <1>1, <1>2, <1>3, <1>10 DEF Receives, Gets
<1>12. Gives(K, new.buf, n, tag)
  <2>1. Given(Capacity, near, new.block, {x \in K : IsOwned(x)}, new.buf, n)
    BY <1>5, <1>7
  <2>2. K \in SUBSET DOMAIN live
    BY <1>3
  <2> QED
    BY <1>8, <1>9, <1>10, <1>11, <2>1, <2>2, NearGives
<1> QED
  BY <1>2, <1>3, <1>12

\* annex_remap.
LEMMA RemapGives ==
  ASSUME IInv, NEW p \in DOMAIN live, NEW n \in Nat, Remap(p, n)
  PROVE  GivesNone \/ \E q : Gives(DOMAIN live \ {p}, q, n, live[p].tag)
<1> USE AnnexAssumption
<1>1. PICK o \in AnnexRemap(near, far, p, n) :
         IF o.buf = NULL THEN ReceivesNone(o)
                         ELSE Receives(o, p, live[p].len, n, live[p].tag)
  BY DEF Remap
<1>2. p # NULL /\ live[p].len \in Nat /\ live[p].tag \in Nat
  BY LiveBlock
<1>3. CASE IsOwned(p)
  <2>1. PICK new : new = RegionRemap(near, p, n)
    OBVIOUS
  <2>2. o \in AnnexRemapOwned(near, far, p, n)
    BY <1>1, <1>2, <1>3 DEF AnnexRemap
  <2>3. CASE new.buf # NULL
    <3>1. o = [near |-> new.block, far |-> far, buf |-> new.buf]
      BY <2>1, <2>2, <2>3 DEF AnnexRemapOwned
    <3>2. Receives(o, p, live[p].len, n, live[p].tag)
      BY <1>1, <2>3, <3>1
    <3> QED
      BY <1>3, <2>1, <2>3, <3>1, <3>2, RemapNearGives
  <2>4. CASE new.buf = NULL
    <3>1. PICK r \in FallbackAlloc(far, n) :
             o = IF r.buf = NULL
                 THEN Outcome(near, r)
                 ELSE [near |-> near, far |-> CopyOut(near, p, r.far, r.buf), buf |-> r.buf]
      BY <2>1, <2>2, <2>4 DEF AnnexRemapOwned
    <3>2. CASE r.buf = NULL
      <4>1. o.near = near /\ o.far = r.far /\ o.buf = NULL
        BY <3>1, <3>2 DEF Outcome
      <4>2. Stays(DOMAIN live, near, r.far)
        BY StaysNow, FallbackAllocStays
      <4> QED
        BY <1>1, <4>1, <4>2 DEF ReceivesNone, GivesNone
    <3>3. CASE r.buf # NULL
      <4>1. PICK g : g = CopyOut(near, p, r.far, r.buf)
        OBVIOUS
      <4>2. o.near = near /\ o.far = g /\ o.buf = r.buf
        BY <3>1, <3>3, <4>1
      <4>3. /\ Stays(DOMAIN live \ {p}, near, g)
            /\ Ready(g, DOMAIN live \ {p}, r.buf, live[p].len, n, live[p].tag)
        BY <1>3, <3>3, <4>1, CopyOutStays
      <4>4. Gives(DOMAIN live \ {p}, o.buf, n, live[p].tag)
        BY <1>1, <1>2, <3>3, <4>2, <4>3, ReceivesFar
      <4> QED
        BY <4>4
    <3> QED
      BY <3>2, <3>3
  <2> QED
    BY <2>3, <2>4
<1>4. CASE ~IsOwned(p)
  <2>1. PICK r \in FallbackRemap(far, p, n) : o = Outcome(near, r)
    BY <1>1, <1>2, <1>4 DEF AnnexRemap
  <2>2. o.near = near /\ o.far = r.far /\ o.buf = r.buf
    BY <2>1 DEF Outcome
  <2>3. CASE r.buf = NULL
    <3>1. r.far = far
      <4>1. ASSUME NEW q \in (FarAddresses \ DOMAIN far) \cup {p} PROVE q # NULL
        BY <1>2, FarAway
      <4> QED
        BY <1>2, <2>1, <2>3, <4>1 DEF FallbackRemap, FallbackFails
    <3> QED
      BY <1>1, <2>2, <2>3, <3>1, StaysNow DEF ReceivesNone, GivesNone
  <2>4. CASE r.buf # NULL
    <3>1. /\ Stays(DOMAIN live \ {p}, near, r.far)
          /\ Ready(r.far, DOMAIN live \ {p}, r.buf, live[p].len, n, live[p].tag)
      BY <1>4, <2>1, <2>4, FallbackRemapStays
    <3>2. Gives(DOMAIN live \ {p}, o.buf, n, live[p].tag)
      BY <1>1, <1>2, <2>2, <2>4, <3>1, ReceivesFar
    <3> QED
      BY <3>2
  <2> QED
    BY <2>3, <2>4
<1> QED
  BY <1>3, <1>4

-----------------------------------------------------------------------------
(* The invariant.                                                          *)

\* Nothing is lost of a client that gets nothing.
LEMMA GivesNoneIInv ==
  ASSUME IInv, GivesNone
  PROVE  IInv'
<1>1. live' = live /\ NearPart(DOMAIN live)' = NearPart(DOMAIN live)
  BY DEF GivesNone, NearPart
<1>2. Held(Capacity, near', NearPart(DOMAIN live)')
  BY <1>1 DEF GivesNone, Stays
<1> QED
  BY <1>1, <1>2 DEF IInv, GivesNone, Stays, FarHolds

\* No block is live at first.
LEMMA InitIInv == Init => IInv
<1> SUFFICES ASSUME Init PROVE IInv
  OBVIOUS
<1> USE BumpAssumption, AnnexAssumption
<1>1. DOMAIN live = {} /\ DOMAIN far = {} /\ live = [x \in {} |-> x]
  BY DEF Init
<1>2. near \in Blocks(Capacity)
  <2>1. 0 \in 0 .. Capacity /\ [a \in 0 .. Capacity - 1 |-> 0] \in [0 .. Capacity - 1 -> Nat]
    OBVIOUS
  <2> QED
    BY <2>1 DEF Init, Blocks
<1>3. NearPart(DOMAIN live) = [x \in {} |-> x]
  BY <1>1 DEF NearPart
<1> QED
  BY <1>1, <1>2, <1>3 DEF IInv, Held, Laid

\* annex_free.
LEMMA FreeIInv ==
  ASSUME IInv, NEW p \in DOMAIN live, Free(p)
  PROVE  IInv'
<1> USE AnnexAssumption
<1>1. PICK K : K = DOMAIN live \ {p}
  OBVIOUS
<1>2. /\ K \in SUBSET DOMAIN live
      /\ DOMAIN live' = K /\ \A x \in K : live'[x] = live[x]
      /\ live' = [x \in K |-> live[x]]
  BY <1>1 DEF Free, Without
<1>3. live' \in [DOMAIN live' -> [len : Sizes, tag : Tags]]
  <2>1. \A x \in K : live[x] \in [len : Sizes, tag : Tags]
    BY <1>2, LiveBlock
  <2> QED
    BY <1>2, <2>1
<1>4. NearPart(DOMAIN live)' = NearPart(K)
  BY <1>2 DEF NearPart
<1>5. Stays(K, near', far')
  <2>1. Stays(K, near, far)
    BY <1>2, StaysNow, StaysSubset
  <2>2. CASE IsOwned(p)
    <3>1. PICK L : L = NearPart(DOMAIN live)
      OBVIOUS
    <3>2. p \in DOMAIN L /\ Held(Capacity, near, L)
      BY <2>2, <3>1, LiveBlock DEF IInv
    <3>3. NearPart(K) = [x \in DOMAIN L \ {p} |-> L[x]]
      <4>1. {x \in K : IsOwned(x)} = DOMAIN L \ {p}
        BY <1>1, <3>1 DEF NearPart
      <4> QED
        BY <3>1, <4>1 DEF NearPart
    <3>4. near' = Release(near, p) /\ far' = far
      BY <2>2 DEF Free
    <3>5. Held(Capacity, near', NearPart(K))
      BY <3>2, <3>3, <3>4, HeldRelease
    <3> QED
      BY <2>1, <3>4, <3>5 DEF Stays
  <2>3. CASE ~IsOwned(p)
    <3>1. near' = near /\ DOMAIN far' = DOMAIN far \ {p}
          /\ \A x \in DOMAIN far \ {p} : far'[x] = far[x]
      BY <2>3 DEF Free, Without
    <3>2. ASSUME NEW x \in K PROVE IsOwned(x) \/ FarHolds(far', x, live[x].len, live[x].tag)
      BY <1>1, <2>1, <3>1 DEF Stays, FarHolds
    <3> QED
      BY <2>1, <3>1, <3>2 DEF Stays
  <2> QED
    BY <2>2, <2>3
<1> QED
  BY <1>2, <1>3, <1>4, <1>5 DEF IInv, Stays

\* Every step gives a block or nothing, or frees one.
LEMMA StepIInv == IInv /\ [Next]_vars => IInv'
<1> SUFFICES ASSUME IInv, [Next]_vars PROVE IInv'
  OBVIOUS
<1> USE AnnexAssumption
<1>1. CASE UNCHANGED vars
  <2>1. live' = live /\ near' = near /\ far' = far
    BY <1>1 DEF vars
  <2> QED
    BY <2>1, StaysNow, GivesNoneIInv DEF GivesNone
<1>2. ASSUME NEW n \in Sizes, NEW tag \in Tags, Alloc(n, tag) \/ RemapNull(n, tag)
      PROVE  IInv'
  <2>1. n \in Nat /\ tag \in Nat
    OBVIOUS
  <2>2. GivesNone \/ \E q : Gives(DOMAIN live, q, n, tag)
    BY <1>2, <2>1, AllocGives, RemapNullGives
  <2> QED
    BY <2>2, GivesIInv, GivesNoneIInv
<1>3. ASSUME NEW p \in DOMAIN live, NEW n \in Sizes, Remap(p, n)
      PROVE  IInv'
  <2>1. n \in Nat
    OBVIOUS
  <2>2. GivesNone \/ \E q : Gives(DOMAIN live \ {p}, q, n, live[p].tag)
    BY <1>3, <2>1, RemapGives
  <2>3. live[p].tag \in Tags /\ DOMAIN live \ {p} \in SUBSET DOMAIN live
    BY LiveBlock
  <2> QED
    BY <2>2, <2>3, GivesIInv, GivesNoneIInv
<1>4. ASSUME NEW p \in DOMAIN live, Free(p) PROVE IInv'
  BY <1>4, FreeIInv
<1> QED
  BY <1>1, <1>2, <1>3, <1>4 DEF Next

\* It holds of every reachable state.
THEOREM Invariance == Spec => []IInv
  BY InitIInv, StepIInv, PTL DEF Spec

\* Each block is one of the allocator that annex_free and annex_remap hand it to.
THEOREM OwnerSound == Spec => []EachHasItsOwner
  BY Invariance, OwnersPart, PTL

-----------------------------------------------------------------------------
(* The refinement of the abstract allocator.                               *)

\* The client sees its tags.
LEMMA SeenIs == IInv => Seen = Shown(live)
<1> SUFFICES ASSUME IInv PROVE Seen = Shown(live)
  OBVIOUS
<1> USE AnnexAssumption
<1>1. ASSUME NEW p \in DOMAIN live
      PROVE  (IF IsOwned(p) THEN [i \in 1 .. live[p].len |-> near.mem[p + i - 1]] ELSE far[p])
                = Shown(live)[p]
  <2>1. CASE IsOwned(p)
    <3>1. PICK L : L = NearPart(DOMAIN live)
      OBVIOUS
    <3>2. p \in DOMAIN L /\ L[p] = live[p] /\ Held(Capacity, near, L)
      BY <2>1, <3>1, LiveBlock DEF IInv
    <3>3. [i \in 1 .. L[p].len |-> near.mem[p + i - 1]] = Shown(L)[p]
      BY <3>2, HeldShown
    <3> QED
      BY <2>1, <3>2, <3>3 DEF Shown
  <2>2. CASE ~IsOwned(p)
    BY <2>2, LiveBlock DEF FarHolds, Shown
  <2> QED
    BY <2>1, <2>2
<1>2. Seen = [p \in DOMAIN live |-> Shown(live)[p]]
  BY <1>1 DEF Seen
<1> QED
  BY <1>2 DEF Shown

\* The same of the state after a step.
LEMMA SeenThen == IInv' => Seen' = Shown(live')
<1>1. (IInv => Seen = Shown(live))'
  BY SeenIs, PTL
<1> QED
  BY <1>1

\* Two blocks of the client lie apart.
LiesApart == \A p \in DOMAIN live, q \in DOMAIN live :
                 p # q => p + live[p].len <= q \/ q + live[q].len <= p

\* They do after a step.
LEMMA ApartThen == IInv' => LiesApart'
<1>1. IInv => LiesApart
  BY LiveApart DEF LiesApart
<1>2. (IInv => LiesApart)'
  BY <1>1, PTL
<1> QED
  BY <1>2

\* What the abstract allocator sees of n bytes "tag" at q, new beside those at K.
SeesNew(K, q, n, tag) ==
    /\ q \in DOMAIN Seen' /\ q \notin K
    /\ Seen'[q] = [i \in 1 .. n |-> tag]
    /\ Seen'[q] \in Seq(Nat)
    /\ Abstract!Clear(q, Seen'[q], K)
    /\ Seen' = [x \in K \cup {q} |-> IF x = q THEN Seen'[q] ELSE Seen[x]]

\* It sees that of a block that is given.
LEMMA GivesSeen ==
  ASSUME IInv, NEW K \in SUBSET DOMAIN live, NEW q, NEW n \in Sizes, NEW tag \in Tags,
         Gives(K, q, n, tag)
  PROVE  SeesNew(K, q, n, tag)
<1> USE AnnexAssumption
<1>1. Seen = Shown(live) /\ Seen' = Shown(live') /\ LiesApart'
  BY SeenIs, SeenThen, ApartThen, GivesIInv
<1>2. q \notin K /\ live' = Gets(live, K, q, n, tag) /\ n \in Nat /\ tag \in Nat
  BY DEF Gives
<1>3. live \in [DOMAIN live -> [len : Nat, tag : Nat]]
  <2>1. \A x \in DOMAIN live : live[x] \in [len : Nat, tag : Nat]
    BY LiveBlock
  <2> QED
    BY <2>1 DEF IInv
<1>4. ASSUME NEW x \in K PROVE q + n <= x \/ x + live[x].len <= q
  <2>1. /\ q \in DOMAIN live' /\ x \in DOMAIN live' /\ q # x
        /\ live'[q].len = n /\ live'[x] = live[x]
    BY <1>2 DEF Gets
  <2> QED
    BY <1>1, <2>1 DEF LiesApart
<1>5. ShowsNew(live, live', K, q, n, tag)
  BY <1>2, <1>3, <1>4, ShownNew DEF Apart
<1> QED
  BY <1>1, <1>2, <1>5 DEF ShowsNew, SeesNew, Abstract!Clear

\* Every step of the annex is one of the abstract allocator.
LEMMA StepRefines == IInv /\ [Next]_vars => [Abstract!Next]_Seen
<1> SUFFICES ASSUME IInv, [Next]_vars PROVE [Abstract!Next]_Seen
  OBVIOUS
<1> USE AnnexAssumption
<1>1. CASE UNCHANGED vars
  BY <1>1 DEF vars, Seen
<1>2. DOMAIN Seen = DOMAIN live
  BY DEF Seen
<1>3. ASSUME GivesNone PROVE Seen' = Seen
  <2>1. Seen = Shown(live) /\ Seen' = Shown(live')
    BY <1>3, SeenIs, SeenThen, GivesNoneIInv
  <2> QED
    BY <1>3, <2>1 DEF GivesNone
<1>4. ASSUME NEW n \in Sizes, NEW tag \in Tags, Alloc(n, tag) \/ RemapNull(n, tag)
      PROVE  [Abstract!Next]_Seen
  <2>1. n \in Nat /\ tag \in Nat
    OBVIOUS
  <2>2. GivesNone \/ \E q : Gives(DOMAIN live, q, n, tag)
    BY <1>4, <2>1, AllocGives, RemapNullGives
  <2>3. ASSUME NEW q, Gives(DOMAIN live, q, n, tag) PROVE Abstract!Alloc
    <3>1. /\ q \in DOMAIN Seen' \ DOMAIN Seen
          /\ Seen'[q] \in Seq(Nat)
          /\ Abstract!Clear(q, Seen'[q], DOMAIN Seen)
          /\ Seen' = [x \in DOMAIN Seen \cup {q} |-> IF x = q THEN Seen'[q] ELSE Seen[x]]
      <4>1. SeesNew(DOMAIN live, q, n, tag)
        BY <2>3, GivesSeen
      <4> QED
        BY <1>2, <4>1 DEF SeesNew
    <3>2. (DOMAIN Seen \ {q}) \cup {q} = DOMAIN Seen \cup {q}
      OBVIOUS
    <3>3. Seen' = Abstract!Moved(q, q, Seen'[q])
      BY <3>1, <3>2 DEF Abstract!Moved
    <3> QED
      BY <3>1, <3>3 DEF Abstract!Alloc
  <2> QED
    BY <1>3, <2>2, <2>3 DEF Abstract!Next
<1>5. ASSUME NEW p \in DOMAIN live, NEW n \in Sizes, Remap(p, n)
      PROVE  [Abstract!Next]_Seen
  <2>1. n \in Nat
    OBVIOUS
  <2>2. GivesNone \/ \E q : Gives(DOMAIN live \ {p}, q, n, live[p].tag)
    BY <1>5, <2>1, RemapGives
  <2>3. /\ live[p].tag \in Tags /\ live[p].tag \in Nat /\ live[p].len \in Nat
        /\ DOMAIN live \ {p} \in SUBSET DOMAIN live
        /\ Seen[p] = [i \in 1 .. live[p].len |-> live[p].tag]
    BY LiveBlock, SeenIs DEF Shown
  <2>4. ASSUME NEW q, Gives(DOMAIN live \ {p}, q, n, live[p].tag) PROVE Abstract!Remap
    <3>1. /\ q \in DOMAIN Seen' /\ q \notin DOMAIN Seen \ {p}
          /\ Seen'[q] = [i \in 1 .. n |-> live[p].tag]
          /\ Seen'[q] \in Seq(Nat)
          /\ Abstract!Clear(q, Seen'[q], DOMAIN Seen \ {p})
          /\ Seen' = [x \in (DOMAIN Seen \ {p}) \cup {q} |->
                         IF x = q THEN Seen'[q] ELSE Seen[x]]
      <4>1. SeesNew(DOMAIN live \ {p}, q, n, live[p].tag)
        BY <2>3, <2>4, GivesSeen
      <4> QED
        BY <1>2, <4>1 DEF SeesNew
    <3>2. Abstract!CarriesOver(Seen[p], Seen'[q])
      BY <2>1, <2>3, <3>1, RunProperties DEF Abstract!CarriesOver
    <3>3. Seen' = Abstract!Moved(p, q, Seen'[q])
      BY <3>1 DEF Abstract!Moved
    <3> QED
      BY <1>2, <3>1, <3>2, <3>3 DEF Abstract!Remap
  <2> QED
    BY <1>3, <2>2, <2>4 DEF Abstract!Next
<1>6. ASSUME NEW p \in DOMAIN live, Free(p) PROVE [Abstract!Next]_Seen
  <2>1. Seen = Shown(live) /\ Seen' = Shown(live')
    BY <1>6, SeenIs, SeenThen, FreeIInv
  <2>2. Seen' = [x \in DOMAIN Seen \ {p} |-> Seen[x]]
    BY <1>6, <2>1 DEF Free, Without, Shown
  <2> QED
    BY <2>2, <1>2 DEF Abstract!Free, Abstract!Next
<1> QED
  BY <1>1, <1>4, <1>5, <1>6 DEF Next

\* The annex keeps the promise of an allocator, across the move of a block from
\* the region to the fallback, and whenever the fallback fails.
THEOREM Refinement == Spec => ImplementsHeap
<1>1. Init => Abstract!Init
  BY DEF Init, Abstract!Init, Seen
<1> QED
  BY <1>1, Invariance, StepRefines, PTL DEF Spec, ImplementsHeap, Abstract!Spec
=============================================================================
