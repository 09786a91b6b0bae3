--------------------------- MODULE ThreadQueue_proof ---------------------------
(***************************************************************************)
(* The ring of ty_queue_t keeps every message whole and in order, for any  *)
(* number of threads, any ring size, any messages and any limits.          *)
(***************************************************************************)
EXTENDS ThreadQueue, SequenceTheorems, FiniteSetTheorems, TLAPS

(***************************************************************************)
(* The inductive invariant.  TypeOK bounds head and tail but does not keep *)
(* itself: a get moves head by the length it reads from memory, so the     *)
(* bounds hold only while the unread messages are intact and tile the ring.*)
(***************************************************************************)
IInv == /\ TypeOK
        /\ UnreadTileRing
        /\ UnreadIntact
        /\ DeliveredInOrder

-----------------------------------------------------------------------------
(* Memory.                                                                 *)

\* An encoded message is its length, its number, and then its body.
LEMMA EncodeProperties ==
  ASSUME NEW b \in Seq(Nat), NEW seq \in Nat
  PROVE  /\ Encode(b, seq) \in Seq(Nat)
         /\ Len(Encode(b, seq)) = Extent(Len(b))
         /\ Encode(b, seq)[1] = Len(b)
         /\ Encode(b, seq)[2] = seq
         /\ \A i \in 1 .. Len(b) : Encode(b, seq)[HeaderLen + i] = b[i]
  BY DEF Encode, HeaderLen, Extent

\* Memory keeps its type when words are stored to it.
LEMMA StoreType ==
  ASSUME mem \in [0 .. Size - 1 -> Nat],
         NEW start \in Nat, NEW words \in Seq(Nat)
  PROVE  Store(start, words) \in [0 .. Size - 1 -> Nat]
  BY SizeAssumption DEF Store

\* The stored words are read back at the addresses they were stored to, on
\* either side of the end of the first mapping.
LEMMA StoreReadsBack ==
  ASSUME mem \in [0 .. Size - 1 -> Nat],
         NEW start \in Nat, NEW words \in Seq(Nat),
         Len(words) <= Size, start + Len(words) <= 2 * Size,
         NEW i \in 1 .. Len(words)
  PROVE  Store(start, words)[Phys(start + i - 1)] = words[i]
<1> DEFINE v == start + i - 1
<1>1. v \in Nat /\ v \in start .. start + Len(words) - 1 /\ v < 2 * Size
  BY SizeAssumption
<1>2. CASE v < Size
  <2>1. Phys(v) = v /\ v \in 0 .. Size - 1
    BY <1>1, <1>2, SizeAssumption DEF Phys
  <2>2. Store(start, words)[v] = words[v - start + 1]
    BY <2>1, <1>1 DEF Store
  <2>3. v - start + 1 = i
    OBVIOUS
  <2> QED
    BY <2>1, <2>2, <2>3
<1>3. CASE ~(v < Size)
  <2>1. Phys(v) = v - Size /\ v - Size \in 0 .. Size - 1
    BY <1>1, <1>3, SizeAssumption DEF Phys
  <2>2. v - Size \notin start .. start + Len(words) - 1
    BY <1>1, <1>3, SizeAssumption
  <2>3. v - Size + Size = v
    BY <1>1, SizeAssumption
  <2>4. Store(start, words)[v - Size] = words[v - Size + Size - start + 1]
    BY <2>1, <2>2, <2>3, <1>1 DEF Store
  <2>5. v - Size + Size - start + 1 = i
    BY SizeAssumption
  <2> QED
    BY <2>1, <2>4, <2>5
<1> QED
  BY <1>2, <1>3

\* Words stored at "start" leave alone an address before it, as long as they
\* end within one ring's length of that address.
LEMMA StoreLeavesAlone ==
  ASSUME mem \in [0 .. Size - 1 -> Nat],
         NEW start \in Nat, NEW words \in Seq(Nat),
         NEW v \in Nat, v < start, start + Len(words) <= v + Size, v < 2 * Size
  PROVE  Store(start, words)[Phys(v)] = mem[Phys(v)]
<1>1. CASE v < Size
  BY <1>1, SizeAssumption DEF Store, Phys
<1>2. CASE ~(v < Size)
  <2>1. Phys(v) = v - Size /\ v - Size \in 0 .. Size - 1
    BY <1>2, SizeAssumption DEF Phys
  <2>2. /\ v - Size \notin start .. start + Len(words) - 1
        /\ v - Size + Size \notin start .. start + Len(words) - 1
    BY <1>2, SizeAssumption
  <2> QED
    BY <2>1, <2>2 DEF Store
<1> QED
  BY <1>1, <1>2

-----------------------------------------------------------------------------
(* The unread messages.                                                    *)

\* Every unread message lies between head and tail.
LEMMA UnreadWithin ==
  ASSUME TypeOK, UnreadTileRing, DeliveredInOrder, NEW k \in Unread
  PROVE  /\ k \in 1 .. Len(sent) /\ sent[k] \in Seq(Nat) /\ at[k] \in Nat
         /\ Start(k) \in Int /\ End(k) \in Int
         /\ head <= Start(k)
         /\ End(k) <= tail
         /\ End(k) = Start(k) + Extent(Len(sent[k]))
         /\ Len(sent[k]) \in Nat
<1>0. /\ headSeq \in Nat /\ tailSeq \in Nat /\ head \in Nat /\ tail \in Int
      /\ base \in Nat /\ k \in Nat
  BY SizeAssumption DEF TypeOK, Unread
<1>1. headSeq + 1 \in Unread /\ tailSeq \in Unread /\ Unread # {}
  BY <1>0 DEF Unread
<1>2. \A j \in Unread : /\ j \in 1 .. Len(sent) /\ sent[j] \in Seq(Nat)
                         /\ Len(sent[j]) \in Nat /\ at[j] \in Nat
                         /\ Start(j) \in Int /\ End(j) \in Int
                         /\ End(j) = Start(j) + Extent(Len(sent[j]))
                         /\ Start(j) <= End(j)
  <2>1. \A j \in Unread : j \in 1 .. Len(sent) /\ j \in 1 .. Len(at)
    BY <1>0 DEF Unread, DeliveredInOrder, UnreadTileRing
  <2>2. sent \in Seq(Seq(Nat)) /\ at \in Seq(Nat)
    BY DEF TypeOK
  <2>3. \A j \in Unread : sent[j] \in Seq(Nat) /\ at[j] \in Nat
    BY <2>1, <2>2
  <2>4. \A j \in Unread : Len(sent[j]) \in Nat
    BY <2>3
  <2> QED
    BY <1>0, <2>1, <2>3, <2>4 DEF Start, End, Extent, HeaderLen
<1>3. Start(headSeq + 1) = head /\ End(tailSeq) = tail
  BY <1>1 DEF UnreadTileRing
<1>4. head <= Start(k)
  <2>1. CASE k = headSeq + 1
    BY <2>1, <1>3, <1>2
  <2>2. CASE headSeq + 1 < k
    <3>1. End(headSeq + 1) <= Start(k)
      BY <2>2, <1>1 DEF UnreadTileRing
    <3>2. Start(headSeq + 1) <= End(headSeq + 1)
      BY <1>1, <1>2
    <3> QED
      BY <3>1, <3>2, <1>0, <1>1, <1>2, <1>3
  <2> QED
    BY <2>1, <2>2, <1>0 DEF Unread
<1>5. End(k) <= tail
  <2>1. CASE k = tailSeq
    BY <2>1, <1>3, <1>2
  <2>2. CASE k < tailSeq
    <3>1. End(k) <= Start(tailSeq)
      BY <2>2, <1>1 DEF UnreadTileRing
    <3>2. Start(tailSeq) <= End(tailSeq)
      BY <1>1, <1>2
    <3> QED
      BY <3>1, <3>2, <1>0, <1>1, <1>2, <1>3
  <2> QED
    BY <2>1, <2>2, <1>0 DEF Unread
<1> QED
  BY <1>2, <1>4, <1>5

\* When the ring is not empty, the header and the body at head are those of
\* the first unread message.
LEMMA HeadIsFirstUnread ==
  ASSUME IInv, Used # 0
  PROVE  /\ headSeq + 1 \in Unread
         /\ Start(headSeq + 1) = head
         /\ HeaderLength = Len(sent[headSeq + 1])
         /\ HeaderSeq = headSeq
         /\ ReadBody = sent[headSeq + 1]
<1> DEFINE k == headSeq + 1
           words == Encode(sent[k], k - 1)
<1>1. k \in Unread /\ Start(k) = head
  BY DEF IInv, TypeOK, UnreadTileRing, DeliveredInOrder, Unread, Used
<1>2. /\ sent[k] \in Seq(Nat) /\ headSeq \in Nat /\ k - 1 \in Nat /\ head \in Nat
      /\ Len(sent[k]) \in Nat
  BY <1>1, UnreadWithin DEF IInv, TypeOK
<1> HIDE DEF k
<1>3. /\ words \in Seq(Nat) /\ Len(words) = Extent(Len(sent[k]))
      /\ words[1] = Len(sent[k]) /\ words[2] = k - 1
      /\ \A i \in 1 .. Len(sent[k]) : words[HeaderLen + i] = sent[k][i]
  BY <1>2, EncodeProperties
<1>4. \A i \in 1 .. Len(words) : mem[Phys(head + i - 1)] = words[i]
  BY <1>1 DEF IInv, UnreadIntact
<1> HIDE DEF words
<1>5. /\ mem[Phys(head)] = Len(sent[k])
      /\ mem[Phys(head + 1)] = k - 1
  <2>1. 1 \in 1 .. Len(words) /\ 2 \in 1 .. Len(words)
    BY <1>2, <1>3 DEF Extent, HeaderLen
  <2>2. head + 1 - 1 = head /\ head + 2 - 1 = head + 1
    BY <1>2
  <2> QED
    BY <2>1, <2>2, <1>3, <1>4
<1>6. ReadBody = sent[k]
  <2>1. ReadBody = [i \in 1 .. Len(sent[k]) |-> mem[Phys(head + HeaderLen + i - 1)]]
    BY <1>5 DEF ReadBody, HeaderLength
  <2>2. ASSUME NEW i \in 1 .. Len(sent[k])
        PROVE  mem[Phys(head + HeaderLen + i - 1)] = sent[k][i]
    <3>1. HeaderLen + i \in 1 .. Len(words)
      BY <1>2, <1>3 DEF Extent, HeaderLen
    <3>2. head + (HeaderLen + i) - 1 = head + HeaderLen + i - 1
      BY <1>2 DEF HeaderLen
    <3> QED
      BY <3>1, <3>2, <1>3, <1>4
  <2>3. ReadBody = [i \in 1 .. Len(sent[k]) |-> sent[k][i]]
    BY <2>1, <2>2
  <2> QED
    BY <2>3, <1>2
<1>7. k - 1 = headSeq
  BY <1>2 DEF k
<1> QED
  BY <1>1, <1>5, <1>6, <1>7 DEF HeaderLength, HeaderSeq, k

-----------------------------------------------------------------------------
(* The steps.                                                              *)

\* A thread that returns and the one it wakes are again in known states.
LEMMA ReturnSignallingType ==
  ASSUME pc \in [Threads -> States], NEW t \in Threads,
         NEW waiters \in SUBSET Threads, ReturnSignalling(t, waiters)
  PROVE  pc' \in [Threads -> States]
  BY DEF ReturnSignalling, Woken, States

LEMMA InitIInv == Init => IInv
<1> SUFFICES ASSUME Init PROVE IInv
  OBVIOUS
<1> USE SizeAssumption, CallsAssumption DEF Init
<1>1. TypeOK
  <2>1. /\ mem \in [0 .. Size - 1 -> Nat]
        /\ headSeq \in Nat /\ tailSeq \in Nat /\ freed \in BOOLEAN
    OBVIOUS
  <2>6. head \in 0 .. Size - 1
    OBVIOUS
  <2>7. tail \in head .. head + Size
    OBVIOUS
  <2>2. pc \in [Threads -> States] /\ calls \in [Threads -> Nat]
    BY DEF States
  <2>3. <<>> \in Seq(Nat)
    OBVIOUS
  <2>4. /\ body \in [Producers -> Seq(Nat)]
        /\ limit \in [Consumers -> Nat] /\ mseq \in [Consumers -> Nat]
    BY <2>3
  <2>5. /\ sent \in Seq(Seq(Nat)) /\ received \in Seq(Seq(Nat))
        /\ at \in Seq(Nat) /\ base \in Nat
    OBVIOUS
  <2> QED
    BY <2>1, <2>2, <2>4, <2>5, <2>6, <2>7 DEF TypeOK
<1>2. Unread = {}
  BY DEF Unread
<1>3. UnreadTileRing /\ UnreadIntact
  BY <1>2 DEF UnreadTileRing, UnreadIntact
<1>4. DeliveredInOrder
  BY DEF DeliveredInOrder
<1> QED
  BY <1>1, <1>3, <1>4 DEF IInv

\* A step of the threads alone leaves the ring's invariant in place.
LEMMA ThreadStepIInv ==
  ASSUME IInv, UNCHANGED <<queue, history>>,
         freed' \in BOOLEAN, pc' \in [Threads -> States],
         calls' \in [Threads -> Nat], body' \in [Producers -> Seq(Nat)],
         limit' \in [Consumers -> Nat], mseq' \in [Consumers -> Nat]
  PROVE  IInv'
<1>1. TypeOK'
  BY DEF IInv, TypeOK, queue, history
<1>2. UnreadTileRing'
  BY DEF IInv, UnreadTileRing, Unread, Start, End, queue, history
<1>3. UnreadIntact'
  BY DEF IInv, UnreadIntact, Unread, Start, queue, history
<1>4. DeliveredInOrder'
  BY DEF IInv, DeliveredInOrder, queue, history
<1> QED
  BY <1>1, <1>2, <1>3, <1>4 DEF IInv

\* A put appends a message behind the unread ones, in words none of them has.
LEMMA PutIInv ==
  ASSUME IInv, NEW p \in Producers, Put(p)
  PROVE  IInv'
<1>0. PICK words : words = Encode(body[p], tailSeq)
  OBVIOUS
<1>n. PICK new : new = tailSeq + 1
  OBVIOUS
<1>1. /\ head \in Nat /\ head < Size
      /\ tail \in Nat /\ head <= tail /\ tail <= head + Size
      /\ headSeq \in Nat /\ tailSeq \in Nat /\ base \in Nat /\ Size \in Nat
  BY SizeAssumption DEF IInv, TypeOK
<1>t. /\ mem \in [0 .. Size - 1 -> Nat]
      /\ body[p] \in Seq(Nat)
      /\ sent \in Seq(Seq(Nat)) /\ at \in Seq(Nat)
  BY DEF IInv, TypeOK
<1>l. Len(body[p]) \in Nat
  BY <1>t
<1>2. /\ headSeq = Len(received) /\ tailSeq = Len(sent) /\ tailSeq = Len(at)
      /\ headSeq <= tailSeq
  BY DEF IInv, DeliveredInOrder, UnreadTileRing
<1>3. /\ words \in Seq(Nat) /\ Len(words) = Extent(Len(body[p]))
  BY <1>0, <1>1, <1>t, EncodeProperties
<1>4. tail + Len(words) <= head + Size /\ Len(words) <= Size
  <2>1. Extent(Len(body[p])) <= Size - Used
    BY DEF Put, Fits
  <2> QED
    BY <2>1, <1>1, <1>l, <1>3 DEF Used, Extent, HeaderLen
<1>5. /\ mem' = Store(tail, words) /\ tail' = tail + Len(words)
      /\ tailSeq' = new /\ sent' = Append(sent, body[p])
      /\ at' = Append(at, base + tail)
      /\ UNCHANGED <<head, headSeq, received, base>>
  BY <1>n, <1>0, <1>3 DEF Put
<1>6. TypeOK'
  <2>1. mem' \in [0 .. Size - 1 -> Nat]
    BY <1>1, <1>t, <1>3, <1>5, StoreType
  <2>2. tail' \in head' .. head' + Size
    BY <1>1, <1>l, <1>3, <1>4, <1>5 DEF Extent, HeaderLen
  <2>3. pc' \in [Threads -> States]
    <3>1. WaitingReadable \in SUBSET Threads /\ p \in Threads
      BY DEF WaitingReadable, Threads
    <3> QED
      BY <3>1, ReturnSignallingType DEF IInv, TypeOK, Put
  <2>4. sent' \in Seq(Seq(Nat)) /\ at' \in Seq(Nat) /\ tailSeq' \in Nat
    BY <1>1, <1>t, <1>5, <1>n
  <2> QED
    BY <2>1, <2>2, <2>3, <2>4, <1>5 DEF IInv, TypeOK, Put, locals
<1>7. /\ Unread' = Unread \cup {new}
      /\ \A k \in Unread : k < new /\ k \in 1 .. Len(sent)
      /\ new \notin Unread
  BY <1>n, <1>1, <1>2, <1>5 DEF Unread
<1>s. /\ Len(sent') = new /\ Len(at') = new
      /\ \A k \in 1 .. Len(sent) : sent'[k] = sent[k] /\ at'[k] = at[k]
      /\ sent'[new] = body[p] /\ at'[new] = base + tail
  <2>1. base + tail \in Nat
    BY <1>1
  <2>2. /\ Len(sent') = Len(sent) + 1 /\ sent'[Len(sent) + 1] = body[p]
        /\ \A k \in 1 .. Len(sent) : sent'[k] = sent[k]
    BY <1>t, <1>5, AppendProperties
  <2>3. /\ Len(at') = Len(at) + 1 /\ at'[Len(at) + 1] = base + tail
        /\ \A k \in 1 .. Len(at) : at'[k] = at[k]
    BY <2>1, <1>t, <1>5, AppendProperties
  <2> QED
    BY <2>2, <2>3, <1>2, <1>n
<1>8. /\ \A k \in Unread : sent'[k] = sent[k] /\ at'[k] = at[k]
      /\ sent'[new] = body[p] /\ at'[new] = base + tail
  BY <1>s, <1>7
<1> DEFINE S(k) == at'[k] - base'
           E(k) == S(k) + Extent(Len(sent'[k]))
<1>9. /\ \A k \in Unread : S(k) = Start(k) /\ E(k) = End(k)
      /\ S(new) = tail /\ E(new) = tail'
  <2>1. \A k \in Unread : S(k) = Start(k) /\ E(k) = End(k)
    BY <1>5, <1>8 DEF Start, End
  <2>2. S(new) = tail
    <3>1. S(new) = (base + tail) - base
      BY <1>5, <1>8
    <3> QED
      BY <3>1, <1>1
  <2>3. E(new) = tail'
    BY <1>3, <1>5, <1>8, <2>2
  <2> QED
    BY <2>1, <2>2, <2>3
<1> HIDE DEF S, E
<1>10. \A k \in Unread : /\ head <= Start(k) /\ End(k) <= tail
                         /\ Start(k) \in Int /\ sent[k] \in Seq(Nat)
                         /\ Len(sent[k]) \in Nat
                         /\ End(k) = Start(k) + Extent(Len(sent[k]))
  BY UnreadWithin DEF IInv
<1>11. UnreadTileRing'
  <2>1. Len(at') = Len(sent')
    BY <1>s
  <2>2. S(headSeq + 1) = head
    <3>1. CASE Unread = {}
      <4>1. headSeq + 1 = new /\ head = tail
        BY <3>1, <1>n, <1>1, <1>2 DEF IInv, UnreadTileRing, Unread
      <4> QED
        BY <4>1, <1>9
    <3>2. CASE Unread # {}
      <4>1. headSeq + 1 \in Unread /\ Start(headSeq + 1) = head
        BY <3>2, <1>1 DEF IInv, UnreadTileRing, Unread
      <4> QED
        BY <4>1, <1>9
    <3> QED
      BY <3>1, <3>2
  <2>3. ASSUME NEW k \in Unread', k + 1 \in Unread'
        PROVE  S(k + 1) = E(k)
    <3>1. k \in Unread
      BY <2>3, <1>n, <1>1, <1>5 DEF Unread
    <3>2. CASE k = tailSeq
      <4>1. k + 1 = new /\ End(k) = tail
        BY <3>1, <3>2, <1>n DEF IInv, UnreadTileRing
      <4> QED
        BY <3>1, <4>1, <1>9
    <3>3. CASE k # tailSeq
      <4>1. k + 1 \in Unread
        BY <3>1, <3>3, <1>1 DEF Unread
      <4> QED
        BY <3>1, <4>1, <1>9 DEF IInv, UnreadTileRing
    <3> QED
      BY <3>2, <3>3
  <2>4. ASSUME NEW j \in Unread', NEW k \in Unread', j < k
        PROVE  E(j) <= S(k)
    <3>1. j \in Unread
      BY <2>4, <1>n, <1>1, <1>5 DEF Unread
    <3>2. CASE k = new
      BY <3>1, <3>2, <1>9, <1>10
    <3>3. CASE k \in Unread
      BY <3>1, <3>3, <2>4, <1>9 DEF IInv, UnreadTileRing
    <3> QED
      BY <3>2, <3>3, <1>7
  <2>5. Unread' # {} /\ E(tailSeq') = tail'
    BY <1>5, <1>7, <1>9
  <2> QED
    BY <2>1, <2>2, <2>3, <2>4, <2>5, <1>5 DEF UnreadTileRing, Start, End, S, E
<1>12. UnreadIntact'
  <2> SUFFICES ASSUME NEW k \in Unread',
                      NEW i \in 1 .. Len(Encode(sent'[k], k - 1))
               PROVE  mem'[Phys(S(k) + i - 1)] = Encode(sent'[k], k - 1)[i]
    BY DEF UnreadIntact, Encode, Phys, Start, S
  <2>1. CASE k = new
    <3>1. Encode(sent'[k], k - 1) = words /\ S(k) = tail
      BY <2>1, <1>0, <1>n, <1>1, <1>8, <1>9
    <3>2. Len(words) \in Nat /\ tail + Len(words) <= 2 * Size
      BY <1>1, <1>3, <1>4
    <3>3. i \in 1 .. Len(words)
      BY <3>1
    <3>4. Store(tail, words)[Phys(tail + i - 1)] = words[i]
      BY <3>2, <3>3, <1>1, <1>t, <1>3, <1>4, StoreReadsBack
    <3> QED
      BY <3>1, <3>4, <1>5
  <2>2. CASE k \in Unread
    <3> DEFINE old == Encode(sent[k], k - 1)
               v == Start(k) + i - 1
    <3>1. Encode(sent'[k], k - 1) = old /\ S(k) = Start(k)
      BY <2>2, <1>8, <1>9
    <3>2. sent[k] \in Seq(Nat) /\ k - 1 \in Nat
      BY <2>2, <1>1, <1>10 DEF Unread
    <3>3. Len(old) = Extent(Len(sent[k]))
      BY <3>2, EncodeProperties
    <3>4. v \in Nat /\ v < tail /\ head <= v
      <4>1. i \in 1 .. Extent(Len(sent[k]))
        BY <3>1, <3>3
      <4> QED
        BY <4>1, <2>2, <1>1, <1>10 DEF Extent, HeaderLen
    <3>5. tail + Len(words) <= v + Size /\ v < 2 * Size
      BY <3>4, <1>1, <1>3, <1>4
    <3>6. Store(tail, words)[Phys(v)] = mem[Phys(v)]
      BY <3>4, <3>5, <1>1, <1>t, <1>3, StoreLeavesAlone
    <3>7. mem[Phys(v)] = old[i]
      BY <2>2, <3>1 DEF IInv, UnreadIntact
    <3> QED
      BY <3>1, <3>6, <3>7, <1>5
  <2> QED
    BY <2>1, <2>2, <1>7
<1>13. DeliveredInOrder'
  <2>1. headSeq' = Len(received') /\ tailSeq' = Len(sent') /\ headSeq' <= tailSeq'
    BY <1>1, <1>2, <1>5, <1>s
  <2>2. \A k \in 1 .. Len(received) : k \in 1 .. Len(sent) /\ received[k] = sent[k]
    BY <1>1, <1>2 DEF IInv, DeliveredInOrder
  <2> QED
    BY <2>1, <2>2, <1>s, <1>5 DEF DeliveredInOrder
<1> QED
  BY <1>6, <1>11, <1>12, <1>13 DEF IInv

\* A get takes the first unread message, and a reset moves head and tail back
\* over the same memory.
LEMMA GetIInv ==
  ASSUME IInv, NEW c \in Consumers, Get(c)
  PROVE  /\ IInv'
         /\ received' = Append(received, sent[headSeq + 1])
         /\ headSeq + 1 \in Unread
         /\ Used' = Used - Extent(Len(sent[headSeq + 1]))
<1>n. PICK first : first = headSeq + 1
  OBVIOUS
<1> DEFINE newHead == head + Extent(HeaderLength)
<1>d. PICK r : r = Reset(newHead)
  OBVIOUS
<1>1. /\ head \in Nat /\ head < Size
      /\ tail \in Nat /\ head <= tail /\ tail <= head + Size
      /\ headSeq \in Nat /\ tailSeq \in Nat /\ base \in Nat /\ Size \in Nat
      /\ Size # 0
  BY SizeAssumption DEF IInv, TypeOK
<1>t. /\ mem \in [0 .. Size - 1 -> Nat]
      /\ sent \in Seq(Seq(Nat)) /\ received \in Seq(Seq(Nat)) /\ at \in Seq(Nat)
  BY DEF IInv, TypeOK
<1>2. /\ headSeq = Len(received) /\ tailSeq = Len(sent) /\ Len(at) = Len(sent)
      /\ headSeq <= tailSeq
  BY DEF IInv, DeliveredInOrder, UnreadTileRing
<1>3. /\ first \in Unread /\ Start(first) = head
      /\ HeaderLength = Len(sent[first]) /\ ReadBody = sent[first]
  BY <1>n, HeadIsFirstUnread DEF Get
<1>4. \A k \in Unread : /\ head <= Start(k) /\ End(k) <= tail
                        /\ Start(k) \in Int /\ End(k) \in Int
                        /\ sent[k] \in Seq(Nat)
                        /\ Len(sent[k]) \in Nat
                        /\ End(k) = Start(k) + Extent(Len(sent[k]))
  BY UnreadWithin DEF IInv
<1>5. newHead = End(first) /\ newHead \in Nat /\ head < newHead /\ newHead <= tail
  <2>1. newHead = End(first)
    BY <1>3, <1>4
  <2>2. Extent(Len(sent[first])) \in Nat \ {0}
    BY <1>3, <1>4 DEF Extent, HeaderLen
  <2> QED
    BY <2>1, <2>2, <1>1, <1>3, <1>4
<1> HIDE DEF newHead
<1>6. /\ head' = newHead - r /\ tail' = tail - r /\ base' = base + r
      /\ headSeq' = first
      /\ received' = Append(received, sent[first])
      /\ UNCHANGED <<mem, tailSeq, sent, at>>
  BY <1>n, <1>d, <1>3 DEF Get, newHead
<1>7. \/ r = 0 /\ newHead < Size
      \/ r = Size /\ newHead >= Size
  BY <1>d, <1>1, <1>5 DEF Reset
<1>8. /\ Unread' = Unread \ {first}
      /\ \A k \in Unread' : first < k /\ k \in Unread
  BY <1>n, <1>1, <1>6 DEF Unread
<1> DEFINE S(k) == at'[k] - base'
           E(k) == S(k) + Extent(Len(sent'[k]))
<1>9. \A k \in Unread : S(k) = Start(k) - r /\ E(k) = End(k) - r
  <2>1. TAKE k \in Unread
  <2>2. at[k] \in Nat /\ r \in Nat /\ Extent(Len(sent[k])) \in Nat
    BY UnreadWithin, <1>1, <1>4, <1>7 DEF IInv, Extent, HeaderLen
  <2>3. S(k) = at[k] - (base + r) /\ Start(k) = at[k] - base
    BY <1>6 DEF Start
  <2>4. S(k) = Start(k) - r
    BY <2>2, <2>3, <1>1
  <2>5. E(k) = S(k) + Extent(Len(sent[k])) /\ End(k) = Start(k) + Extent(Len(sent[k]))
    BY <1>4, <1>6
  <2> QED
    BY <2>2, <2>4, <2>5, <1>4
<1> HIDE DEF S, E
<1>10. \A k \in Unread' : newHead <= Start(k)
  BY <1>3, <1>5, <1>8 DEF IInv, UnreadTileRing
<1>11. TypeOK'
  <2>1. head' \in 0 .. Size - 1
    <3>1. newHead < 2 * Size
      <4>1. Unread # {} /\ newHead <= head + Size
        BY <1>1, <1>3, <1>5
      <4> QED
        BY <4>1, <1>1, <1>5
    <3> QED
      BY <3>1, <1>1, <1>5, <1>6, <1>7
  <2>2. tail' \in head' .. head' + Size
    BY <1>1, <1>5, <1>6, <1>7
  <2>3. pc' \in [Threads -> States]
    <3>1. WaitingWriteable \in SUBSET Threads /\ c \in Threads
      BY DEF WaitingWriteable, Threads
    <3> QED
      BY <3>1, ReturnSignallingType DEF IInv, TypeOK, Get
  <2>4. received' \in Seq(Seq(Nat))
    BY <1>3, <1>4, <1>6, <1>t, AppendProperties
  <2>5. base' \in Nat /\ headSeq' \in Nat
    BY <1>n, <1>1, <1>6, <1>7
  <2> QED
    BY <2>1, <2>2, <2>3, <2>4, <2>5, <1>6 DEF IInv, TypeOK, Get, locals
<1>12. UnreadTileRing'
  <2>1. Len(at') = Len(sent')
    BY <1>2, <1>6
  <2>2. ASSUME Unread' = {}
        PROVE  head' = tail'
    <3>1. first = tailSeq
      BY <2>2, <1>n, <1>1, <1>2, <1>3, <1>6 DEF Unread
    <3>2. End(first) = tail
      BY <3>1, <1>3 DEF IInv, UnreadTileRing
    <3> QED
      BY <3>2, <1>5, <1>6
  <2>3. ASSUME Unread' # {}
        PROVE  S(first + 1) = head' /\ E(tailSeq) = tail'
    <3>1. first + 1 \in Unread /\ tailSeq \in Unread
      BY <2>3, <1>n, <1>1, <1>6 DEF Unread
    <3>2. Start(first + 1) = newHead /\ End(tailSeq) = tail
      BY <3>1, <1>3, <1>5 DEF IInv, UnreadTileRing
    <3> QED
      BY <3>1, <3>2, <1>6, <1>9
  <2>4. ASSUME NEW k \in Unread', k + 1 \in Unread'
        PROVE  S(k + 1) = E(k)
    <3>1. k \in Unread /\ k + 1 \in Unread
      BY <2>4, <1>8
    <3>2. Start(k + 1) = End(k)
      BY <3>1 DEF IInv, UnreadTileRing
    <3> QED
      BY <3>1, <3>2, <1>9
  <2>5. ASSUME NEW j \in Unread', NEW k \in Unread', j < k
        PROVE  E(j) <= S(k)
    <3>1. j \in Unread /\ k \in Unread /\ r \in Nat
      BY <1>1, <1>7, <1>8
    <3>2. End(j) <= Start(k)
      BY <3>1, <2>5 DEF IInv, UnreadTileRing
    <3>3. End(j) \in Int /\ Start(k) \in Int
      BY <3>1, <1>4
    <3>4. End(j) - r <= Start(k) - r
      BY <3>1, <3>2, <3>3
    <3> QED
      BY <3>1, <3>4, <1>9
  <2> QED
    BY <2>1, <2>2, <2>3, <2>4, <2>5, <1>6 DEF UnreadTileRing, Start, End, S, E
<1>13. UnreadIntact'
  <2> SUFFICES ASSUME NEW k \in Unread',
                      NEW i \in 1 .. Len(Encode(sent[k], k - 1))
               PROVE  mem[Phys(S(k) + i - 1)] = Encode(sent[k], k - 1)[i]
    BY <1>6 DEF UnreadIntact, Encode, Phys, Start, S
  <2> DEFINE v == Start(k) + i - 1
  <2>1. k \in Unread /\ k - 1 \in Nat
    BY <1>1, <1>8 DEF Unread
  <2>2. i \in 1 .. Extent(Len(sent[k]))
    BY <2>1, <1>4, EncodeProperties
  <2>3. v \in Nat /\ newHead <= v /\ v < 2 * Size
    <3>1. Start(k) <= v /\ v < End(k) /\ v \in Int
      BY <2>1, <2>2, <1>4 DEF Extent, HeaderLen
    <3>2. v < tail
      BY <3>1, <2>1, <1>1, <1>4
    <3>3. newHead <= v
      BY <3>1, <2>1, <1>4, <1>5, <1>10
    <3> QED
      BY <3>1, <3>2, <3>3, <1>1, <1>5
  <2>4. mem[Phys(v)] = Encode(sent[k], k - 1)[i]
    BY <2>1 DEF IInv, UnreadIntact
  <2>5. Phys(v - r) = Phys(v)
    BY <2>3, <1>1, <1>5, <1>7 DEF Phys
  <2>6. S(k) + i - 1 = v - r
    <3>1. S(k) = Start(k) - r /\ Start(k) \in Int /\ r \in Nat
      BY <2>1, <1>1, <1>4, <1>7, <1>9
    <3> QED
      BY <3>1, <2>2
  <2> QED
    BY <2>4, <2>5, <2>6
<1>14. DeliveredInOrder'
  <2>1. /\ Len(received') = Len(received) + 1
        /\ received'[Len(received) + 1] = sent[first]
        /\ \A k \in 1 .. Len(received) : received'[k] = received[k]
    BY <1>3, <1>4, <1>6, <1>t, AppendProperties
  <2>2. headSeq' = Len(received') /\ tailSeq' = Len(sent') /\ headSeq' <= tailSeq'
    BY <2>1, <1>n, <1>1, <1>2, <1>3, <1>6 DEF Unread
  <2>3. \A k \in 1 .. Len(received) : received[k] = sent[k]
    BY DEF IInv, DeliveredInOrder
  <2>4. ASSUME NEW k \in 1 .. Len(received') PROVE received'[k] = sent'[k]
    <3>1. CASE k = first
      BY <3>1, <2>1, <1>n, <1>2, <1>6
    <3>2. CASE k # first
      BY <3>2, <2>1, <2>3, <1>n, <1>1, <1>2, <1>6
    <3> QED
      BY <3>1, <3>2
  <2> QED
    BY <2>2, <2>4 DEF DeliveredInOrder
<1>15. Used' = Used - Extent(Len(sent[first]))
  <2>1. Extent(Len(sent[first])) \in Nat /\ newHead = head + Extent(Len(sent[first]))
    BY <1>3, <1>4 DEF newHead, Extent, HeaderLen
  <2>2. r \in Nat
    BY <1>1, <1>7
  <2> QED
    BY <2>1, <2>2, <1>1, <1>6 DEF Used
<1> QED
  BY <1>n, <1>3, <1>6, <1>11, <1>12, <1>13, <1>14, <1>15 DEF IInv

-----------------------------------------------------------------------------
(* The calls under way: what a producer is about to put, and what a        *)
(* consumer that skips a message waits for.                                *)

\* A put under way is of one of its producer's messages.
BodiesChosen == \A p \in Producers : pc[p] # "idle" => body[p] \in Bodies[p]

CInv == IInv /\ BodiesChosen /\ SkipsAreJustified

Skipping == {"waitSkip", "recheck"}

\* A signal starts no call and makes no consumer skip.
LEMMA ReturnSignallingMoves ==
  ASSUME pc \in [Threads -> States], NEW t \in Threads,
         NEW waiters \in SUBSET Threads, ReturnSignalling(t, waiters),
         \A w \in waiters : pc[w] \in {"waitReadable", "waitWriteable", "waitSkip"}
  PROVE  \A u \in Threads : /\ pc'[u] # "idle" => pc[u] # "idle"
                            /\ pc'[u] \in Skipping => pc[u] \in Skipping
  BY DEF ReturnSignalling, Woken, Skipping

\* Nothing a waiting consumer relies on is lost while it skips a message.
LEMMA StillJustified ==
  ASSUME CInv, IInv', UNCHANGED limit,
         headSeq <= headSeq', tailSeq <= tailSeq',
         \A k \in 1 .. tailSeq : sent'[k] = sent[k],
         NEW c \in Consumers, pc[c] \in Skipping, mseq'[c] = mseq[c]
  PROVE  /\ mseq'[c] <= headSeq' /\ mseq'[c] < tailSeq'
         /\ Len(sent'[mseq'[c] + 1]) > limit'[c]
<1>1. /\ mseq[c] <= headSeq /\ mseq[c] < tailSeq
      /\ Len(sent[mseq[c] + 1]) > limit[c]
  BY DEF CInv, SkipsAreJustified, Skipping
<1>2. /\ mseq[c] \in Nat /\ headSeq \in Nat /\ tailSeq \in Nat
      /\ headSeq' \in Nat /\ tailSeq' \in Nat
  BY DEF CInv, IInv, TypeOK
<1>3. mseq[c] + 1 \in 1 .. tailSeq
  BY <1>1, <1>2
<1> QED
  BY <1>1, <1>2, <1>3

\* A step of the threads alone, in which no thread takes up a skip.
LEMMA ThreadStepCInv ==
  ASSUME CInv, IInv', UNCHANGED <<queue, history, limit, mseq>>,
         \A c \in Consumers : pc'[c] \in Skipping => pc[c] \in Skipping
  PROVE  SkipsAreJustified'
<1> SUFFICES ASSUME NEW c \in Consumers, pc'[c] \in Skipping
             PROVE  /\ mseq'[c] <= headSeq' /\ mseq'[c] < tailSeq'
                    /\ Len(sent'[mseq'[c] + 1]) > limit'[c]
  BY DEF SkipsAreJustified, Skipping
<1>1. headSeq \in Nat /\ tailSeq \in Nat
  BY DEF CInv, IInv, TypeOK
<1> QED
  BY <1>1, StillJustified DEF queue, history

LEMMA InitCInv == Init => CInv
<1> SUFFICES ASSUME Init PROVE CInv
  OBVIOUS
<1>1. BodiesChosen /\ SkipsAreJustified
  BY DEF Init, BodiesChosen, SkipsAreJustified, Threads
<1> QED
  BY <1>1, InitIInv DEF CInv

LEMMA ProducerStepCInv ==
  ASSUME CInv, NEW p \in Producers, ProducerStep(p)
  PROVE  CInv'
<1> USE DEF CInv
<1>t. /\ pc \in [Threads -> States] /\ calls \in [Threads -> Nat]
      /\ body \in [Producers -> Seq(Nat)]
      /\ limit \in [Consumers -> Nat] /\ mseq \in [Consumers -> Nat]
      /\ freed \in BOOLEAN
      /\ p \in Threads /\ Producers \subseteq Threads /\ Consumers \subseteq Threads
      /\ Bodies[p] \subseteq Seq(Nat)
  BY BodiesAssumption DEF IInv, TypeOK, Threads
<1>1. CASE CallPut(p)
  <2>1. PICK b \in Bodies[p] : body' = [body EXCEPT ![p] = b]
    BY <1>1 DEF CallPut
  <2>2. /\ pc' = [pc EXCEPT ![p] = "lock"] /\ calls' = [calls EXCEPT ![p] = @ - 1]
        /\ calls[p] > 0
        /\ UNCHANGED <<queue, history, freed, limit, mseq>>
    BY <1>1 DEF CallPut
  <2>3. IInv'
    <3>1. pc' \in [Threads -> States] /\ calls' \in [Threads -> Nat]
      BY <2>2, <1>t DEF States
    <3>2. body' \in [Producers -> Seq(Nat)]
      BY <2>1, <1>t
    <3> QED
      BY <3>1, <3>2, <2>2, <1>t, ThreadStepIInv
  <2>4. BodiesChosen'
    BY <2>1, <2>2, <1>t DEF BodiesChosen
  <2>5. SkipsAreJustified'
    BY <2>2, <2>3, <1>t, ThreadStepCInv DEF Skipping
  <2> QED
    BY <2>3, <2>4, <2>5
<1>2. CASE PutWaits(p)
  <2>1. /\ pc' = [pc EXCEPT ![p] = "waitWriteable"] /\ pc[p] = "lock"
        /\ UNCHANGED <<queue, history, freed, calls, body, limit, mseq>>
    BY <1>2 DEF PutWaits, locals
  <2>2. IInv'
    <3>1. pc' \in [Threads -> States]
      BY <2>1, <1>t DEF States
    <3> QED
      BY <3>1, <2>1, <1>t, ThreadStepIInv
  <2>3. BodiesChosen'
    BY <2>1, <1>t DEF BodiesChosen
  <2>4. SkipsAreJustified'
    BY <2>1, <2>2, <1>t, ThreadStepCInv DEF Skipping
  <2> QED
    BY <2>2, <2>3, <2>4
<1>3. CASE Put(p)
  <2>1. IInv'
    BY <1>3, PutIInv
  <2>2. \A u \in Threads : /\ pc'[u] # "idle" => pc[u] # "idle"
                           /\ pc'[u] \in Skipping => pc[u] \in Skipping
    <3>1. /\ WaitingReadable \in SUBSET Threads
          /\ \A w \in WaitingReadable : pc[w] = "waitReadable"
      BY <1>t DEF WaitingReadable
    <3> QED
      BY <3>1, <1>3, <1>t, ReturnSignallingMoves DEF Put
  <2>3. /\ UNCHANGED <<headSeq, body, limit, mseq>> /\ tailSeq' = tailSeq + 1
        /\ sent' = Append(sent, body[p])
    BY <1>3 DEF Put, locals
  <2>4. BodiesChosen'
    BY <2>2, <2>3, <1>t DEF BodiesChosen
  <2>5. SkipsAreJustified'
    <3>1. headSeq \in Nat /\ tailSeq \in Nat /\ tailSeq = Len(sent)
      BY DEF IInv, TypeOK, DeliveredInOrder
    <3>2. \A k \in 1 .. tailSeq : sent'[k] = sent[k]
      BY <3>1, <2>3, <1>t, AppendProperties DEF IInv, TypeOK
    <3>3. headSeq <= headSeq' /\ tailSeq <= tailSeq'
      BY <3>1, <2>3
    <3> SUFFICES ASSUME NEW c \in Consumers, pc'[c] \in Skipping
                 PROVE  /\ mseq'[c] <= headSeq' /\ mseq'[c] < tailSeq'
                        /\ Len(sent'[mseq'[c] + 1]) > limit'[c]
      BY DEF SkipsAreJustified, Skipping
    <3>4. pc[c] \in Skipping /\ mseq'[c] = mseq[c] /\ UNCHANGED limit
      BY <2>2, <2>3, <1>t
    <3> QED
      BY <3>2, <3>3, <3>4, <2>1, StillJustified
  <2> QED
    BY <2>1, <2>4, <2>5
<1> QED
  BY <1>1, <1>2, <1>3 DEF ProducerStep

LEMMA ConsumerStepCInv ==
  ASSUME CInv, NEW c \in Consumers, ConsumerStep(c)
  PROVE  CInv'
<1> USE DEF CInv
<1>t. /\ pc \in [Threads -> States] /\ calls \in [Threads -> Nat]
      /\ body \in [Producers -> Seq(Nat)]
      /\ limit \in [Consumers -> Nat] /\ mseq \in [Consumers -> Nat]
      /\ freed \in BOOLEAN
      /\ c \in Threads /\ Producers \subseteq Threads /\ Consumers \subseteq Threads
      /\ Limits[c] \subseteq Nat /\ c \notin Producers
  BY LimitsAssumption, ThreadsAssumption DEF IInv, TypeOK, Threads
<1>1. CASE CallGet(c)
  <2>1. PICK n \in Limits[c] : limit' = [limit EXCEPT ![c] = n]
    BY <1>1 DEF CallGet
  <2>2. /\ pc' = [pc EXCEPT ![c] = "lock"] /\ calls' = [calls EXCEPT ![c] = @ - 1]
        /\ calls[c] > 0
        /\ UNCHANGED <<queue, history, freed, body, mseq>>
    BY <1>1 DEF CallGet
  <2>3. IInv'
    <3>1. pc' \in [Threads -> States] /\ calls' \in [Threads -> Nat]
      BY <2>2, <1>t DEF States
    <3>2. limit' \in [Consumers -> Nat]
      BY <2>1, <1>t
    <3> QED
      BY <3>1, <3>2, <2>2, <1>t, ThreadStepIInv
  <2>4. BodiesChosen'
    BY <2>2, <1>t DEF BodiesChosen
  <2>5. SkipsAreJustified'
    <3> SUFFICES ASSUME NEW d \in Consumers, pc'[d] \in Skipping
                 PROVE  /\ mseq'[d] <= headSeq' /\ mseq'[d] < tailSeq'
                        /\ Len(sent'[mseq'[d] + 1]) > limit'[d]
      BY DEF SkipsAreJustified, Skipping
    <3>1. d # c /\ pc[d] \in Skipping
      BY <2>2, <1>t DEF Skipping
    <3>2. limit'[d] = limit[d]
      BY <3>1, <2>1, <1>t
    <3> QED
      BY <3>1, <3>2, <2>2 DEF SkipsAreJustified, Skipping, queue, history
  <2> QED
    BY <2>3, <2>4, <2>5
<1>2. ASSUME GetWaits(c) \/ SkipWaits(c) PROVE CInv'
  <2>1. /\ \/ pc' = [pc EXCEPT ![c] = "waitReadable"]
           \/ pc' = [pc EXCEPT ![c] = "waitSkip"] /\ pc[c] = "recheck"
        /\ UNCHANGED <<queue, history, freed, calls, body, limit, mseq>>
    BY <1>2 DEF GetWaits, SkipWaits, locals
  <2>2. IInv'
    <3>1. pc' \in [Threads -> States]
      BY <2>1, <1>t DEF States
    <3> QED
      BY <3>1, <2>1, <1>t, ThreadStepIInv
  <2>3. BodiesChosen'
    BY <2>1, <1>t DEF BodiesChosen
  <2>4. SkipsAreJustified'
    BY <2>1, <2>2, <1>t, ThreadStepCInv DEF Skipping
  <2> QED
    BY <2>2, <2>3, <2>4
<1>3. CASE GetSkips(c)
  <2>1. /\ mseq' = [mseq EXCEPT ![c] = headSeq]
        /\ pc' = [pc EXCEPT ![c] = "waitSkip"]
        /\ UNCHANGED <<queue, history, freed, calls, body, limit>>
        /\ headSeq + 1 \in Unread
        /\ Len(sent[headSeq + 1]) > limit[c]
    BY <1>3, HeadIsFirstUnread DEF GetSkips
  <2>2. headSeq \in Nat /\ tailSeq \in Nat
    BY DEF IInv, TypeOK
  <2>3. IInv'
    <3>1. pc' \in [Threads -> States] /\ mseq' \in [Consumers -> Nat]
      BY <2>1, <2>2, <1>t DEF States
    <3> QED
      BY <3>1, <2>1, <1>t, ThreadStepIInv
  <2>4. BodiesChosen'
    BY <2>1, <1>t DEF BodiesChosen
  <2>5. SkipsAreJustified'
    <3> SUFFICES ASSUME NEW d \in Consumers, pc'[d] \in Skipping
                 PROVE  /\ mseq'[d] <= headSeq' /\ mseq'[d] < tailSeq'
                        /\ Len(sent'[mseq'[d] + 1]) > limit'[d]
      BY DEF SkipsAreJustified, Skipping
    <3>1. CASE d = c
      <4>1. mseq'[d] = headSeq /\ headSeq < tailSeq
        BY <3>1, <2>1, <2>2, <1>t DEF Unread
      <4> QED
        BY <4>1, <3>1, <2>1, <2>2 DEF queue, history
    <3>2. CASE d # c
      <4>1. pc[d] \in Skipping /\ mseq'[d] = mseq[d]
        BY <3>2, <2>1, <1>t DEF Skipping
      <4> QED
        BY <4>1, <2>1 DEF SkipsAreJustified, Skipping, queue, history
    <3> QED
      BY <3>1, <3>2
  <2> QED
    BY <2>3, <2>4, <2>5
<1>4. CASE Get(c)
  <2>1. IInv'
    BY <1>4, GetIInv
  <2>2. \A u \in Threads : /\ pc'[u] # "idle" => pc[u] # "idle"
                           /\ pc'[u] \in Skipping => pc[u] \in Skipping
    <3>1. /\ WaitingWriteable \in SUBSET Threads
          /\ \A w \in WaitingWriteable : pc[w] \in {"waitWriteable", "waitSkip"}
      BY <1>t DEF WaitingWriteable
    <3> QED
      BY <3>1, <1>4, <1>t, ReturnSignallingMoves DEF Get
  <2>3. /\ UNCHANGED <<tailSeq, sent, body, limit, mseq>> /\ headSeq' = headSeq + 1
    BY <1>4 DEF Get, locals
  <2>4. BodiesChosen'
    BY <2>2, <2>3, <1>t DEF BodiesChosen
  <2>5. SkipsAreJustified'
    <3>1. headSeq <= headSeq' /\ tailSeq <= tailSeq'
      BY <2>3 DEF IInv, TypeOK
    <3> SUFFICES ASSUME NEW d \in Consumers, pc'[d] \in Skipping
                 PROVE  /\ mseq'[d] <= headSeq' /\ mseq'[d] < tailSeq'
                        /\ Len(sent'[mseq'[d] + 1]) > limit'[d]
      BY DEF SkipsAreJustified, Skipping
    <3>2. pc[d] \in Skipping /\ mseq'[d] = mseq[d] /\ UNCHANGED <<limit, sent>>
      BY <2>2, <2>3, <1>t
    <3> QED
      BY <3>1, <3>2, <2>1, StillJustified
  <2> QED
    BY <2>1, <2>4, <2>5
<1> QED
  BY <1>1, <1>2, <1>3, <1>4 DEF ConsumerStep

LEMMA NextCInv ==
  ASSUME CInv, [Next]_vars
  PROVE  CInv'
<1> USE DEF CInv
<1>1. ASSUME NEW p \in Producers, ProducerStep(p) PROVE CInv'
  BY <1>1, ProducerStepCInv
<1>2. ASSUME NEW c \in Consumers, ConsumerStep(c) PROVE CInv'
  BY <1>2, ConsumerStepCInv
<1>3. ASSUME NEW t \in Threads, SpuriousWakeup(t) PROVE CInv'
  <2>1. /\ pc \in [Threads -> States]
        /\ pc[t] \in {"waitReadable", "waitWriteable", "waitSkip"}
        /\ pc' = [pc EXCEPT ![t] = Woken(pc[t])]
        /\ UNCHANGED <<queue, history, freed, calls, body, limit, mseq>>
    BY <1>3 DEF SpuriousWakeup, WaitingReadable, WaitingWriteable, locals, IInv, TypeOK
  <2>2. IInv'
    <3>1. pc' \in [Threads -> States]
      BY <2>1 DEF States, Woken
    <3> QED
      BY <3>1, <2>1, ThreadStepIInv DEF IInv, TypeOK
  <2>3. BodiesChosen'
    BY <2>1 DEF BodiesChosen, Threads
  <2>4. \A c \in Consumers : pc'[c] \in Skipping => pc[c] \in Skipping
    BY <2>1 DEF Skipping, Woken, Threads
  <2>5. SkipsAreJustified'
    BY <2>1, <2>2, <2>4, ThreadStepCInv
  <2> QED
    BY <2>2, <2>3, <2>5
<1>4. ASSUME Free \/ UNCHANGED vars PROVE CInv'
  <2>1. /\ freed' \in BOOLEAN
        /\ UNCHANGED <<queue, history, pc, calls, body, limit, mseq>>
    BY <1>4 DEF Free, vars, locals, IInv, TypeOK
  <2>2. IInv'
    BY <2>1, ThreadStepIInv DEF IInv, TypeOK
  <2>3. BodiesChosen'
    BY <2>1 DEF BodiesChosen
  <2>4. SkipsAreJustified'
    BY <2>1, <2>2, ThreadStepCInv
  <2> QED
    BY <2>2, <2>3, <2>4
<1> QED
  BY <1>1, <1>2, <1>3, <1>4 DEF Next, Finished

\* The inductive invariant holds in every reachable state.
LEMMA Invariance == Spec => []CInv
<1>1. Init => CInv
  BY InitCInv
<1>2. CInv /\ [Next]_vars => CInv'
  BY NextCInv
<1> QED
  BY <1>1, <1>2, PTL DEF Spec

-----------------------------------------------------------------------------
(* The theorems.                                                           *)

\* Every field keeps its type, head stays in the first mapping, and the words
\* from head to tail never exceed the ring.
THEOREM TypeCorrect == Spec => []TypeOK
<1>1. CInv => TypeOK
  BY DEF CInv, IInv
<1> QED
  BY <1>1, Invariance, PTL

\* The unread messages tile the ring from head to tail, in the order put.
THEOREM RingTiled == Spec => []UnreadTileRing
<1>1. CInv => UnreadTileRing
  BY DEF CInv, IInv
<1> QED
  BY <1>1, Invariance, PTL

\* No put writes over a message that is not yet got.
THEOREM RingIntact == Spec => []UnreadIntact
<1>1. CInv => UnreadIntact
  BY DEF CInv, IInv
<1> QED
  BY <1>1, Invariance, PTL

\* Gets return, once each, whole and in order, the messages that were put.
THEOREM InOrder == Spec => []DeliveredInOrder
<1>1. CInv => DeliveredInOrder
  BY DEF CInv, IInv
<1> QED
  BY <1>1, Invariance, PTL

\* A consumer only ever waits for a skipped message that was put, is no later
\* than the one at the head and does not fit its buffer.
THEOREM SkipsJustified == Spec => []SkipsAreJustified
<1>1. CInv => SkipsAreJustified
  BY DEF CInv
<1> QED
  BY <1>1, Invariance, PTL

\* The queue implements the bounded FIFO channel of MessageQueue.
THEOREM Refinement == Spec => ImplementsMessageQueue
<1>1. Init => Abstract!Init
  <2> SUFFICES ASSUME Init PROVE Abstract!Init
    OBVIOUS
  <2>1. Size - (tail - head) = Size
    BY SizeAssumption DEF Init
  <2> QED
    BY <2>1 DEF Init, Abstract!Init, Used
<1>2. CInv /\ [Next]_vars => [Abstract!Next]_(Abstract!vars)
  <2> SUFFICES ASSUME CInv, [Next]_vars
               PROVE  [Abstract!Next]_(Abstract!vars)
    OBVIOUS
  <2>1. ASSUME NEW p \in Producers, Put(p) PROVE Abstract!Put
    <3>1. /\ body[p] \in Messages /\ body[p] \in Seq(Nat)
      BY <2>1 DEF CInv, BodiesChosen, Put, Messages, IInv, TypeOK
    <3>2. /\ Extent(Len(body[p])) <= Size - Used
          /\ sent' = Append(sent, body[p]) /\ UNCHANGED received
          /\ tail' = tail + Extent(Len(body[p])) /\ UNCHANGED head
      BY <2>1 DEF Put, Fits
    <3>3. /\ Abstract!Cost(body[p]) = Extent(Len(body[p]))
          /\ Extent(Len(body[p])) \in Nat
      BY <3>1 DEF Abstract!Cost, Extent, HeaderLen
    <3>4. Size - Used' = Size - Used - Extent(Len(body[p]))
      <4>1. head \in Nat /\ tail \in Nat /\ Size \in Nat
        BY SizeAssumption DEF CInv, IInv, TypeOK
      <4> QED
        BY <4>1, <3>2, <3>3 DEF Used
    <3> QED
      BY <3>1, <3>2, <3>3, <3>4 DEF Abstract!Put
  <2>2. ASSUME NEW c \in Consumers, Get(c) PROVE Abstract!Get
    <3>1. /\ received' = Append(received, sent[headSeq + 1])
          /\ headSeq + 1 \in Unread
          /\ Used' = Used - Extent(Len(sent[headSeq + 1]))
          /\ UNCHANGED sent
      BY <2>2, GetIInv DEF CInv, Get
    <3>2. /\ headSeq = Len(received) /\ tailSeq = Len(sent)
          /\ headSeq \in Nat /\ tailSeq \in Nat
      BY DEF CInv, IInv, DeliveredInOrder, TypeOK
    <3>3. Len(received) < Len(sent)
      BY <3>1, <3>2 DEF Unread
    <3>4. /\ Abstract!Cost(sent[headSeq + 1]) = Extent(Len(sent[headSeq + 1]))
          /\ Extent(Len(sent[headSeq + 1])) \in Nat
      BY <3>1, UnreadWithin DEF CInv, IInv, Abstract!Cost, Extent, HeaderLen
    <3>5. Size - Used' = Size - Used + Extent(Len(sent[headSeq + 1]))
      BY <3>1, <3>4, SizeAssumption DEF Used, CInv, IInv, TypeOK
    <3> QED
      BY <3>1, <3>2, <3>3, <3>4, <3>5 DEF Abstract!Get
  <2>3. CASE UNCHANGED <<queue, history>>
    BY <2>3 DEF Abstract!vars, queue, history, Used
  <2> QED
    BY <2>1, <2>2, <2>3
       DEF Next, ProducerStep, ConsumerStep, CallPut, PutWaits, CallGet, GetWaits,
           GetSkips, SkipWaits, SpuriousWakeup, Free, Finished, vars, Abstract!Next
<1> QED
  BY <1>1, <1>2, Invariance, PTL DEF Spec, ImplementsMessageQueue, Abstract!Spec

-----------------------------------------------------------------------------
(* Wakeups.  No wakeup is lost where every message fits every buffer: put   *)
(* signals "readable" once per message, get waits for it only when the ring *)
(* is empty, and so a consumer sleeps only while the consumers on their way *)
(* to the lock cover the unread messages.                                   *)

\* Every message fits the buffer of every get.
AllFit == \A m \in Messages : \A c \in Consumers : \A n \in Limits[c] : Len(m) <= n

\* A message put is one of a producer's, and a get under way has a buffer of
\* one of its consumer's sizes.
ArgumentsChosen ==
    /\ \A k \in 1 .. Len(sent) : sent[k] \in Messages
    /\ \A c \in Consumers : pc[c] # "idle" => limit[c] \in Limits[c]

\* The consumers that are about to take the lock.
Coming == {c \in Consumers : pc[c] = "lock"}

WInv == CInv /\ ArgumentsChosen /\ WakeupsCoverUnread

-----------------------------------------------------------------------------
(* The arguments of the calls under way.                                   *)

\* A step without a put, that starts no get, leaves the arguments as chosen.
LEMMA ArgumentsStay ==
  ASSUME ArgumentsChosen, UNCHANGED <<sent, limit>>,
         \A c \in Consumers : pc'[c] # "idle" => pc[c] # "idle"
  PROVE  ArgumentsChosen'
  BY DEF ArgumentsChosen

\* Signals start no call: a thread that is not idle after one was not before.
LEMMA SignalStartsNoCall ==
  ASSUME CInv, NEW t \in Threads, pc[t] # "idle",
         NEW waiters \in SUBSET (WaitingReadable \cup WaitingWriteable),
         ReturnSignalling(t, waiters)
  PROVE  \A u \in Threads : pc'[u] # "idle" => pc[u] # "idle"
<1>1. /\ pc \in [Threads -> States]
      /\ waiters \subseteq Threads
      /\ \A w \in waiters : pc[w] \in {"waitReadable", "waitWriteable", "waitSkip"}
  BY DEF CInv, IInv, TypeOK, WaitingReadable, WaitingWriteable, Threads
<1> QED
  BY <1>1, ReturnSignallingMoves

\* Every step keeps the arguments as chosen.
LEMMA ArgumentsKept ==
  ASSUME CInv, ArgumentsChosen, [Next]_vars
  PROVE  ArgumentsChosen'
<1>0. /\ pc \in [Threads -> States] /\ limit \in [Consumers -> Nat]
      /\ sent \in Seq(Seq(Nat))
  BY DEF CInv, IInv, TypeOK
<1>1. ASSUME NEW p \in Producers, CallPut(p) PROVE ArgumentsChosen'
  <2>1. \A c \in Consumers : pc'[c] = pc[c]
    BY <1>0, <1>1, ThreadsAssumption DEF CallPut, Threads
  <2> QED
    BY <1>1, <2>1, ArgumentsStay DEF CallPut, history
<1>2. ASSUME NEW p \in Producers, PutWaits(p) PROVE ArgumentsChosen'
  <2>1. \A c \in Consumers : pc'[c] = pc[c]
    BY <1>0, <1>2, ThreadsAssumption DEF PutWaits, Threads
  <2> QED
    BY <1>2, <2>1, ArgumentsStay DEF PutWaits, history, locals
<1>3. ASSUME NEW p \in Producers, Put(p) PROVE ArgumentsChosen'
  <2>1. \A c \in Consumers : pc'[c] # "idle" => pc[c] # "idle"
    BY <1>3, SignalStartsNoCall DEF Put, Threads
  <2>2. body[p] \in Messages /\ body[p] \in Seq(Nat)
    BY <1>3 DEF Put, CInv, BodiesChosen, Messages, IInv, TypeOK
  <2>3. sent' = Append(sent, body[p]) /\ UNCHANGED limit
    BY <1>3 DEF Put, locals
  <2>4. \A k \in 1 .. Len(sent') : sent'[k] \in Messages
    BY <1>0, <2>2, <2>3 DEF ArgumentsChosen
  <2> QED
    BY <2>1, <2>3, <2>4 DEF ArgumentsChosen
<1>4. ASSUME NEW c \in Consumers, CallGet(c) PROVE ArgumentsChosen'
  <2>1. PICK n \in Limits[c] : limit' = [limit EXCEPT ![c] = n]
    BY <1>4 DEF CallGet
  <2>2. limit'[c] \in Limits[c]
    BY <1>0, <2>1
  <2>3. \A d \in Consumers \ {c} : limit'[d] = limit[d] /\ pc'[d] = pc[d]
    BY <1>0, <1>4, <2>1 DEF CallGet, Threads
  <2>4. UNCHANGED sent
    BY <1>4 DEF CallGet, history
  <2> QED
    BY <2>2, <2>3, <2>4 DEF ArgumentsChosen
<1>5. ASSUME NEW c \in Consumers, GetWaits(c) \/ GetSkips(c) \/ SkipWaits(c)
      PROVE  ArgumentsChosen'
  <2>1. pc[c] # "idle" /\ \E s \in States : pc' = [pc EXCEPT ![c] = s]
    BY <1>5 DEF GetWaits, GetSkips, SkipWaits, AtLoop, States
  <2>2. UNCHANGED <<sent, limit>>
    BY <1>5 DEF GetWaits, GetSkips, SkipWaits, history, locals
  <2>3. \A d \in Consumers : pc'[d] # "idle" => pc[d] # "idle"
    BY <1>0, <2>1 DEF Threads
  <2> QED
    BY <2>2, <2>3, ArgumentsStay
<1>6. ASSUME NEW c \in Consumers, Get(c) PROVE ArgumentsChosen'
  <2>1. \A d \in Consumers : pc'[d] # "idle" => pc[d] # "idle"
    BY <1>6, SignalStartsNoCall DEF Get, AtLoop, Threads
  <2> QED
    BY <1>6, <2>1, ArgumentsStay DEF Get, locals
<1>7. ASSUME NEW t \in Threads, SpuriousWakeup(t) PROVE ArgumentsChosen'
  <2>1. \A d \in Consumers : pc'[d] # "idle" => pc[d] # "idle"
    BY <1>0, <1>7 DEF SpuriousWakeup, WaitingReadable, WaitingWriteable, Threads
  <2> QED
    BY <1>7, <2>1, ArgumentsStay DEF SpuriousWakeup, history, locals
<1>8. ASSUME Free \/ UNCHANGED vars PROVE ArgumentsChosen'
  BY <1>8, ArgumentsStay DEF Free, vars, history, locals
<1> QED
  BY <1>1, <1>2, <1>3, <1>4, <1>5, <1>6, <1>7, <1>8
     DEF Next, ProducerStep, ConsumerStep, Finished

\* Where every message fits, no consumer skips one.
LEMMA NoneSkips ==
  ASSUME AllFit, CInv, ArgumentsChosen
  PROVE  /\ \A c \in Consumers : pc[c] \notin Skipping
         /\ \A c \in Consumers : AtLoop(c) => pc[c] = "lock"
         /\ \A c \in Consumers : ~GetSkips(c) /\ ~SkipWaits(c)
<1>0. /\ sent \in Seq(Seq(Nat)) /\ tailSeq = Len(sent) /\ mseq \in [Consumers -> Nat]
      /\ limit \in [Consumers -> Nat] /\ Limits \in [Consumers -> SUBSET Nat]
      /\ headSeq \in Nat /\ tailSeq \in Nat
  BY LimitsAssumption DEF CInv, IInv, TypeOK, DeliveredInOrder
<1>1. \A c \in Consumers : pc[c] # "idle" =>
        \A k \in 1 .. Len(sent) : ~(Len(sent[k]) > limit[c])
  <2> SUFFICES ASSUME NEW c \in Consumers, pc[c] # "idle", NEW k \in 1 .. Len(sent)
               PROVE  ~(Len(sent[k]) > limit[c])
    OBVIOUS
  <2>1. sent[k] \in Messages /\ limit[c] \in Limits[c]
    BY DEF ArgumentsChosen
  <2>2. Len(sent[k]) <= limit[c]
    BY <2>1 DEF AllFit
  <2>3. Len(sent[k]) \in Nat /\ limit[c] \in Nat
    BY <1>0
  <2> QED
    BY <2>2, <2>3
<1>2. ASSUME NEW c \in Consumers PROVE pc[c] \notin Skipping
  <2> SUFFICES ASSUME pc[c] \in Skipping PROVE FALSE
    OBVIOUS
  <2>1. mseq[c] < tailSeq /\ Len(sent[mseq[c] + 1]) > limit[c]
    BY DEF CInv, SkipsAreJustified, Skipping
  <2>2. mseq[c] + 1 \in 1 .. Len(sent)
    BY <1>0, <2>1
  <2>3. pc[c] # "idle"
    BY DEF Skipping
  <2> QED
    BY <1>1, <2>1, <2>2, <2>3
<1>3. ASSUME NEW c \in Consumers, AtLoop(c) PROVE pc[c] = "lock"
  BY <1>2, <1>3 DEF AtLoop, Skipping
<1>4. ASSUME NEW c \in Consumers, GetSkips(c) PROVE FALSE
  <2>1. pc[c] = "lock" /\ Used # 0 /\ HeaderLength > limit[c]
    BY <1>3, <1>4 DEF GetSkips
  <2>2. HeaderLength = Len(sent[headSeq + 1]) /\ headSeq + 1 \in Unread
    BY <2>1, HeadIsFirstUnread DEF CInv
  <2>3. headSeq + 1 \in 1 .. Len(sent)
    BY <1>0, <2>2 DEF Unread
  <2> QED
    BY <1>1, <2>1, <2>2, <2>3
<1>5. ASSUME NEW c \in Consumers, SkipWaits(c) PROVE FALSE
  BY <1>2, <1>5 DEF SkipWaits, Skipping
<1> QED
  BY <1>2, <1>3, <1>4, <1>5

-----------------------------------------------------------------------------
(* Counting the consumers on their way.                                    *)

\* The consumers on their way can be counted.
LEMMA ComingFinite ==
  ASSUME IsFiniteSet(Consumers)
  PROVE  IsFiniteSet(Coming) /\ Cardinality(Coming) \in Nat
<1>1. Coming \in SUBSET Consumers
  BY DEF Coming
<1> QED
  BY <1>1, FS_Subset, FS_CardinalityType

\* A step that puts no consumer to sleep and takes none off its way, and
\* brings no message, leaves the unread messages covered.
LEMMA StillCovered ==
  ASSUME IsFiniteSet(Consumers), WakeupsCoverUnread,
         UNCHANGED <<headSeq, tailSeq>>, headSeq \in Nat, tailSeq \in Nat,
         \A c \in Consumers : pc'[c] = "waitReadable" => pc[c] = "waitReadable",
         \A c \in Consumers : pc[c] = "lock" => pc'[c] = "lock"
  PROVE  WakeupsCoverUnread'
<1> SUFFICES ASSUME \E c \in Consumers : pc'[c] = "waitReadable"
             PROVE  Cardinality(Coming') >= tailSeq' - headSeq'
  BY DEF WakeupsCoverUnread, Coming
<1>1. Cardinality(Coming) >= tailSeq - headSeq
  BY DEF WakeupsCoverUnread, Coming
<1>2. Coming \in SUBSET Coming' /\ Coming' \in SUBSET Consumers
  BY DEF Coming
<1>3. IsFiniteSet(Coming')
  BY <1>2, FS_Subset
<1>4. /\ Cardinality(Coming) <= Cardinality(Coming')
      /\ Cardinality(Coming) \in Nat /\ Cardinality(Coming') \in Nat
  BY <1>2, <1>3, FS_Subset, FS_CardinalityType
<1> QED
  BY <1>1, <1>4

\* A put brings one message and one consumer, if any sleeps.
LEMMA PutCovers ==
  ASSUME IsFiniteSet(Consumers), CInv, WakeupsCoverUnread,
         NEW p \in Producers, Put(p)
  PROVE  WakeupsCoverUnread'
<1> SUFFICES ASSUME NEW c \in Consumers, pc'[c] = "waitReadable"
             PROVE  Cardinality(Coming') >= tailSeq' - headSeq'
  BY DEF WakeupsCoverUnread, Coming
<1>0. /\ pc \in [Threads -> States] /\ headSeq \in Nat /\ tailSeq \in Nat
      /\ tailSeq' = tailSeq + 1 /\ headSeq' = headSeq
      /\ p \in Threads /\ p \notin Consumers
  BY ThreadsAssumption DEF CInv, IInv, TypeOK, Put, Threads
<1>1. ReturnSignalling(p, WaitingReadable)
  BY DEF Put
<1>2. pc[c] = "waitReadable"
  BY <1>0, <1>1 DEF ReturnSignalling, WaitingReadable, Woken, Threads
<1>3. PICK w \in WaitingReadable : pc' = [pc EXCEPT ![p] = "idle", ![w] = Woken(pc[w])]
  BY <1>1, <1>2 DEF ReturnSignalling, WaitingReadable
<1>4. w \in Consumers /\ w \in Threads /\ pc[w] = "waitReadable" /\ pc'[w] = "lock"
  BY <1>0, <1>3 DEF WaitingReadable, Woken, Threads
<1>5. Coming' = Coming \cup {w}
  BY <1>0, <1>3, <1>4 DEF Coming, Threads
<1>6. w \notin Coming
  BY <1>4 DEF Coming
<1>7. Cardinality(Coming') = Cardinality(Coming) + 1 /\ Cardinality(Coming) \in Nat
  BY <1>5, <1>6, ComingFinite, FS_AddElement
<1>8. Cardinality(Coming) >= tailSeq - headSeq
  BY <1>2 DEF WakeupsCoverUnread, Coming
<1> QED
  BY <1>0, <1>7, <1>8

\* A get takes one message and itself off the way.
LEMMA GetCovers ==
  ASSUME IsFiniteSet(Consumers), CInv, WakeupsCoverUnread,
         NEW c \in Consumers, Get(c), pc[c] = "lock"
  PROVE  WakeupsCoverUnread'
<1> SUFFICES ASSUME NEW d \in Consumers, pc'[d] = "waitReadable"
             PROVE  Cardinality(Coming') >= tailSeq' - headSeq'
  BY DEF WakeupsCoverUnread, Coming
<1>0. /\ pc \in [Threads -> States] /\ headSeq \in Nat /\ tailSeq \in Nat
      /\ tailSeq' = tailSeq /\ headSeq' = headSeq + 1
  BY DEF CInv, IInv, TypeOK, Get
<1>1. ReturnSignalling(c, WaitingWriteable)
  BY DEF Get
<1>2. pc[d] = "waitReadable"
  BY <1>0, <1>1 DEF ReturnSignalling, WaitingWriteable, Woken, Threads
<1>3. Cardinality(Coming) >= tailSeq - headSeq
  BY <1>2 DEF WakeupsCoverUnread, Coming
<1>4. c \in Coming /\ Coming' \in SUBSET Consumers
  BY DEF Coming
<1>5. Coming \ {c} \in SUBSET Coming'
  BY <1>0, <1>1 DEF Coming, ReturnSignalling, WaitingWriteable, Threads
<1>6. /\ Cardinality(Coming \ {c}) = Cardinality(Coming) - 1
      /\ Cardinality(Coming) \in Nat
  BY <1>4, ComingFinite, FS_RemoveElement
<1>7. IsFiniteSet(Coming')
  BY <1>4, FS_Subset
<1>8. /\ Cardinality(Coming \ {c}) <= Cardinality(Coming')
      /\ Cardinality(Coming') \in Nat
  BY <1>5, <1>7, FS_Subset, FS_CardinalityType
<1> QED
  BY <1>0, <1>3, <1>6, <1>8

\* A consumer goes to sleep only when there is no unread message to cover.
LEMMA GetWaitsCovers ==
  ASSUME IsFiniteSet(Consumers), CInv, NEW c \in Consumers, GetWaits(c)
  PROVE  WakeupsCoverUnread'
<1>1. Used = 0 /\ UNCHANGED <<headSeq, tailSeq>>
  BY DEF GetWaits, queue
<1>2. Unread = {}
  <2> SUFFICES ASSUME NEW k \in Unread PROVE FALSE
    OBVIOUS
  <2>1. /\ head <= Start(k) /\ End(k) <= tail /\ Start(k) \in Int
        /\ End(k) = Start(k) + Extent(Len(sent[k])) /\ Len(sent[k]) \in Nat
    BY UnreadWithin DEF CInv, IInv
  <2>2. head \in Nat /\ tail \in Int
    BY SizeAssumption DEF CInv, IInv, TypeOK
  <2> QED
    BY <1>1, <2>1, <2>2 DEF Used, Extent, HeaderLen
<1>3. headSeq \in Nat /\ tailSeq \in Nat /\ tailSeq - headSeq <= 0
  <2>1. headSeq \in Nat /\ tailSeq \in Nat
    BY DEF CInv, IInv, TypeOK
  <2>2. tailSeq \notin headSeq + 1 .. tailSeq
    BY <1>2 DEF Unread
  <2> QED
    BY <2>1, <2>2
<1>4. Coming' \in SUBSET Consumers
  BY DEF Coming
<1>5. Cardinality(Coming') \in Nat
  BY <1>4, FS_Subset, FS_CardinalityType
<1> QED
  BY <1>1, <1>3, <1>5 DEF WakeupsCoverUnread, Coming

-----------------------------------------------------------------------------
(* The theorem.                                                            *)

\* Before the first call nobody sleeps.
LEMMA InitWInv ==
  ASSUME Init
  PROVE  WInv
<1>1. ArgumentsChosen
  BY DEF Init, ArgumentsChosen, Threads
<1>2. WakeupsCoverUnread
  BY DEF Init, WakeupsCoverUnread, Threads
<1> QED
  BY <1>1, <1>2, InitCInv DEF WInv

\* Every step keeps the unread messages covered.
LEMMA NextWInv ==
  ASSUME AllFit, IsFiniteSet(Consumers), WInv, [Next]_vars
  PROVE  WInv'
<1>0. /\ CInv /\ ArgumentsChosen /\ WakeupsCoverUnread
      /\ pc \in [Threads -> States] /\ headSeq \in Nat /\ tailSeq \in Nat
  BY DEF WInv, CInv, IInv, TypeOK
<1>1. ASSUME NEW p \in Producers, CallPut(p) \/ PutWaits(p) PROVE WakeupsCoverUnread'
  <2>1. \A c \in Consumers : pc'[c] = pc[c]
    BY <1>0, <1>1, ThreadsAssumption DEF CallPut, PutWaits, Threads
  <2> QED
    BY <1>0, <1>1, <2>1, StillCovered DEF CallPut, PutWaits, queue
<1>2. ASSUME NEW p \in Producers, Put(p) PROVE WakeupsCoverUnread'
  BY <1>0, <1>2, PutCovers
<1>3. ASSUME NEW c \in Consumers, CallGet(c) PROVE WakeupsCoverUnread'
  <2>1. \A d \in Consumers : /\ pc'[d] = "waitReadable" => pc[d] = "waitReadable"
                             /\ pc[d] = "lock" => pc'[d] = "lock"
    BY <1>0, <1>3 DEF CallGet, Threads
  <2> QED
    BY <1>0, <1>3, <2>1, StillCovered DEF CallGet, queue
<1>4. ASSUME NEW c \in Consumers, GetWaits(c) PROVE WakeupsCoverUnread'
  BY <1>0, <1>4, GetWaitsCovers
<1>5. ASSUME NEW c \in Consumers, GetSkips(c) \/ SkipWaits(c) PROVE WakeupsCoverUnread'
  BY <1>0, <1>5, NoneSkips
<1>6. ASSUME NEW c \in Consumers, Get(c) PROVE WakeupsCoverUnread'
  <2>1. pc[c] = "lock"
    BY <1>0, <1>6, NoneSkips DEF Get
  <2> QED
    BY <1>0, <1>6, <2>1, GetCovers
<1>7. ASSUME NEW t \in Threads, SpuriousWakeup(t) PROVE WakeupsCoverUnread'
  <2>1. \A d \in Consumers : /\ pc'[d] = "waitReadable" => pc[d] = "waitReadable"
                             /\ pc[d] = "lock" => pc'[d] = "lock"
    BY <1>0, <1>7 DEF SpuriousWakeup, WaitingReadable, WaitingWriteable, Woken, Threads
  <2> QED
    BY <1>0, <1>7, <2>1, StillCovered DEF SpuriousWakeup, queue
<1>8. ASSUME Free \/ UNCHANGED vars PROVE WakeupsCoverUnread'
  BY <1>0, <1>8, StillCovered DEF Free, vars, queue
<1>9. WakeupsCoverUnread'
  BY <1>1, <1>2, <1>3, <1>4, <1>5, <1>6, <1>7, <1>8
     DEF Next, ProducerStep, ConsumerStep, Finished
<1> QED
  BY <1>0, <1>9, NextCInv, ArgumentsKept DEF WInv

\* While a consumer sleeps on "readable", as many consumers are on their way
\* to the lock as there are unread messages: none is left for a sleeper.
THEOREM NoWakeupLost ==
  ASSUME AllFit, IsFiniteSet(Consumers)
  PROVE  Spec => []WakeupsCoverUnread
<1>1. Init => WInv
  BY InitWInv
<1>2. WInv /\ [Next]_vars => WInv'
  BY NextWInv
<1>3. WInv => WakeupsCoverUnread
  BY DEF WInv
<1> QED
  BY <1>1, <1>2, <1>3, PTL DEF Spec
=============================================================================
