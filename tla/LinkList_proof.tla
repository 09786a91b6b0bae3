----------------------------- MODULE LinkList_proof -----------------------------
(***************************************************************************)
(* The links of a list lead through one sequence of nodes, and the list is *)
(* that sequence, for any number of nodes.                                 *)
(***************************************************************************)
EXTENDS LinkList, FiniteSetTheorems, SequenceTheorems, WellFoundedInduction, TLAPS

-----------------------------------------------------------------------------
(* Sequences.                                                              *)

LEMMA RemoveAtProperties ==
  ASSUME NEW X, NEW T \in Seq(X), NEW r \in 1 .. Len(T)
  PROVE  /\ RemoveAt(T, r) \in Seq(X) /\ Len(RemoveAt(T, r)) = Len(T) - 1
         /\ \A k \in 1 .. Len(T) - 1 : RemoveAt(T, r)[k] = IF k < r THEN T[k] ELSE T[k + 1]
<1>1. PICK a : a = SubSeq(T, 1, r - 1)
  OBVIOUS
<1>2. PICK b : b = SubSeq(T, r + 1, Len(T))
  OBVIOUS
<1>3. Len(T) \in Nat /\ \A k \in 1 .. Len(T) : T[k] \in X
  OBVIOUS
<1>4. a \in Seq(X) /\ Len(a) = r - 1 /\ \A k \in 1 .. r - 1 : a[k] = T[k]
  <2>1. \A k \in 1 .. r - 1 : T[k] \in X
    BY <1>3
  <2> QED
    BY <1>1, <1>3, <2>1, SubSeqProperties
<1>5. /\ b \in Seq(X) /\ Len(b) = Len(T) - r
      /\ \A k \in 1 .. Len(T) - r : b[k] = T[r + k]
  <2>1. \A k \in r + 1 .. Len(T) : T[k] \in X
    BY <1>3
  <2>2. /\ b \in Seq(X) /\ Len(b) = IF r + 1 <= Len(T) THEN Len(T) - (r + 1) + 1 ELSE 0
        /\ \A k \in 1 .. Len(T) - (r + 1) + 1 : b[k] = T[r + 1 + k - 1]
    BY <1>2, <1>3, <2>1, SubSeqProperties
  <2> QED
    BY <1>3, <2>2
<1>6. RemoveAt(T, r) = a \o b
  BY <1>1, <1>2 DEF RemoveAt
<1>7. /\ a \o b \in Seq(X) /\ Len(a \o b) = Len(a) + Len(b)
      /\ \A k \in 1 .. Len(a) + Len(b) : (a \o b)[k] = IF k <= Len(a) THEN a[k] ELSE b[k - Len(a)]
  BY <1>4, <1>5, ConcatProperties
<1>8. ASSUME NEW k \in 1 .. Len(T) - 1
      PROVE  (a \o b)[k] = IF k < r THEN T[k] ELSE T[k + 1]
  <2>0. k \in 1 .. Len(a) + Len(b)
    BY <1>3, <1>4, <1>5
  <2>1. CASE k < r
    <3>1. k <= Len(a) /\ k \in 1 .. r - 1
      BY <1>3, <1>4, <2>1
    <3> QED
      BY <1>4, <1>7, <2>0, <2>1, <3>1
  <2>2. CASE ~(k < r)
    <3>1. /\ k - Len(a) \in 1 .. Len(T) - r /\ r + (k - Len(a)) = k + 1
          /\ ~(k <= Len(a)) /\ ~(k < r)
      BY <1>3, <1>4, <2>2
    <3>2. (a \o b)[k] = b[k - Len(a)] /\ b[k - Len(a)] = T[r + (k - Len(a))]
      BY <1>5, <1>7, <2>0, <3>1
    <3>3. T[r + (k - Len(a))] = T[k + 1]
      BY <3>1
    <3>4. (a \o b)[k] = T[k + 1]
      BY <3>2, <3>3
    <3> QED
      BY <3>1, <3>4
  <2> QED
    BY <2>1, <2>2
<1> QED
  BY <1>3, <1>4, <1>5, <1>6, <1>7, <1>8

LEMMA ReverseProperties ==
  ASSUME NEW X, NEW T \in Seq(X)
  PROVE  /\ Reverse(T) \in Seq(X) /\ Len(Reverse(T)) = Len(T)
         /\ \A k \in 1 .. Len(T) : Reverse(T)[k] = T[Len(T) - k + 1]
<1>1. Len(T) \in Nat /\ \A k \in 1 .. Len(T) : T[k] \in X
  OBVIOUS
<1>2. \A k \in 1 .. Len(T) : T[(Len(T) - k) + 1] \in X
  BY <1>1
<1>3. Reverse(T) \in [1 .. Len(T) -> X]
  BY <1>2 DEF Reverse
<1> QED
  BY <1>1, <1>3 DEF Reverse

\* From the j-th on.
From(T, j) == SubSeq(T, j, Len(T))

LEMMA FromProperties ==
  ASSUME NEW X, NEW T \in Seq(X), NEW j \in 1 .. Len(T)
  PROVE  /\ From(T, j) \in Seq(X) /\ Len(From(T, j)) = Len(T) - j + 1
         /\ \A k \in 1 .. Len(T) - j + 1 : From(T, j)[k] = T[j + k - 1]
<1>1. Len(T) \in Nat /\ \A k \in 1 .. Len(T) : T[k] \in X
  OBVIOUS
<1>2. \A k \in j .. Len(T) : T[k] \in X
  BY <1>1
<1> QED
  BY <1>1, <1>2, SubSeqProperties DEF From

LEMMA FrontProperties ==
  ASSUME NEW X, NEW T \in Seq(X), NEW n \in X
  PROVE  /\ <<n>> \o T \in Seq(X) /\ Len(<<n>> \o T) = Len(T) + 1
         /\ (<<n>> \o T)[1] = n
         /\ \A k \in 1 .. Len(T) : (<<n>> \o T)[k + 1] = T[k]
<1>1. <<n>> \in Seq(X) /\ Len(<<n>>) = 1 /\ <<n>>[1] = n
  OBVIOUS
<1>2. /\ <<n>> \o T \in Seq(X) /\ Len(<<n>> \o T) = 1 + Len(T)
      /\ \A k \in 1 .. 1 + Len(T) : (<<n>> \o T)[k] = IF k <= 1 THEN <<n>>[k] ELSE T[k - 1]
  BY <1>1, ConcatProperties
<1>3. Len(T) \in Nat
  OBVIOUS
<1>4. ASSUME NEW k \in 1 .. Len(T) PROVE (<<n>> \o T)[k + 1] = T[k]
  <2>1. k + 1 \in 1 .. 1 + Len(T) /\ ~(k + 1 <= 1) /\ (k + 1) - 1 = k
    BY <1>3
  <2> QED
    BY <1>2, <2>1
<1> QED
  BY <1>1, <1>2, <1>3, <1>4

\* What follows the j-th, of a sequence that grows or shrinks.
LEMMA FromAppend ==
  ASSUME NEW X, NEW T \in Seq(X), NEW n \in X, NEW j \in 1 .. Len(T)
  PROVE  From(Append(T, n), j) = Append(From(T, j), n)
<1>1. Len(T) \in Nat
  OBVIOUS
<1>2. PICK S : S = Append(T, n)
  OBVIOUS
<1>3. /\ S \in Seq(X) /\ Len(S) = Len(T) + 1 /\ S[Len(T) + 1] = n
      /\ \A k \in 1 .. Len(T) : S[k] = T[k]
  BY <1>2, AppendProperties
<1>4. PICK a : a = From(S, j)
  OBVIOUS
<1>5. PICK b : b = From(T, j)
  OBVIOUS
<1>6. /\ a \in Seq(X) /\ Len(a) = Len(S) - j + 1
      /\ \A k \in 1 .. Len(S) - j + 1 : a[k] = S[j + k - 1]
  <2>1. j \in 1 .. Len(S)
    BY <1>1, <1>3
  <2> QED
    BY <1>3, <1>4, <2>1, FromProperties
<1>7. /\ b \in Seq(X) /\ Len(b) = Len(T) - j + 1
      /\ \A k \in 1 .. Len(T) - j + 1 : b[k] = T[j + k - 1]
  BY <1>1, <1>5, FromProperties
<1>8. PICK c : c = Append(b, n)
  OBVIOUS
<1>9. /\ c \in Seq(X) /\ Len(c) = Len(b) + 1 /\ c[Len(b) + 1] = n
      /\ \A k \in 1 .. Len(b) : c[k] = b[k]
  BY <1>7, <1>8, AppendProperties
<1>10. ASSUME NEW k \in 1 .. Len(a) PROVE a[k] = c[k]
  <2>1. a[k] = S[j + k - 1]
    BY <1>6
  <2>2. CASE k = Len(b) + 1
    <3>1. j + k - 1 = Len(T) + 1
      BY <1>1, <1>7, <2>2
    <3> QED
      BY <1>3, <1>9, <2>1, <2>2, <3>1
  <2>3. CASE k # Len(b) + 1
    <3>0. Len(a) = Len(T) + 1 - j + 1 /\ Len(b) = Len(T) - j + 1
      BY <1>3, <1>6, <1>7
    <3>1. k \in 1 .. Len(T) - j + 1 /\ k \in 1 .. Len(b) /\ j + k - 1 \in 1 .. Len(T)
      BY <1>1, <2>3, <3>0
    <3> QED
      BY <1>3, <1>7, <1>9, <2>1, <3>1
  <2> QED
    BY <2>2, <2>3
<1>11. a = c
  <2>1. Len(a) = Len(c)
    BY <1>1, <1>3, <1>6, <1>7, <1>9
  <2> QED
    BY <1>6, <1>9, <1>10, <2>1, SeqEqual
<1> QED
  BY <1>2, <1>4, <1>5, <1>8, <1>11

LEMMA FromFront ==
  ASSUME NEW X, NEW T \in Seq(X), NEW n \in X, NEW j \in 1 .. Len(T)
  PROVE  From(<<n>> \o T, j + 1) = From(T, j)
<1>1. Len(T) \in Nat
  OBVIOUS
<1>2. PICK S : S = <<n>> \o T
  OBVIOUS
<1>3. S \in Seq(X) /\ Len(S) = Len(T) + 1 /\ \A k \in 1 .. Len(T) : S[k + 1] = T[k]
  BY <1>2, FrontProperties
<1>4. PICK a : a = From(S, j + 1)
  OBVIOUS
<1>5. PICK b : b = From(T, j)
  OBVIOUS
<1>6. /\ a \in Seq(X) /\ Len(a) = Len(S) - (j + 1) + 1
      /\ \A k \in 1 .. Len(S) - (j + 1) + 1 : a[k] = S[j + 1 + k - 1]
  <2>1. j + 1 \in 1 .. Len(S)
    BY <1>1, <1>3
  <2> QED
    BY <1>3, <1>4, <2>1, FromProperties
<1>7. /\ b \in Seq(X) /\ Len(b) = Len(T) - j + 1
      /\ \A k \in 1 .. Len(T) - j + 1 : b[k] = T[j + k - 1]
  BY <1>1, <1>5, FromProperties
<1>8. ASSUME NEW k \in 1 .. Len(a) PROVE a[k] = b[k]
  <2>1. /\ j + k - 1 \in 1 .. Len(T) /\ (j + k - 1) + 1 = j + 1 + k - 1
        /\ k \in 1 .. Len(S) - (j + 1) + 1 /\ k \in 1 .. Len(T) - j + 1
    BY <1>1, <1>3, <1>6
  <2> QED
    BY <1>3, <1>6, <1>7, <2>1
<1>9. a = b
  <2>1. Len(a) = Len(b)
    BY <1>1, <1>3, <1>6, <1>7
  <2> QED
    BY <1>6, <1>7, <1>8, <2>1, SeqEqual
<1> QED
  BY <1>2, <1>4, <1>5, <1>9

\* Taken out before the j-th.
LEMMA FromRemoved ==
  ASSUME NEW X, NEW T \in Seq(X), NEW j \in 1 .. Len(T), NEW r \in 1 .. j - 1
  PROVE  j - 1 \in 1 .. Len(T) - 1 /\ From(RemoveAt(T, r), j - 1) = From(T, j)
<1>1. Len(T) \in Nat /\ r \in 1 .. Len(T) /\ j - 1 \in 1 .. Len(T) - 1
  OBVIOUS
<1>2. PICK S : S = RemoveAt(T, r)
  OBVIOUS
<1>3. /\ S \in Seq(X) /\ Len(S) = Len(T) - 1
      /\ \A k \in 1 .. Len(T) - 1 : S[k] = IF k < r THEN T[k] ELSE T[k + 1]
  BY <1>1, <1>2, RemoveAtProperties
<1>4. PICK a : a = From(S, j - 1)
  OBVIOUS
<1>5. PICK b : b = From(T, j)
  OBVIOUS
<1>6. /\ a \in Seq(X) /\ Len(a) = Len(S) - (j - 1) + 1
      /\ \A k \in 1 .. Len(S) - (j - 1) + 1 : a[k] = S[(j - 1) + k - 1]
  <2>1. j - 1 \in 1 .. Len(S)
    BY <1>1, <1>3
  <2> QED
    BY <1>3, <1>4, <2>1, FromProperties
<1>7. /\ b \in Seq(X) /\ Len(b) = Len(T) - j + 1
      /\ \A k \in 1 .. Len(T) - j + 1 : b[k] = T[j + k - 1]
  BY <1>1, <1>5, FromProperties
<1>8. ASSUME NEW k \in 1 .. Len(a) PROVE a[k] = b[k]
  <2>1. /\ (j - 1) + k - 1 \in 1 .. Len(T) - 1 /\ ((j - 1) + k - 1) + 1 = j + k - 1
        /\ ~((j - 1) + k - 1 < r)
        /\ k \in 1 .. Len(S) - (j - 1) + 1 /\ k \in 1 .. Len(T) - j + 1
    BY <1>1, <1>3, <1>6
  <2> QED
    BY <1>3, <1>6, <1>7, <2>1
<1>9. a = b
  <2>1. Len(a) = Len(b)
    BY <1>1, <1>3, <1>6, <1>7
  <2> QED
    BY <1>6, <1>7, <1>8, <2>1, SeqEqual
<1> QED
  BY <1>1, <1>2, <1>4, <1>5, <1>9

\* Taken out after the j-th.
LEMMA FromRemovedLater ==
  ASSUME NEW X, NEW T \in Seq(X), NEW j \in 1 .. Len(T), NEW r \in j + 1 .. Len(T)
  PROVE  j \in 1 .. Len(T) - 1 /\ From(RemoveAt(T, r), j) = RemoveAt(From(T, j), r - j + 1)
<1>1. Len(T) \in Nat /\ r \in 1 .. Len(T) /\ j \in 1 .. Len(T) - 1
  OBVIOUS
<1>2. PICK S : S = RemoveAt(T, r)
  OBVIOUS
<1>3. /\ S \in Seq(X) /\ Len(S) = Len(T) - 1
      /\ \A k \in 1 .. Len(T) - 1 : S[k] = IF k < r THEN T[k] ELSE T[k + 1]
  BY <1>1, <1>2, RemoveAtProperties
<1>4. PICK a : a = From(S, j)
  OBVIOUS
<1>5. PICK b : b = From(T, j)
  OBVIOUS
<1>6. /\ a \in Seq(X) /\ Len(a) = Len(S) - j + 1
      /\ \A k \in 1 .. Len(S) - j + 1 : a[k] = S[j + k - 1]
  <2>1. j \in 1 .. Len(S)
    BY <1>1, <1>3
  <2> QED
    BY <1>3, <1>4, <2>1, FromProperties
<1>7. /\ b \in Seq(X) /\ Len(b) = Len(T) - j + 1
      /\ \A k \in 1 .. Len(T) - j + 1 : b[k] = T[j + k - 1]
  BY <1>1, <1>5, FromProperties
<1>8. PICK c : c = RemoveAt(b, r - j + 1)
  OBVIOUS
<1>9. /\ c \in Seq(X) /\ Len(c) = Len(b) - 1
      /\ \A k \in 1 .. Len(b) - 1 : c[k] = IF k < r - j + 1 THEN b[k] ELSE b[k + 1]
  <2>1. r - j + 1 \in 1 .. Len(b)
    BY <1>1, <1>7
  <2> QED
    BY <1>7, <1>8, <2>1, RemoveAtProperties
<1>10. ASSUME NEW k \in 1 .. Len(a) PROVE a[k] = c[k]
  <2>1. /\ j + k - 1 \in 1 .. Len(T) - 1 /\ k \in 1 .. Len(b) - 1
        /\ k \in 1 .. Len(S) - j + 1
        /\ k + 1 \in 1 .. Len(T) - j + 1 /\ k \in 1 .. Len(T) - j + 1
        /\ j + (k + 1) - 1 = (j + k - 1) + 1
        /\ (j + k - 1 < r <=> k < r - j + 1)
    BY <1>1, <1>3, <1>6, <1>7
  <2> QED
    BY <1>3, <1>6, <1>7, <1>9, <2>1
<1>11. a = c
  <2>1. Len(a) = Len(c)
    BY <1>1, <1>3, <1>6, <1>7, <1>9
  <2> QED
    BY <1>6, <1>9, <1>10, <2>1, SeqEqual
<1> QED
  BY <1>1, <1>2, <1>4, <1>5, <1>8, <1>11

\* Backwards.
LEMMA ReverseAppend ==
  ASSUME NEW X, NEW T \in Seq(X), NEW n \in X
  PROVE  Reverse(Append(T, n)) = <<n>> \o Reverse(T)
<1>1. Len(T) \in Nat
  OBVIOUS
<1>2. PICK S : S = Append(T, n)
  OBVIOUS
<1>3. /\ S \in Seq(X) /\ Len(S) = Len(T) + 1 /\ S[Len(T) + 1] = n
      /\ \A k \in 1 .. Len(T) : S[k] = T[k]
  BY <1>2, AppendProperties
<1>4. PICK a : a = Reverse(S)
  OBVIOUS
<1>5. PICK b : b = Reverse(T)
  OBVIOUS
<1>6. /\ a \in Seq(X) /\ Len(a) = Len(S)
      /\ \A k \in 1 .. Len(S) : a[k] = S[Len(S) - k + 1]
  BY <1>3, <1>4, ReverseProperties
<1>7. /\ b \in Seq(X) /\ Len(b) = Len(T)
      /\ \A k \in 1 .. Len(T) : b[k] = T[Len(T) - k + 1]
  BY <1>5, ReverseProperties
<1>8. PICK c : c = <<n>> \o b
  OBVIOUS
<1>9. /\ c \in Seq(X) /\ Len(c) = Len(b) + 1 /\ c[1] = n
      /\ \A k \in 1 .. Len(b) : c[k + 1] = b[k]
  BY <1>7, <1>8, FrontProperties
<1>10. ASSUME NEW k \in 1 .. Len(a) PROVE a[k] = c[k]
  <2>1. a[k] = S[Len(S) - k + 1]
    BY <1>6
  <2>2. CASE k = 1
    <3>1. Len(S) - k + 1 = Len(T) + 1
      BY <1>1, <1>3, <2>2
    <3> QED
      BY <1>3, <1>9, <2>1, <2>2, <3>1
  <2>3. CASE k # 1
    <3>0. Len(a) = Len(T) + 1 /\ Len(b) = Len(T) /\ Len(S) = Len(T) + 1
      BY <1>3, <1>6, <1>7
    <3>1. /\ k - 1 \in 1 .. Len(b) /\ k - 1 \in 1 .. Len(T) /\ (k - 1) + 1 = k
          /\ Len(T) - (k - 1) + 1 = Len(S) - k + 1
          /\ Len(T) - (k - 1) + 1 \in 1 .. Len(T)
      BY <1>1, <2>3, <3>0
    <3>2. c[k] = b[k - 1] /\ b[k - 1] = T[Len(T) - (k - 1) + 1]
      BY <1>7, <1>9, <3>1
    <3>3. S[Len(T) - (k - 1) + 1] = T[Len(T) - (k - 1) + 1]
      BY <1>3, <3>1
    <3> QED
      BY <2>1, <3>1, <3>2, <3>3
  <2> QED
    BY <2>2, <2>3
<1>11. a = c
  <2>1. Len(a) = Len(c)
    BY <1>1, <1>3, <1>6, <1>7, <1>9
  <2> QED
    BY <1>6, <1>9, <1>10, <2>1, SeqEqual
<1> QED
  BY <1>2, <1>4, <1>5, <1>8, <1>11

LEMMA ReverseTwice ==
  ASSUME NEW X, NEW T \in Seq(X)
  PROVE  Reverse(Reverse(T)) = T
<1>1. Len(T) \in Nat
  OBVIOUS
<1>2. PICK a : a = Reverse(T)
  OBVIOUS
<1>3. a \in Seq(X) /\ Len(a) = Len(T) /\ \A k \in 1 .. Len(T) : a[k] = T[Len(T) - k + 1]
  BY <1>2, ReverseProperties
<1>4. PICK b : b = Reverse(a)
  OBVIOUS
<1>5. b \in Seq(X) /\ Len(b) = Len(a) /\ \A k \in 1 .. Len(a) : b[k] = a[Len(a) - k + 1]
  BY <1>3, <1>4, ReverseProperties
<1>6. ASSUME NEW k \in 1 .. Len(b) PROVE b[k] = T[k]
  <2>1. /\ k \in 1 .. Len(a) /\ Len(a) - k + 1 \in 1 .. Len(T)
        /\ Len(T) - (Len(a) - k + 1) + 1 = k
    BY <1>1, <1>3, <1>5
  <2> QED
    BY <1>3, <1>5, <2>1
<1> QED
  BY <1>2, <1>3, <1>4, <1>5, <1>6, SeqEqual

LEMMA ReverseFront ==
  ASSUME NEW X, NEW T \in Seq(X), NEW n \in X
  PROVE  Reverse(<<n>> \o T) = Append(Reverse(T), n)
<1>1. PICK R : R = Reverse(T)
  OBVIOUS
<1>2. R \in Seq(X) /\ Reverse(R) = T
  BY <1>1, ReverseProperties, ReverseTwice
<1>3. Append(R, n) \in Seq(X) /\ Reverse(Append(R, n)) = <<n>> \o T
  BY <1>2, AppendProperties, ReverseAppend
<1> QED
  BY <1>1, <1>3, ReverseTwice

LEMMA ReverseRemoved ==
  ASSUME NEW X, NEW T \in Seq(X), NEW r \in 1 .. Len(T)
  PROVE  /\ Len(T) - r + 1 \in 1 .. Len(T)
         /\ Reverse(RemoveAt(T, r)) = RemoveAt(Reverse(T), Len(T) - r + 1)
<1>1. Len(T) \in Nat /\ Len(T) - r + 1 \in 1 .. Len(T)
  OBVIOUS
<1>2. PICK S : S = RemoveAt(T, r)
  OBVIOUS
<1>3. /\ S \in Seq(X) /\ Len(S) = Len(T) - 1
      /\ \A k \in 1 .. Len(T) - 1 : S[k] = IF k < r THEN T[k] ELSE T[k + 1]
  BY <1>2, RemoveAtProperties
<1>4. PICK a : a = Reverse(S)
  OBVIOUS
<1>5. PICK b : b = Reverse(T)
  OBVIOUS
<1>6. /\ a \in Seq(X) /\ Len(a) = Len(S)
      /\ \A k \in 1 .. Len(S) : a[k] = S[Len(S) - k + 1]
  BY <1>3, <1>4, ReverseProperties
<1>7. /\ b \in Seq(X) /\ Len(b) = Len(T)
      /\ \A k \in 1 .. Len(T) : b[k] = T[Len(T) - k + 1]
  BY <1>5, ReverseProperties
<1>8. PICK q : q = Len(T) - r + 1
  OBVIOUS
<1>9. PICK c : c = RemoveAt(b, q)
  OBVIOUS
<1>10. /\ c \in Seq(X) /\ Len(c) = Len(b) - 1
       /\ \A k \in 1 .. Len(b) - 1 : c[k] = IF k < q THEN b[k] ELSE b[k + 1]
  BY <1>1, <1>7, <1>8, <1>9, RemoveAtProperties
<1>11. ASSUME NEW k \in 1 .. Len(a) PROVE a[k] = c[k]
  <2>1. /\ Len(a) = Len(T) - 1 /\ Len(S) = Len(T) - 1 /\ Len(b) = Len(T)
        /\ k \in 1 .. Len(S) /\ k \in 1 .. Len(b) - 1
    BY <1>3, <1>6, <1>7
  <2>2. a[k] = S[Len(S) - k + 1] /\ c[k] = IF k < q THEN b[k] ELSE b[k + 1]
    BY <1>6, <1>10, <2>1
  <2>3. Len(S) - k + 1 \in 1 .. Len(T) - 1
    BY <1>1, <2>1
  <2>4. CASE k < q
    <3>1. /\ ~(Len(S) - k + 1 < r) /\ (Len(S) - k + 1) + 1 = Len(T) - k + 1
          /\ k \in 1 .. Len(T)
      BY <1>1, <1>8, <2>1, <2>4
    <3>2. S[Len(S) - k + 1] = T[Len(T) - k + 1]
      BY <1>3, <2>3, <3>1
    <3>3. b[k] = T[Len(T) - k + 1]
      BY <1>7, <3>1
    <3> QED
      BY <2>2, <2>4, <3>2, <3>3
  <2>5. CASE ~(k < q)
    <3>1. /\ Len(S) - k + 1 < r /\ Len(S) - k + 1 = Len(T) - (k + 1) + 1
          /\ k + 1 \in 1 .. Len(T)
      BY <1>1, <1>8, <2>1, <2>5
    <3>2. S[Len(S) - k + 1] = T[Len(T) - (k + 1) + 1]
      BY <1>3, <2>3, <3>1
    <3>3. b[k + 1] = T[Len(T) - (k + 1) + 1]
      BY <1>7, <3>1
    <3> QED
      BY <2>2, <2>5, <3>2, <3>3
  <2> QED
    BY <2>4, <2>5
<1>12. a = c
  <2>1. Len(a) = Len(c)
    BY <1>1, <1>3, <1>6, <1>7, <1>10
  <2> QED
    BY <1>6, <1>10, <1>11, <2>1, SeqEqual
<1> QED
  BY <1>1, <1>2, <1>4, <1>5, <1>8, <1>9, <1>12

\* What is up to the k-th, backwards, follows its place in the reverse.
LEMMA ReverseUpTo ==
  ASSUME NEW X, NEW T \in Seq(X), NEW j \in 1 .. Len(T)
  PROVE  /\ Len(T) - j + 1 \in 1 .. Len(T)
         /\ Reverse(SubSeq(T, 1, j)) = From(Reverse(T), Len(T) - j + 1)
<1>1. Len(T) \in Nat /\ Len(T) - j + 1 \in 1 .. Len(T)
  OBVIOUS
<1>2. PICK S : S = SubSeq(T, 1, j)
  OBVIOUS
<1>3. S \in Seq(X) /\ Len(S) = j /\ \A k \in 1 .. j : S[k] = T[k]
  <2>1. \A k \in 1 .. j : T[k] \in X
    OBVIOUS
  <2>2. /\ S \in Seq(X) /\ Len(S) = IF 1 <= j THEN j - 1 + 1 ELSE 0
        /\ \A k \in 1 .. j - 1 + 1 : S[k] = T[1 + k - 1]
    BY <1>2, <2>1, SubSeqProperties
  <2> QED
    BY <2>2
<1>4. PICK a : a = Reverse(S)
  OBVIOUS
<1>5. PICK b : b = Reverse(T)
  OBVIOUS
<1>6. a \in Seq(X) /\ Len(a) = j /\ \A k \in 1 .. j : a[k] = S[j - k + 1]
  BY <1>3, <1>4, ReverseProperties
<1>7. b \in Seq(X) /\ Len(b) = Len(T) /\ \A k \in 1 .. Len(T) : b[k] = T[Len(T) - k + 1]
  BY <1>5, ReverseProperties
<1>8. PICK q : q = Len(T) - j + 1
  OBVIOUS
<1>9. PICK c : c = From(b, q)
  OBVIOUS
<1>10. /\ c \in Seq(X) /\ Len(c) = Len(b) - q + 1
       /\ \A k \in 1 .. Len(b) - q + 1 : c[k] = b[q + k - 1]
  <2>1. q \in 1 .. Len(b)
    BY <1>1, <1>7, <1>8
  <2> QED
    BY <1>7, <1>9, <2>1, FromProperties
<1>11. Len(b) - q + 1 = j
  BY <1>1, <1>7, <1>8
<1>12. ASSUME NEW k \in 1 .. Len(a) PROVE a[k] = c[k]
  <2>1. k \in 1 .. j
    BY <1>6
  <2>2. /\ j - k + 1 \in 1 .. j /\ q + k - 1 \in 1 .. Len(T)
        /\ Len(T) - (q + k - 1) + 1 = j - k + 1
    BY <1>1, <1>8, <2>1
  <2>3. a[k] = S[j - k + 1] /\ S[j - k + 1] = T[j - k + 1]
    BY <1>3, <1>6, <2>1, <2>2
  <2>4. c[k] = b[q + k - 1] /\ b[q + k - 1] = T[j - k + 1]
    BY <1>7, <1>10, <1>11, <2>1, <2>2
  <2> QED
    BY <2>3, <2>4
<1>13. a = c
  BY <1>6, <1>10, <1>11, <1>12, SeqEqual
<1> QED
  BY <1>1, <1>2, <1>4, <1>5, <1>8, <1>9, <1>13

-----------------------------------------------------------------------------
(* Links.  A thread is a sequence of nodes along a link, from p to NULL.   *)

ItemAt(T, k) == IF k \in DOMAIN T THEN T[k] ELSE NULL

Lists == {T \in Seq(Nodes) : IsInjective(T)}

Thread(link, p, T) ==
    /\ T \in Lists
    /\ p = ItemAt(T, 1)
    /\ \A k \in DOMAIN T : link[T[k]] = ItemAt(T, k + 1)

\* The two links lead on from the nodes of M to the same.
Same(link, new, M) == \A m \in M : new[m] = link[m]

LEMMA ListProperties ==
  ASSUME NEW T \in Lists
  PROVE  /\ T \in Seq(Nodes) /\ Len(T) \in Nat /\ DOMAIN T = 1 .. Len(T)
         /\ \A k \in 1 .. Len(T) : T[k] \in Nodes /\ T[k] # NULL /\ T[k] \in Range(T)
         /\ \A j, k \in 1 .. Len(T) : T[j] = T[k] => j = k
         /\ Range(T) \subseteq Nodes
         /\ \A n \in Range(T) : \E k \in 1 .. Len(T) : n = T[k]
<1>1. T \in Seq(Nodes) /\ IsInjective(T)
  BY DEF Lists
<1>2. Len(T) \in Nat /\ DOMAIN T = 1 .. Len(T) /\ \A k \in 1 .. Len(T) : T[k] \in Nodes
  BY <1>1
<1> QED
  BY <1>1, <1>2, LinkListAssumption DEF IsInjective, Range

LEMMA ListMade ==
  ASSUME NEW T \in Seq(Nodes), \A j, k \in 1 .. Len(T) : T[j] = T[k] => j = k
  PROVE  T \in Lists
  BY DEF Lists, IsInjective

\* A node after the last.
LEMMA ThreadAppend ==
  ASSUME NEW link, NEW new, NEW p, NEW T, Thread(link, p, T), NEW n \in Nodes, n \notin Range(T),
         new[n] = NULL, Len(T) # 0 => new[T[Len(T)]] = n,
         Same(link, new, Nodes \ {n, ItemAt(T, Len(T))})
  PROVE  Thread(new, IF Len(T) = 0 THEN n ELSE p, Append(T, n))
<1>1. /\ T \in Lists /\ T \in Seq(Nodes) /\ Len(T) \in Nat /\ DOMAIN T = 1 .. Len(T)
      /\ \A k \in 1 .. Len(T) : T[k] \in Nodes /\ T[k] # n
      /\ \A j, k \in 1 .. Len(T) : T[j] = T[k] => j = k
  BY ListProperties DEF Thread
<1>2. PICK S : S = Append(T, n)
  OBVIOUS
<1>3. /\ S \in Seq(Nodes) /\ Len(S) = Len(T) + 1 /\ S[Len(T) + 1] = n
      /\ \A k \in 1 .. Len(T) : S[k] = T[k]
  BY <1>1, <1>2, AppendProperties
<1>4. S \in Lists
  <2>1. ASSUME NEW j \in 1 .. Len(S), NEW k \in 1 .. Len(S), S[j] = S[k] PROVE j = k
    <3>1. ASSUME NEW m \in 1 .. Len(S) PROVE m \in 1 .. Len(T) \/ m = Len(T) + 1
      BY <1>1, <1>3
    <3> QED
      BY <1>1, <1>3, <2>1, <3>1
  <2> QED
    BY <1>3, <2>1, ListMade
<1>5. DOMAIN S = 1 .. Len(T) + 1
  BY <1>3
<1>6. (IF Len(T) = 0 THEN n ELSE p) = ItemAt(S, 1)
  <2>1. p = IF 1 \in 1 .. Len(T) THEN T[1] ELSE NULL
    BY <1>1 DEF Thread, ItemAt
  <2>2. 1 \in 1 .. Len(T) + 1 /\ ItemAt(S, 1) = S[1]
    BY <1>1, <1>5 DEF ItemAt
  <2>3. CASE Len(T) = 0
    BY <1>3, <2>2, <2>3
  <2>4. CASE Len(T) # 0
    <3>1. 1 \in 1 .. Len(T)
      BY <1>1, <2>4
    <3> QED
      BY <1>3, <2>1, <2>2, <2>4, <3>1
  <2> QED
    BY <2>3, <2>4
<1>7. ASSUME NEW k \in DOMAIN S PROVE new[S[k]] = ItemAt(S, k + 1)
  <2>1. CASE k = Len(T) + 1
    <3>1. k + 1 \notin DOMAIN S
      BY <1>1, <1>5, <2>1
    <3> QED
      BY <1>3, <2>1, <3>1 DEF ItemAt
  <2>2. CASE k = Len(T) /\ Len(T) # 0
    <3>1. k \in 1 .. Len(T) /\ k + 1 \in DOMAIN S
      BY <1>1, <1>5, <2>2
    <3> QED
      BY <1>3, <2>2, <3>1 DEF ItemAt
  <2>3. CASE k # Len(T) /\ k # Len(T) + 1
    <3>1. k \in 1 .. Len(T) /\ k + 1 \in 1 .. Len(T) /\ k + 1 \in DOMAIN S /\ Len(T) \in 1 .. Len(T)
      BY <1>1, <1>5, <2>3
    <3>2. T[k] # T[Len(T)]
      BY <1>1, <2>3, <3>1
    <3>3. new[T[k]] = link[T[k]]
      BY <1>1, <3>1, <3>2 DEF Same, ItemAt
    <3>4. link[T[k]] = T[k + 1]
      BY <1>1, <3>1 DEF Thread, ItemAt
    <3> QED
      BY <1>3, <3>1, <3>3, <3>4 DEF ItemAt
  <2> QED
    BY <1>1, <1>5, <2>1, <2>2, <2>3
<1> QED
  BY <1>2, <1>4, <1>6, <1>7 DEF Thread

\* A node before the first.
LEMMA ThreadFront ==
  ASSUME NEW link, NEW new, NEW p, NEW T, Thread(link, p, T), NEW n \in Nodes, n \notin Range(T),
         new[n] = p, Same(link, new, Nodes \ {n})
  PROVE  Thread(new, n, <<n>> \o T)
<1>1. /\ T \in Lists /\ T \in Seq(Nodes) /\ Len(T) \in Nat /\ DOMAIN T = 1 .. Len(T)
      /\ \A k \in 1 .. Len(T) : T[k] \in Nodes /\ T[k] # n
      /\ \A j, k \in 1 .. Len(T) : T[j] = T[k] => j = k
  BY ListProperties DEF Thread
<1>2. PICK S : S = <<n>> \o T
  OBVIOUS
<1>3. /\ S \in Seq(Nodes) /\ Len(S) = Len(T) + 1 /\ S[1] = n
      /\ \A k \in 1 .. Len(T) : S[k + 1] = T[k]
  BY <1>1, <1>2, FrontProperties
<1>4. DOMAIN S = 1 .. Len(T) + 1
  BY <1>3
<1>5. ASSUME NEW k \in 1 .. Len(S), k # 1 PROVE k - 1 \in 1 .. Len(T) /\ S[k] = T[k - 1]
  <2>1. k - 1 \in 1 .. Len(T) /\ (k - 1) + 1 = k
    BY <1>1, <1>3, <1>5
  <2> QED
    BY <1>3, <2>1
<1>6. S \in Lists
  <2>1. ASSUME NEW j \in 1 .. Len(S), NEW k \in 1 .. Len(S), S[j] = S[k] PROVE j = k
    <3>1. CASE j = 1 \/ k = 1
      BY <1>1, <1>3, <1>5, <2>1, <3>1
    <3>2. CASE j # 1 /\ k # 1
      <4>1. j - 1 = k - 1
        BY <1>1, <1>5, <2>1, <3>2
      <4> QED
        BY <4>1
    <3> QED
      BY <3>1, <3>2
  <2> QED
    BY <1>3, <2>1, ListMade
<1>7. n = ItemAt(S, 1)
  BY <1>1, <1>3, <1>4 DEF ItemAt
<1>8. ASSUME NEW k \in DOMAIN S PROVE new[S[k]] = ItemAt(S, k + 1)
  <2>1. ItemAt(S, k + 1) = ItemAt(T, k)
    <3>1. CASE k \in 1 .. Len(T)
      BY <1>1, <1>3, <1>4, <3>1 DEF ItemAt
    <3>2. CASE k \notin 1 .. Len(T)
      <4>1. k + 1 \notin DOMAIN S
        BY <1>1, <1>4, <3>2
      <4> QED
        BY <1>1, <3>2, <4>1 DEF ItemAt
    <3> QED
      BY <3>1, <3>2
  <2>2. CASE k = 1
    BY <1>3, <2>1, <2>2 DEF Thread
  <2>3. CASE k # 1
    <3>1. k - 1 \in 1 .. Len(T) /\ S[k] = T[k - 1]
      BY <1>3, <1>4, <1>5, <2>3
    <3>2. link[T[k - 1]] = ItemAt(T, (k - 1) + 1) /\ (k - 1) + 1 = k
      BY <1>1, <1>4, <3>1 DEF Thread
    <3>3. new[T[k - 1]] = link[T[k - 1]]
      BY <1>1, <3>1 DEF Same
    <3> QED
      BY <2>1, <3>1, <3>2, <3>3
  <2> QED
    BY <2>2, <2>3
<1> QED
  BY <1>2, <1>6, <1>7, <1>8 DEF Thread

\* The node at r taken out.
LEMMA ListRemoved ==
  ASSUME NEW T \in Lists, NEW r \in 1 .. Len(T)
  PROVE  RemoveAt(T, r) \in Lists /\ T[r] \notin Range(RemoveAt(T, r))
<1>1. /\ T \in Seq(Nodes) /\ Len(T) \in Nat
      /\ \A j, k \in 1 .. Len(T) : T[j] = T[k] => j = k
  BY ListProperties
<1>2. PICK S : S = RemoveAt(T, r)
  OBVIOUS
<1>3. /\ S \in Seq(Nodes) /\ Len(S) = Len(T) - 1
      /\ \A k \in 1 .. Len(T) - 1 : S[k] = IF k < r THEN T[k] ELSE T[k + 1]
  BY <1>1, <1>2, RemoveAtProperties
<1>4. PICK at : at = [k \in 1 .. Len(S) |-> IF k < r THEN k ELSE k + 1]
  OBVIOUS
<1>5. ASSUME NEW k \in 1 .. Len(S) PROVE at[k] \in 1 .. Len(T) /\ S[k] = T[at[k]] /\ at[k] # r
  <2>1. k \in 1 .. Len(T) - 1
    BY <1>3
  <2> QED
    BY <1>1, <1>3, <1>4, <2>1
<1>6. ASSUME NEW j \in 1 .. Len(S), NEW k \in 1 .. Len(S), S[j] = S[k] PROVE j = k
  <2>1. at[j] = at[k]
    BY <1>1, <1>5, <1>6
  <2> QED
    BY <1>4, <2>1
<1>7. ASSUME NEW k \in 1 .. Len(S) PROVE S[k] # T[r]
  BY <1>1, <1>5
<1>8. T[r] \notin Range(S)
  BY <1>3, <1>7 DEF Range
<1> QED
  BY <1>2, <1>3, <1>6, <1>8, ListMade

LEMMA ThreadRemoved ==
  ASSUME NEW link, NEW new, NEW p, NEW T, Thread(link, p, T), NEW r \in 2 .. Len(T),
         new[T[r - 1]] = link[T[r]], Same(link, new, Nodes \ {T[r - 1], T[r]})
  PROVE  Thread(new, p, RemoveAt(T, r))
<1>1. /\ T \in Lists /\ T \in Seq(Nodes) /\ Len(T) \in Nat /\ DOMAIN T = 1 .. Len(T)
      /\ \A k \in 1 .. Len(T) : T[k] \in Nodes
      /\ \A j, k \in 1 .. Len(T) : T[j] = T[k] => j = k
  BY ListProperties DEF Thread
<1>2. r \in 1 .. Len(T) /\ r - 1 \in 1 .. Len(T) /\ Len(T) - 1 \in Nat /\ Len(T) - 1 >= 1
  BY <1>1
<1>3. PICK S : S = RemoveAt(T, r)
  OBVIOUS
<1>4. /\ S \in Seq(Nodes) /\ Len(S) = Len(T) - 1
      /\ \A k \in 1 .. Len(T) - 1 : S[k] = IF k < r THEN T[k] ELSE T[k + 1]
  BY <1>1, <1>2, <1>3, RemoveAtProperties
<1>5. S \in Lists /\ DOMAIN S = 1 .. Len(T) - 1
  BY <1>1, <1>2, <1>3, <1>4, ListRemoved
<1>6. p = ItemAt(S, 1)
  <2>1. p = T[1] /\ 1 < r /\ 1 \in 1 .. Len(T) - 1
    BY <1>1, <1>2 DEF Thread, ItemAt
  <2> QED
    BY <1>4, <1>5, <2>1 DEF ItemAt
<1>7. ASSUME NEW k \in 1 .. Len(T) PROVE link[T[k]] = ItemAt(T, k + 1)
  BY <1>1 DEF Thread
<1>8. ASSUME NEW k \in 1 .. Len(T), k # r, k # r - 1 PROVE new[T[k]] = link[T[k]]
  BY <1>1, <1>2, <1>8 DEF Same
<1>9. ASSUME NEW k \in 1 .. Len(T) - 1 PROVE new[S[k]] = ItemAt(S, k + 1)
  <2>1. CASE k < r - 1
    <3>1. /\ k \in 1 .. Len(T) /\ k + 1 \in 1 .. Len(T) - 1 /\ k + 1 \in 1 .. Len(T)
          /\ k < r /\ k + 1 < r /\ k # r /\ k # r - 1
      BY <1>1, <2>1
    <3>2. S[k] = T[k] /\ S[k + 1] = T[k + 1]
      BY <1>4, <3>1
    <3>3. new[T[k]] = T[k + 1]
      BY <1>1, <1>7, <1>8, <3>1 DEF ItemAt
    <3> QED
      BY <1>5, <3>1, <3>2, <3>3 DEF ItemAt
  <2>2. ASSUME k >= r - 1 PROVE ItemAt(S, k + 1) = ItemAt(T, k + 2)
    <3>1. CASE k + 1 \in 1 .. Len(T) - 1
      <4>1. ~(k + 1 < r) /\ (k + 1) + 1 = k + 2 /\ k + 2 \in 1 .. Len(T)
        BY <1>1, <2>2, <3>1
      <4> QED
        BY <1>1, <1>4, <1>5, <3>1, <4>1 DEF ItemAt
    <3>2. CASE k + 1 \notin 1 .. Len(T) - 1
      <4>1. k + 2 \notin 1 .. Len(T)
        BY <1>1, <3>2
      <4> QED
        BY <1>1, <1>5, <3>2, <4>1 DEF ItemAt
    <3> QED
      BY <3>1, <3>2
  <2>3. CASE k = r - 1
    <3>1. k < r /\ k + 2 = r + 1
      BY <1>1, <2>3
    <3>2. S[k] = T[r - 1]
      BY <1>4, <2>3, <3>1
    <3>3. link[T[r]] = ItemAt(T, r + 1)
      BY <1>2, <1>7
    <3> QED
      BY <2>2, <2>3, <3>1, <3>2, <3>3
  <2>4. CASE k >= r
    <3>1. /\ ~(k < r) /\ k + 1 \in 1 .. Len(T) /\ k + 1 # r /\ k + 1 # r - 1
          /\ (k + 1) + 1 = k + 2 /\ k >= r - 1
      BY <1>1, <2>4
    <3>2. S[k] = T[k + 1]
      BY <1>4, <3>1
    <3>3. new[T[k + 1]] = ItemAt(T, (k + 1) + 1)
      BY <1>7, <1>8, <3>1
    <3> QED
      BY <2>2, <3>1, <3>2, <3>3
  <2> QED
    BY <1>1, <2>1, <2>3, <2>4
<1> QED
  BY <1>3, <1>5, <1>6, <1>9 DEF Thread

\* The first taken out.
LEMMA ThreadShortened ==
  ASSUME NEW link, NEW new, NEW p, NEW T, Thread(link, p, T), Len(T) # 0,
         Same(link, new, Nodes \ {T[1]})
  PROVE  p = T[1] /\ Thread(new, link[p], RemoveAt(T, 1))
<1>1. /\ T \in Lists /\ T \in Seq(Nodes) /\ Len(T) \in Nat /\ DOMAIN T = 1 .. Len(T)
      /\ \A k \in 1 .. Len(T) : T[k] \in Nodes
      /\ \A j, k \in 1 .. Len(T) : T[j] = T[k] => j = k
  BY ListProperties DEF Thread
<1>2. 1 \in 1 .. Len(T) /\ Len(T) - 1 \in Nat
  BY <1>1
<1>3. PICK S : S = RemoveAt(T, 1)
  OBVIOUS
<1>4. /\ S \in Seq(Nodes) /\ Len(S) = Len(T) - 1
      /\ \A k \in 1 .. Len(T) - 1 : S[k] = IF k < 1 THEN T[k] ELSE T[k + 1]
  BY <1>1, <1>2, <1>3, RemoveAtProperties
<1>5. S \in Lists /\ DOMAIN S = 1 .. Len(T) - 1
  BY <1>1, <1>2, <1>3, <1>4, ListRemoved
<1>6. \A k \in 1 .. Len(T) - 1 : S[k] = T[k + 1]
  BY <1>4
<1>7. ASSUME NEW k \in Nat, k >= 1 PROVE ItemAt(S, k) = ItemAt(T, k + 1)
  <2>1. k \in 1 .. Len(T) - 1 <=> k + 1 \in 1 .. Len(T)
    BY <1>1, <1>7
  <2> QED
    BY <1>1, <1>5, <1>6, <2>1 DEF ItemAt
<1>8. p = T[1] /\ link[p] = ItemAt(S, 1)
  <2>1. p = T[1] /\ link[T[1]] = ItemAt(T, 1 + 1)
    BY <1>1, <1>2 DEF Thread, ItemAt
  <2> QED
    BY <1>7, <2>1
<1>9. ASSUME NEW k \in 1 .. Len(T) - 1 PROVE new[S[k]] = ItemAt(S, k + 1)
  <2>1. k + 1 \in 1 .. Len(T) /\ k + 1 # 1 /\ k + 1 \in Nat /\ k + 1 >= 1
    BY <1>1
  <2>2. S[k] = T[k + 1] /\ T[k + 1] # T[1]
    BY <1>1, <1>2, <1>6, <2>1
  <2>3. new[T[k + 1]] = link[T[k + 1]]
    BY <1>1, <2>1, <2>2 DEF Same
  <2>4. link[T[k + 1]] = ItemAt(T, (k + 1) + 1)
    BY <1>1, <2>1 DEF Thread
  <2> QED
    BY <1>7, <2>1, <2>2, <2>3, <2>4
<1> QED
  BY <1>3, <1>5, <1>8, <1>9 DEF Thread

\* What follows the j-th.
LEMMA ThreadFrom ==
  ASSUME NEW link, NEW p, NEW T, Thread(link, p, T), NEW j \in 1 .. Len(T)
  PROVE  Thread(link, T[j], From(T, j))
<1>1. /\ T \in Lists /\ T \in Seq(Nodes) /\ Len(T) \in Nat /\ DOMAIN T = 1 .. Len(T)
      /\ \A i, k \in 1 .. Len(T) : T[i] = T[k] => i = k
  BY ListProperties DEF Thread
<1>2. PICK S : S = From(T, j)
  OBVIOUS
<1>3. /\ S \in Seq(Nodes) /\ Len(S) = Len(T) - j + 1
      /\ \A k \in 1 .. Len(T) - j + 1 : S[k] = T[j + k - 1]
  <2>1. T \in Seq(Nodes)
    BY <1>1
  <2> QED
    BY <1>2, <2>1, FromProperties
<1>4. DOMAIN S = 1 .. Len(S) /\ Len(S) \in Nat
  BY <1>3
<1>5. ASSUME NEW k \in 1 .. Len(S)
      PROVE  S[k] = T[j + k - 1] /\ j + k - 1 \in 1 .. Len(T)
  <2>1. k \in 1 .. Len(T) - j + 1 /\ j + k - 1 \in 1 .. Len(T)
    BY <1>1, <1>3
  <2> QED
    BY <1>3, <2>1
<1>6. S \in Lists
  <2>1. ASSUME NEW i \in 1 .. Len(S), NEW k \in 1 .. Len(S), S[i] = S[k] PROVE i = k
    <3>1. j + i - 1 = j + k - 1
      BY <1>1, <1>5, <2>1
    <3> QED
      BY <3>1
  <2> QED
    BY <1>3, <2>1, ListMade
<1>7. T[j] = ItemAt(S, 1)
  <2>1. 1 \in 1 .. Len(S) /\ j + 1 - 1 = j
    BY <1>1, <1>3
  <2> QED
    BY <1>4, <1>5, <2>1 DEF ItemAt
<1>8. ASSUME NEW k \in 1 .. Len(S) PROVE link[S[k]] = ItemAt(S, k + 1)
  <2>1. link[T[j + k - 1]] = ItemAt(T, (j + k - 1) + 1)
    BY <1>1, <1>5 DEF Thread
  <2>2. (j + k - 1) + 1 = j + (k + 1) - 1 /\ k + 1 \in Nat /\ k + 1 >= 1
    BY <1>1
  <2>3. k + 1 \in 1 .. Len(S) <=> j + (k + 1) - 1 \in 1 .. Len(T)
    BY <1>1, <1>3
  <2>4. ItemAt(S, k + 1) = ItemAt(T, j + (k + 1) - 1)
    BY <1>1, <1>4, <1>5, <2>3 DEF ItemAt
  <2> QED
    BY <1>5, <2>1, <2>2, <2>4
<1> QED
  BY <1>2, <1>4, <1>6, <1>7, <1>8 DEF Thread

-----------------------------------------------------------------------------
(* Following links.                                                        *)

\* A set that has 0, and with each number below n the next, has 0 .. n.
LEMMA Induction ==
  ASSUME NEW n \in Nat, NEW S, 0 \in S, \A k \in 0 .. n - 1 : k \in S => k + 1 \in S
  PROVE  0 .. n \subseteq S
<1> SUFFICES ASSUME 0 .. n \ S # {} PROVE FALSE
  OBVIOUS
<1>1. PICK T : T = 0 .. n \ S
  OBVIOUS
<1>2. T \subseteq Nat /\ T # {}
  BY <1>1
<1>3. PICK x \in T : \A y \in T : ~(<<y, x>> \in OpToRel(<, Nat))
  BY <1>2, NatLessThanWellFounded, WFMin
<1>4. x \in 0 .. n /\ x \notin S /\ x # 0
  BY <1>1
<1>5. x - 1 \in 0 .. n - 1 /\ x - 1 \in 0 .. n /\ x - 1 < x /\ x \in Nat /\ x - 1 \in Nat
  BY <1>4
<1>6. x - 1 \in S
  BY <1>1, <1>3, <1>5 DEF OpToRel
<1>7. (x - 1) + 1 \in S /\ (x - 1) + 1 = x
  BY <1>5, <1>6
<1> QED
  BY <1>4, <1>7

\* There are no more nodes in a list than there are nodes.
LEMMA ListLength ==
  ASSUME NEW T \in Lists
  PROVE  Len(T) <= Cardinality(Nodes) /\ Cardinality(Nodes) \in Nat
<1>1. /\ T \in Seq(Nodes) /\ Len(T) \in Nat
      /\ \A j, k \in 1 .. Len(T) : T[j] = T[k] => j = k
  BY ListProperties
<1>2. T \in [1 .. Len(T) -> Nodes]
  BY <1>1
<1>3. T \in Injection(1 .. Len(T), Nodes)
  BY <1>1, <1>2 DEF Injection, IsInjective
<1>4. IsFiniteSet(Nodes)
  BY LinkListAssumption
<1>5. Cardinality(1 .. Len(T)) <= Cardinality(Nodes)
  BY <1>3, <1>4, FS_Injection
<1>6. Cardinality(1 .. Len(T)) = Len(T)
  <2>1. Cardinality(1 .. Len(T)) = IF 1 > Len(T) THEN 0 ELSE Len(T) - 1 + 1
    BY <1>1, FS_Interval
  <2> QED
    BY <1>1, <2>1
<1> QED
  BY <1>4, <1>5, <1>6, FS_CardinalityType

\* One node more of a list.
LEMMA OneMore ==
  ASSUME NEW T \in Lists, NEW k \in 1 .. Len(T)
  PROVE  Append(SubSeq(T, 1, k - 1), T[k]) = SubSeq(T, 1, k)
<1>1. T \in Seq(Nodes) /\ Len(T) \in Nat /\ 1 \in 1 .. Len(T) /\ k \in 1 .. Len(T)
  BY ListProperties
<1>2. SubSeq(T, 1, k) = SubSeq(T, 1, k - 1) \o <<T[k]>>
  BY <1>1, SubSeqRecursiveSecond
<1>3. SubSeq(T, 1, k - 1) \in Seq(Nodes) /\ T[k] \in Nodes
  <2>1. \A i \in 1 .. k - 1 : T[i] \in Nodes
    BY <1>1
  <2>2. k - 1 \in Int /\ 1 \in Int
    BY <1>1
  <2> QED
    BY <1>1, <2>1, <2>2, SubSeqProperties
<1>4. Append(SubSeq(T, 1, k - 1), T[k]) = SubSeq(T, 1, k - 1) \o <<T[k]>>
  BY <1>3, AppendIsConcat
<1> QED
  BY <1>2, <1>4

\* Following a link from p gives the thread from p.
LEMMA Following ==
  ASSUME NEW link, NEW p, NEW T, Thread(link, p, T)
  PROVE  Follow(link, p) = T
<1> DEFINE C == Cardinality(Nodes) + 1
           StepOf(x) == IF x.at = NULL THEN x
                        ELSE [at |-> link[x.at], seen |-> Append(x.seen, x.at)]
           Solves(f) == f = [k \in 0 .. C |-> IF k = 0 THEN [at |-> p, seen |-> <<>>]
                                              ELSE StepOf(f[k - 1])]
           g == CHOOSE f : Solves(f)
           Upto(k) == IF k < Len(T) THEN k ELSE Len(T)
           Nth(k) == [at |-> ItemAt(T, k + 1), seen |-> SubSeq(T, 1, Upto(k))]
           F == [k \in 0 .. C |-> Nth(k)]
<1>1. /\ T \in Lists /\ T \in Seq(Nodes) /\ Len(T) \in Nat /\ DOMAIN T = 1 .. Len(T)
      /\ Len(T) < C /\ C \in Nat
      /\ \A k \in 1 .. Len(T) : T[k] \in Nodes /\ T[k] # NULL
  BY ListProperties, ListLength DEF Thread
<1>2. Follow(link, p) = g[C].seen
  BY DEF Follow
<1>11. Len(T) \in Nat /\ C \in Nat /\ Len(T) < C
  BY <1>1
<1>12. /\ \A k \in Nat : k <= Len(T) => Upto(k) = k
      /\ \A k \in Nat : ~(k <= Len(T)) => Upto(k) = Len(T)
  BY <1>11
<1> HIDE DEF C, Upto
<1>3. Nth(0) = [at |-> p, seen |-> <<>>]
  <2>1. SubSeq(T, 1, 0) = <<>>
    BY SubSeqEmpty
  <2>2. Upto(0) = 0
    BY <1>11, <1>12
  <2> QED
    BY <2>1, <2>2 DEF Thread
<1>4. ASSUME NEW k \in 1 .. C PROVE Nth(k) = StepOf(Nth(k - 1))
  <2>1. Nth(k - 1) = [at |-> ItemAt(T, k), seen |-> SubSeq(T, 1, Upto(k - 1))]
    <3>1. (k - 1) + 1 = k
      BY <1>11
    <3> QED
      BY <3>1
  <2>2. CASE k \in 1 .. Len(T)
    <3>1. ItemAt(T, k) = T[k] /\ T[k] # NULL /\ link[T[k]] = ItemAt(T, k + 1)
      BY <1>1, <2>2 DEF ItemAt, Thread
    <3>2. Upto(k) = k /\ Upto(k - 1) = k - 1
      <4>1. k \in Nat /\ k - 1 \in Nat /\ k <= Len(T) /\ k - 1 <= Len(T)
        BY <1>11, <2>2
      <4> QED
        BY <1>12, <4>1
    <3>3. Append(SubSeq(T, 1, k - 1), T[k]) = SubSeq(T, 1, k)
      BY <1>1, <2>2, OneMore
    <3> QED
      BY <2>1, <3>1, <3>2, <3>3
  <2>3. CASE k \notin 1 .. Len(T)
    <3>1. ItemAt(T, k) = NULL /\ ItemAt(T, k + 1) = NULL
      <4>1. k + 1 \notin 1 .. Len(T)
        BY <1>1, <2>3
      <4> QED
        BY <1>1, <2>3, <4>1 DEF ItemAt
    <3>2. Upto(k) = Len(T) /\ Upto(k - 1) = Len(T)
      <4>1. k \in Nat /\ k - 1 \in Nat /\ ~(k <= Len(T)) /\ (k - 1 <= Len(T) => k - 1 = Len(T))
        BY <1>11, <2>3
      <4> QED
        BY <1>12, <4>1
    <3> QED
      BY <2>1, <3>1, <3>2
  <2> QED
    BY <2>2, <2>3
<1> HIDE DEF StepOf, Nth
<1>5. Solves(F)
  <2>1. ASSUME NEW k \in 0 .. C
        PROVE  Nth(k) = IF k = 0 THEN [at |-> p, seen |-> <<>>] ELSE StepOf(F[k - 1])
    <3>1. CASE k = 0
      BY <1>3, <3>1
    <3>2. CASE k # 0
      <4>1. k \in 1 .. C /\ F[k - 1] = Nth(k - 1)
        BY <1>1, <3>2
      <4> QED
        BY <1>4, <3>2, <4>1
    <3> QED
      BY <3>1, <3>2
  <2> QED
    BY <2>1
<1>6. Solves(g)
  <2> HIDE DEF Solves, F
  <2> QED
    BY <1>5, Zenon
<1> HIDE DEF g
<1>7. g[0] = Nth(0) /\ \A k \in 1 .. C : g[k] = StepOf(g[k - 1])
  BY <1>1, <1>3, <1>6
<1>8. 0 .. C \subseteq {k \in 0 .. C : g[k] = Nth(k)}
  <2> DEFINE S == {k \in 0 .. C : g[k] = Nth(k)}
  <2>1. 0 \in S
    BY <1>1, <1>7
  <2>2. ASSUME NEW k \in 0 .. C - 1, k \in S PROVE k + 1 \in S
    <3>1. k + 1 \in 1 .. C /\ k + 1 \in 0 .. C /\ (k + 1) - 1 = k
      BY <1>1
    <3> QED
      BY <1>4, <1>7, <2>2, <3>1
  <2> HIDE DEF S
  <2>3. 0 .. C \subseteq S
    BY <1>1, <2>1, <2>2, Induction
  <2> QED
    BY <2>3 DEF S
<1>9. g[C] = Nth(C)
  BY <1>1, <1>8
<1>10. Nth(C).seen = T
  <2>1. Upto(C) = Len(T)
    BY <1>11, <1>12
  <2>2. SubSeq(T, 1, Len(T)) = T
    BY <1>1, SubSeqFull
  <2> QED
    BY <2>1, <2>2 DEF Nth
<1> QED
  BY <1>2, <1>9, <1>10

\* The link that an iterator of a direction takes.
Link(d) == IF d = "HEAD" THEN next ELSE prev

\* And k of its steps along a thread.
LEMMA Stepping ==
  ASSUME NEW d, NEW p, NEW T, Thread(Link(d), p, T), NEW k \in Nat
  PROVE  After([next |-> p, direction |-> d], k) = [next |-> ItemAt(T, k + 1), direction |-> d]
<1> DEFINE it == [next |-> p, direction |-> d]
           Solves(f) == f = [j \in 0 .. k |-> IF j = 0 THEN it ELSE IterStep(f[j - 1])]
           g == CHOOSE f : Solves(f)
           Nth(j) == [next |-> ItemAt(T, j + 1), direction |-> d]
           F == [j \in 0 .. k |-> Nth(j)]
<1>1. /\ T \in Lists /\ Len(T) \in Nat /\ DOMAIN T = 1 .. Len(T)
      /\ \A j \in 1 .. Len(T) : T[j] # NULL
  BY ListProperties DEF Thread
<1>2. After(it, k) = g[k]
  BY DEF After
<1>3. Nth(0) = it
  BY DEF Thread
<1>4. ASSUME NEW j \in 1 .. k PROVE Nth(j) = IterStep(Nth(j - 1))
  <2>1. Nth(j - 1) = [next |-> ItemAt(T, j), direction |-> d]
    OBVIOUS
  <2>2. CASE j \in 1 .. Len(T)
    <3>1. ItemAt(T, j) = T[j] /\ T[j] # NULL /\ Link(d)[T[j]] = ItemAt(T, j + 1)
      BY <1>1, <2>2 DEF ItemAt, Thread
    <3>2. IterStep(Nth(j - 1)) = [next |-> Link(d)[T[j]], direction |-> d]
      BY <2>1, <3>1 DEF IterStep, Link
    <3> QED
      BY <3>1, <3>2
  <2>3. CASE j \notin 1 .. Len(T)
    <3>1. j + 1 \notin 1 .. Len(T)
      BY <1>1, <2>3
    <3>2. ItemAt(T, j) = NULL /\ ItemAt(T, j + 1) = NULL
      BY <1>1, <2>3, <3>1 DEF ItemAt
    <3> QED
      BY <2>1, <3>2 DEF IterStep
  <2> QED
    BY <2>2, <2>3
<1> HIDE DEF Nth, it
<1>5. Solves(F)
  <2>1. ASSUME NEW j \in 0 .. k PROVE Nth(j) = IF j = 0 THEN it ELSE IterStep(F[j - 1])
    <3>1. CASE j = 0
      BY <1>3, <3>1
    <3>2. CASE j # 0
      <4>1. j \in 1 .. k /\ F[j - 1] = Nth(j - 1)
        BY <3>2
      <4> QED
        BY <1>4, <3>2, <4>1
    <3> QED
      BY <3>1, <3>2
  <2> QED
    BY <2>1
<1>6. Solves(g)
  <2> HIDE DEF Solves, F
  <2> QED
    BY <1>5, Zenon
<1> HIDE DEF g
<1>7. g[0] = Nth(0) /\ \A j \in 1 .. k : g[j] = IterStep(g[j - 1])
  BY <1>3, <1>6
<1>8. 0 .. k \subseteq {j \in 0 .. k : g[j] = Nth(j)}
  <2> DEFINE S == {j \in 0 .. k : g[j] = Nth(j)}
  <2>1. 0 \in S
    BY <1>7
  <2>2. ASSUME NEW j \in 0 .. k - 1, j \in S PROVE j + 1 \in S
    <3>1. j + 1 \in 1 .. k /\ j + 1 \in 0 .. k /\ (j + 1) - 1 = j
      OBVIOUS
    <3> QED
      BY <1>4, <1>7, <2>2, <3>1
  <2> HIDE DEF S
  <2>3. 0 .. k \subseteq S
    BY <2>1, <2>2, Induction
  <2> QED
    BY <2>3 DEF S
<1>9. g[k] = Nth(k)
  BY <1>8
<1> QED
  BY <1>2, <1>9 DEF Nth, it

-----------------------------------------------------------------------------
(* The invariant.                                                          *)

Links == [Nodes -> Nodes \cup {NULL}]

\* The links back of the nodes of S, but for those of the set M, lead to the one before.
Backs(link, M, S) ==
    \A k \in DOMAIN S : S[k] \notin M => link[S[k]] = ItemAt(S, k - 1)

\* The list is the sequence S: forwards, and backwards but for what remove spoilt.
IsList(S) ==
    /\ Thread(next, lst.head, S)
    /\ Backs(prev, stale, S)
    /\ ~lost => lst.tail = ItemAt(S, Len(S))
    /\ Len(S) = lst.length
    /\ Range(S) \subseteq allocated

\* The iterator is at a node of S, or at its end.
IterIn(S) ==
    /\ iter.next = NULL \/ iter.next \in Range(S)
    /\ iter.next # NULL => iter.direction = "HEAD" \/ Whole

TypeInv ==
    /\ next \in Links /\ prev \in Links
    /\ lst \in [head : Nodes \cup {NULL}, tail : Nodes \cup {NULL}, length : Nat]
    /\ allocated \subseteq Nodes
    /\ iter \in [next : Nodes \cup {NULL}, direction : {"HEAD", "TAIL"}]
    /\ wild = FALSE
    /\ lost \in BOOLEAN

IInv == TypeInv /\ IsList(Chain) /\ IterIn(Chain)

\* The directions in which a careful client goes.
Directions == IF Whole THEN {"HEAD", "TAIL"} ELSE {"HEAD"}

\* It is enough to name the sequence.
LEMMA Named ==
  ASSUME NEW S, TypeInv, IsList(S), IterIn(S)
  PROVE  Chain = S /\ IInv
<1>1. Chain = S
  BY Following DEF Chain, IsList
<1> QED
  BY <1>1 DEF IInv

LEMMA ThreadKept ==
  ASSUME NEW link, NEW new, NEW p, NEW T, Thread(link, p, T), Same(link, new, Range(T))
  PROVE  Thread(new, p, T)
<1>1. T \in Lists /\ \A k \in DOMAIN T : T[k] \in Range(T)
  BY ListProperties DEF Thread
<1> QED
  BY <1>1 DEF Thread, Same

LEMMA ReverseNone ==
  Reverse(<<>>) = <<>>
<1>1. <<>> \in Seq(Nodes) /\ Len(<<>>) = 0
  OBVIOUS
<1>2. Reverse(<<>>) \in Seq(Nodes) /\ Len(Reverse(<<>>)) = 0
  BY <1>1, ReverseProperties
<1> QED
  BY <1>2, EmptySeq

LEMMA ThreadOfNone ==
  ASSUME NEW link
  PROVE  <<>> \in Lists /\ Thread(link, NULL, <<>>)
  BY DEF Lists, Thread, ItemAt, IsInjective

LEMMA RangeReverse ==
  ASSUME NEW S \in Lists
  PROVE  /\ Reverse(S) \in Lists /\ Range(Reverse(S)) = Range(S)
         /\ Len(Reverse(S)) = Len(S)
         /\ \A k \in 1 .. Len(S) : /\ Len(S) - k + 1 \in 1 .. Len(S)
                                   /\ Reverse(S)[Len(S) - k + 1] = S[k]
                                   /\ Reverse(S)[k] = S[Len(S) - k + 1]
<1>1. /\ S \in Seq(Nodes) /\ Len(S) \in Nat /\ DOMAIN S = 1 .. Len(S)
      /\ \A j, k \in 1 .. Len(S) : S[j] = S[k] => j = k
  BY ListProperties
<1>2. PICK R : R = Reverse(S)
  OBVIOUS
<1>3. /\ R \in Seq(Nodes) /\ Len(R) = Len(S) /\ DOMAIN R = 1 .. Len(S)
      /\ \A k \in 1 .. Len(S) : R[k] = S[Len(S) - k + 1]
  BY <1>1, <1>2, ReverseProperties
<1>4. ASSUME NEW k \in 1 .. Len(S)
      PROVE  /\ Len(S) - k + 1 \in 1 .. Len(S)
             /\ R[Len(S) - k + 1] = S[k]
             /\ R[k] = S[Len(S) - k + 1]
  <2>1. Len(S) - k + 1 \in 1 .. Len(S) /\ Len(S) - (Len(S) - k + 1) + 1 = k
    BY <1>1
  <2> QED
    BY <1>3, <2>1
<1>5. ASSUME NEW j \in 1 .. Len(R), NEW k \in 1 .. Len(R), R[j] = R[k] PROVE j = k
  <2>1. Len(S) - j + 1 = Len(S) - k + 1
    BY <1>1, <1>3, <1>4, <1>5
  <2> QED
    BY <1>1, <1>3, <2>1
<1>6. R \in Lists
  BY <1>3, <1>5, ListMade
<1>7. Range(R) = Range(S)
  BY <1>1, <1>3, <1>4 DEF Range
<1> QED
  BY <1>2, <1>3, <1>4, <1>6, <1>7

-----------------------------------------------------------------------------
(* Links back.                                                             *)

\* No wrong one: they are a thread, from the tail.
LEMMA BacksThread ==
  ASSUME NEW link, NEW p, NEW S \in Lists, Backs(link, {}, S), p = ItemAt(S, Len(S))
  PROVE  Thread(link, p, Reverse(S))
<1>1. S \in Seq(Nodes) /\ Len(S) \in Nat /\ DOMAIN S = 1 .. Len(S)
  BY ListProperties
<1>2. PICK R : R = Reverse(S)
  OBVIOUS
<1>3. /\ R \in Lists /\ Len(R) = Len(S)
      /\ \A k \in 1 .. Len(S) : Len(S) - k + 1 \in 1 .. Len(S) /\ R[k] = S[Len(S) - k + 1]
  BY <1>2, RangeReverse
<1>4. DOMAIN R = 1 .. Len(S)
  BY <1>3, ListProperties
<1>5. p = ItemAt(R, 1)
  <2>1. CASE Len(S) = 0
    BY <1>1, <1>4, <2>1 DEF ItemAt
  <2>2. CASE Len(S) # 0
    <3>1. 1 \in 1 .. Len(S) /\ Len(S) \in 1 .. Len(S) /\ Len(S) - 1 + 1 = Len(S)
      BY <1>1, <2>2
    <3> QED
      BY <1>1, <1>3, <1>4, <3>1 DEF ItemAt
  <2> QED
    BY <2>1, <2>2
<1>6. ASSUME NEW k \in 1 .. Len(S) PROVE link[R[k]] = ItemAt(R, k + 1)
  <2>1. link[S[Len(S) - k + 1]] = ItemAt(S, Len(S) - k) /\ R[k] = S[Len(S) - k + 1]
    <3>1. Len(S) - k + 1 \in 1 .. Len(S) /\ (Len(S) - k + 1) - 1 = Len(S) - k
      BY <1>1
    <3> QED
      BY <1>1, <1>3, <3>1 DEF Backs
  <2>2. ItemAt(S, Len(S) - k) = ItemAt(R, k + 1)
    <3>1. CASE k = Len(S)
      <4>1. Len(S) - k \notin 1 .. Len(S) /\ k + 1 \notin 1 .. Len(S)
        BY <1>1, <3>1
      <4> QED
        BY <1>1, <1>4, <4>1 DEF ItemAt
    <3>2. CASE k # Len(S)
      <4>0. Len(S) \in Nat
        BY <1>1
      <4>1. /\ Len(S) - k \in 1 .. Len(S) /\ k + 1 \in 1 .. Len(S)
            /\ Len(S) - (k + 1) + 1 = Len(S) - k
        BY <3>2, <4>0
      <4>2. R[k + 1] = S[Len(S) - (k + 1) + 1]
        BY <1>3, <4>1
      <4> QED
        BY <1>1, <1>4, <4>1, <4>2 DEF ItemAt
    <3> QED
      BY <3>1, <3>2
  <2> QED
    BY <2>1, <2>2
<1> QED
  BY <1>2, <1>3, <1>4, <1>5, <1>6 DEF Thread

LEMMA BacksKept ==
  ASSUME NEW link, NEW new, NEW M, NEW S \in Lists, Backs(link, M, S), Same(link, new, Range(S))
  PROVE  Backs(new, M, S)
  BY ListProperties DEF Backs, Same

\* A node after the last.
LEMMA BacksAppend ==
  ASSUME NEW link, NEW new, NEW M, NEW S \in Lists, Backs(link, M, S), NEW n \in Nodes,
         Same(link, new, Range(S)), new[n] = ItemAt(S, Len(S))
  PROVE  Backs(new, M, Append(S, n))
<1>1. /\ S \in Seq(Nodes) /\ Len(S) \in Nat /\ DOMAIN S = 1 .. Len(S)
      /\ \A k \in 1 .. Len(S) : S[k] \in Range(S)
  BY ListProperties
<1>2. PICK Q : Q = Append(S, n)
  OBVIOUS
<1>3. /\ Q \in Seq(Nodes) /\ Len(Q) = Len(S) + 1 /\ Q[Len(S) + 1] = n
      /\ \A k \in 1 .. Len(S) : Q[k] = S[k]
  BY <1>1, <1>2, AppendProperties
<1>4. DOMAIN Q = 1 .. Len(S) + 1
  BY <1>1, <1>3
<1>5. ASSUME NEW k \in 1 .. Len(S) + 1 PROVE ItemAt(Q, k - 1) = ItemAt(S, k - 1)
  <2>1. k - 1 \in 1 .. Len(S) + 1 <=> k - 1 \in 1 .. Len(S)
    BY <1>1
  <2> QED
    BY <1>1, <1>3, <1>4, <2>1 DEF ItemAt
<1>6. ASSUME NEW k \in 1 .. Len(S) + 1, Q[k] \notin M PROVE new[Q[k]] = ItemAt(Q, k - 1)
  <2>1. CASE k = Len(S) + 1
    <3>1. k - 1 = Len(S)
      BY <1>1, <2>1
    <3> QED
      BY <1>3, <1>5, <2>1, <3>1
  <2>2. CASE k # Len(S) + 1
    <3>1. k \in 1 .. Len(S)
      BY <1>1, <2>2
    <3>2. Q[k] = S[k] /\ new[S[k]] = link[S[k]]
      BY <1>1, <1>3, <3>1 DEF Same
    <3>3. link[S[k]] = ItemAt(S, k - 1)
      BY <1>1, <1>6, <3>1, <3>2 DEF Backs
    <3> QED
      BY <1>5, <3>2, <3>3
  <2> QED
    BY <2>1, <2>2
<1> QED
  BY <1>2, <1>4, <1>6 DEF Backs

\* A node before the first, whose own link back is set.
LEMMA BacksFront ==
  ASSUME NEW link, NEW new, NEW M, NEW S \in Lists, Backs(link, M, S), NEW n \in Nodes,
         new[n] = NULL, Len(S) # 0 => new[S[1]] = n,
         Same(link, new, Range(S) \ {ItemAt(S, 1)})
  PROVE  Backs(new, M \ {ItemAt(S, 1)}, <<n>> \o S)
<1>1. /\ S \in Seq(Nodes) /\ Len(S) \in Nat /\ DOMAIN S = 1 .. Len(S)
      /\ \A k \in 1 .. Len(S) : S[k] \in Range(S)
      /\ \A j, k \in 1 .. Len(S) : S[j] = S[k] => j = k
  BY ListProperties
<1>2. PICK Q : Q = <<n>> \o S
  OBVIOUS
<1>3. /\ Q \in Seq(Nodes) /\ Len(Q) = Len(S) + 1 /\ Q[1] = n
      /\ \A k \in 1 .. Len(S) : Q[k + 1] = S[k]
  BY <1>1, <1>2, FrontProperties
<1>4. DOMAIN Q = 1 .. Len(S) + 1
  BY <1>1, <1>3
<1>5. ItemAt(Q, 1 - 1) = NULL
  <2>1. 1 - 1 \notin 1 .. Len(S) + 1
    BY <1>1
  <2> QED
    BY <1>4, <2>1 DEF ItemAt
<1>6. ASSUME NEW k \in 1 .. Len(S), S[k] \notin M \ {ItemAt(S, 1)}
      PROVE  new[S[k]] = ItemAt(Q, k)
  <2>1. CASE k = 1
    <3>1. 1 \in 1 .. Len(S) + 1 /\ Len(S) # 0
      BY <1>1, <2>1
    <3> QED
      BY <1>3, <1>4, <2>1, <3>1 DEF ItemAt
  <2>2. CASE k # 1
    <3>1. /\ k - 1 \in 1 .. Len(S) /\ 1 \in 1 .. Len(S) /\ (k - 1) + 1 = k
          /\ k \in 1 .. Len(S) + 1
      BY <1>1, <2>2
    <3>2. S[k] # S[1] /\ ItemAt(S, 1) = S[1]
      BY <1>1, <2>2, <3>1 DEF ItemAt
    <3>3. new[S[k]] = link[S[k]] /\ link[S[k]] = ItemAt(S, k - 1)
      BY <1>1, <1>6, <3>2 DEF Same, Backs
    <3>4. ItemAt(S, k - 1) = S[k - 1] /\ Q[k] = S[k - 1] /\ ItemAt(Q, k) = Q[k]
      BY <1>1, <1>3, <1>4, <3>1 DEF ItemAt
    <3> QED
      BY <3>3, <3>4
  <2> QED
    BY <2>1, <2>2
<1>7. ASSUME NEW k \in 1 .. Len(S) + 1, Q[k] \notin M \ {ItemAt(S, 1)}
      PROVE  new[Q[k]] = ItemAt(Q, k - 1)
  <2>1. CASE k = 1
    BY <1>3, <1>5, <2>1
  <2>2. CASE k # 1
    <3>1. k - 1 \in 1 .. Len(S) /\ (k - 1) + 1 = k
      BY <1>1, <2>2
    <3>2. Q[k] = S[k - 1]
      BY <1>3, <3>1
    <3> QED
      BY <1>6, <1>7, <3>1, <3>2
  <2> QED
    BY <2>1, <2>2
<1> QED
  BY <1>2, <1>4, <1>7 DEF Backs

\* The node at r is taken out, and the one after gets the link to the one before.
LEMMA BacksRemoved ==
  ASSUME NEW new, NEW M, NEW S \in Lists, NEW r \in 1 .. Len(S),
         \A k \in 1 .. Len(S) : k # r /\ S[k] \notin M =>
            new[S[k]] = ItemAt(S, IF k = r + 1 THEN r - 1 ELSE k - 1)
  PROVE  Backs(new, M, RemoveAt(S, r))
<1>1. S \in Seq(Nodes) /\ Len(S) \in Nat /\ DOMAIN S = 1 .. Len(S)
  BY ListProperties
<1>2. PICK Q : Q = RemoveAt(S, r)
  OBVIOUS
<1>3. /\ Q \in Seq(Nodes) /\ Len(Q) = Len(S) - 1
      /\ \A k \in 1 .. Len(S) - 1 : Q[k] = IF k < r THEN S[k] ELSE S[k + 1]
  BY <1>1, <1>2, RemoveAtProperties
<1>4. DOMAIN Q = 1 .. Len(S) - 1
  BY <1>1, <1>3
<1>5. ASSUME NEW k \in 1 .. Len(S) - 1, Q[k] \notin M PROVE new[Q[k]] = ItemAt(Q, k - 1)
  <2>1. CASE k < r
    <3>1. k \in 1 .. Len(S) /\ k # r /\ k # r + 1 /\ Q[k] = S[k]
      BY <1>1, <1>3, <2>1
    <3>2. new[Q[k]] = ItemAt(S, k - 1)
      BY <1>5, <3>1
    <3>3. ItemAt(S, k - 1) = ItemAt(Q, k - 1)
      <4>1. CASE k = 1
        <5>1. k - 1 \notin 1 .. Len(S) /\ k - 1 \notin 1 .. Len(S) - 1
          BY <1>1, <4>1
        <5> QED
          BY <1>1, <1>4, <5>1 DEF ItemAt
      <4>2. CASE k # 1
        <5>1. k - 1 \in 1 .. Len(S) /\ k - 1 \in 1 .. Len(S) - 1 /\ k - 1 < r
          BY <1>1, <2>1, <4>2
        <5> QED
          BY <1>1, <1>3, <1>4, <5>1 DEF ItemAt
      <4> QED
        BY <4>1, <4>2
    <3> QED
      BY <3>2, <3>3
  <2>2. CASE k = r
    <3>1. k + 1 \in 1 .. Len(S) /\ k + 1 # r /\ k + 1 = r + 1 /\ Q[k] = S[k + 1]
      BY <1>1, <1>3, <2>2
    <3>2. new[Q[k]] = ItemAt(S, r - 1)
      BY <1>5, <3>1
    <3>3. ItemAt(S, r - 1) = ItemAt(Q, r - 1)
      <4>1. CASE r = 1
        <5>1. r - 1 \notin 1 .. Len(S) /\ r - 1 \notin 1 .. Len(S) - 1
          BY <1>1, <4>1
        <5> QED
          BY <1>1, <1>4, <5>1 DEF ItemAt
      <4>2. CASE r # 1
        <5>1. r - 1 \in 1 .. Len(S) /\ r - 1 \in 1 .. Len(S) - 1 /\ r - 1 < r
          BY <1>1, <4>2
        <5> QED
          BY <1>1, <1>3, <1>4, <5>1 DEF ItemAt
      <4> QED
        BY <4>1, <4>2
    <3> QED
      BY <2>2, <3>2, <3>3
  <2>3. CASE k > r
    <3>1. k + 1 \in 1 .. Len(S) /\ k + 1 # r /\ k + 1 # r + 1 /\ Q[k] = S[k + 1]
      BY <1>1, <1>3, <2>3
    <3>2. new[Q[k]] = ItemAt(S, (k + 1) - 1) /\ (k + 1) - 1 = k
      BY <1>5, <3>1
    <3>3. /\ k - 1 \in 1 .. Len(S) - 1 /\ ~(k - 1 < r) /\ (k - 1) + 1 = k
          /\ k \in 1 .. Len(S)
      BY <1>1, <2>3
    <3>4. ItemAt(S, k) = S[k] /\ ItemAt(Q, k - 1) = Q[k - 1] /\ Q[k - 1] = S[k]
      BY <1>1, <1>3, <1>4, <3>3 DEF ItemAt
    <3> QED
      BY <3>2, <3>4
  <2> QED
    BY <1>1, <2>1, <2>2, <2>3
<1> QED
  BY <1>2, <1>4, <1>5 DEF Backs

\* The last of what is left when another than the last is taken out.
LEMMA LastLeft ==
  ASSUME NEW S \in Lists, NEW r \in 1 .. Len(S)
  PROVE  ItemAt(RemoveAt(S, r), Len(S) - 1) = ItemAt(S, IF r = Len(S) THEN Len(S) - 1 ELSE Len(S))
<1>1. S \in Seq(Nodes) /\ Len(S) \in Nat /\ DOMAIN S = 1 .. Len(S)
  BY ListProperties
<1>2. PICK Q : Q = RemoveAt(S, r)
  OBVIOUS
<1>3. /\ Q \in Seq(Nodes) /\ Len(Q) = Len(S) - 1
      /\ \A k \in 1 .. Len(S) - 1 : Q[k] = IF k < r THEN S[k] ELSE S[k + 1]
  BY <1>1, <1>2, RemoveAtProperties
<1>4. DOMAIN Q = 1 .. Len(S) - 1
  BY <1>1, <1>3
<1>5. CASE Len(S) = 1
  <2>1. Len(S) - 1 \notin 1 .. Len(S) /\ Len(S) - 1 \notin 1 .. Len(S) - 1 /\ r = Len(S)
    BY <1>1, <1>5
  <2> QED
    BY <1>1, <1>2, <1>4, <2>1 DEF ItemAt
<1>6. CASE Len(S) # 1
  <2>0. Len(S) \in Nat
    BY <1>1
  <2>3. PICK l \in Nat : l = Len(S)
    BY <2>0
  <2>4. l \in Nat /\ l # 1 /\ r \in 1 .. l
    BY <1>6, <2>3
  <2>5. /\ l - 1 \in 1 .. l - 1 /\ l - 1 \in 1 .. l /\ l \in 1 .. l
        /\ (l - 1) + 1 = l /\ (l - 1 < r <=> r = l)
    BY <2>4
  <2>1. /\ Len(S) - 1 \in 1 .. Len(S) - 1 /\ Len(S) - 1 \in 1 .. Len(S) /\ Len(S) \in 1 .. Len(S)
        /\ (Len(S) - 1) + 1 = Len(S) /\ (Len(S) - 1 < r <=> r = Len(S))
    BY <2>3, <2>5
  <2>2. Q[Len(S) - 1] = S[IF r = Len(S) THEN Len(S) - 1 ELSE Len(S)]
    BY <1>3, <2>1
  <2> QED
    BY <1>1, <1>2, <1>4, <2>1, <2>2 DEF ItemAt
<1> QED
  BY <1>5, <1>6

-----------------------------------------------------------------------------
(* Pushing.                                                                *)

LEMMA RPushLinks ==
  ASSUME NEW n \in Nodes, IInv, ~lost, RPush(n), NEW S, S = Chain
  PROVE  IsList(Append(S, n))' /\ wild' = FALSE
<1>1. /\ next \in Links /\ prev \in Links /\ n \in allocated /\ n \notin Range(S)
      /\ Thread(next, lst.head, S) /\ Backs(prev, stale, S) /\ lst.tail = ItemAt(S, Len(S))
      /\ Len(S) = lst.length /\ Range(S) \subseteq allocated /\ wild = FALSE
  BY DEF IInv, TypeInv, IsList, RPush, Loose
<1>2. /\ S \in Lists /\ S \in Seq(Nodes) /\ Len(S) \in Nat /\ DOMAIN S = 1 .. Len(S)
      /\ \A k \in 1 .. Len(S) : S[k] \in Nodes /\ S[k] \in Range(S)
  BY <1>1, ListProperties DEF Thread
<1>3. (IF lst.length = 0 THEN {} ELSE {lst.tail}) \subseteq allocated
  <2>1. CASE Len(S) = 0
    BY <1>1, <2>1
  <2>2. CASE Len(S) # 0
    <3>1. Len(S) \in 1 .. Len(S)
      BY <1>2, <2>2
    <3> QED
      BY <1>1, <1>2, <3>1 DEF ItemAt
  <2> QED
    BY <2>1, <2>2
<1>4. /\ next' = [m \in Nodes |-> IF m = n THEN NULL
                                  ELSE IF Len(S) # 0 /\ m = lst.tail THEN n ELSE next[m]]
      /\ prev' = [prev EXCEPT ![n] = IF Len(S) = 0 THEN NULL ELSE lst.tail]
      /\ lst'.head = (IF Len(S) = 0 THEN n ELSE lst.head) /\ lst'.tail = n
      /\ lst'.length = Len(S) + 1
      /\ allocated' = allocated /\ stale' = stale /\ wild' = FALSE
  BY <1>1, <1>3 DEF RPush, Through, repair
<1>5. Thread(next', lst'.head, Append(S, n))
  <2>1. next'[n] = NULL /\ Same(next, next', Nodes \ {n, ItemAt(S, Len(S))})
    BY <1>1, <1>4 DEF Same
  <2>2. ASSUME Len(S) # 0 PROVE next'[S[Len(S)]] = n
    <3>1. Len(S) \in 1 .. Len(S)
      BY <1>2, <2>2
    <3>2. S[Len(S)] \in Nodes /\ S[Len(S)] # n /\ lst.tail = S[Len(S)]
      BY <1>1, <1>2, <3>1 DEF ItemAt
    <3> QED
      BY <1>4, <2>2, <3>2
  <2>3. Thread(next', IF Len(S) = 0 THEN n ELSE lst.head, Append(S, n))
    BY <1>1, <2>1, <2>2, ThreadAppend
  <2> QED
    BY <1>4, <2>3
<1>6. Backs(prev', stale', Append(S, n))
  <2>1. prev'[n] = ItemAt(S, Len(S))
    <3>1. Len(S) = 0 => ItemAt(S, Len(S)) = NULL
      BY <1>2 DEF ItemAt
    <3> QED
      BY <1>1, <1>4, <3>1 DEF Links
  <2>2. Same(prev, prev', Range(S))
    BY <1>1, <1>4 DEF Same, Links
  <2> QED
    BY <1>1, <1>2, <1>4, <2>1, <2>2, BacksAppend
<1>7. /\ Len(Append(S, n)) = lst'.length /\ Range(Append(S, n)) \subseteq allocated'
      /\ lst'.tail = ItemAt(Append(S, n), Len(Append(S, n)))
  <2>1. /\ Len(Append(S, n)) = Len(S) + 1 /\ DOMAIN Append(S, n) = 1 .. Len(S) + 1
        /\ Append(S, n)[Len(S) + 1] = n
        /\ \A k \in 1 .. Len(S) : Append(S, n)[k] = S[k]
    BY <1>2, AppendProperties
  <2>2. \A k \in 1 .. Len(S) + 1 : Append(S, n)[k] \in allocated
    BY <1>1, <1>2, <2>1
  <2>3. Len(S) + 1 \in 1 .. Len(S) + 1
    BY <1>2
  <2> QED
    BY <1>4, <2>1, <2>2, <2>3 DEF Range, ItemAt
<1> QED
  BY <1>4, <1>5, <1>6, <1>7 DEF IsList

LEMMA LPushLinks ==
  ASSUME NEW n \in Nodes, IInv, LPush(n), NEW S, S = Chain
  PROVE  IsList(<<n>> \o S)' /\ wild' = FALSE
<1>1. /\ next \in Links /\ prev \in Links /\ n \in allocated /\ n \notin Range(S)
      /\ Thread(next, lst.head, S) /\ Backs(prev, stale, S)
      /\ ~lost => lst.tail = ItemAt(S, Len(S))
      /\ Len(S) = lst.length /\ Range(S) \subseteq allocated /\ wild = FALSE
  BY DEF IInv, TypeInv, IsList, LPush, Loose
<1>2. /\ S \in Lists /\ S \in Seq(Nodes) /\ Len(S) \in Nat /\ DOMAIN S = 1 .. Len(S)
      /\ \A k \in 1 .. Len(S) : S[k] \in Nodes /\ S[k] \in Range(S)
      /\ lst.head = ItemAt(S, 1)
  BY <1>1, ListProperties DEF Thread
<1>3. Len(S) # 0 => lst.head = S[1] /\ lst.head \in Nodes /\ lst.head \in Range(S)
  <2>1. Len(S) # 0 => 1 \in 1 .. Len(S)
    BY <1>2
  <2> QED
    BY <1>2, <2>1 DEF ItemAt
<1>4. (IF lst.length = 0 THEN {} ELSE {lst.head}) \subseteq allocated
  BY <1>1, <1>3
<1>5. /\ prev' = [m \in Nodes |-> IF m = n THEN NULL
                                  ELSE IF Len(S) # 0 /\ m = lst.head THEN n ELSE prev[m]]
      /\ next' = [next EXCEPT ![n] = IF Len(S) = 0 THEN NULL ELSE lst.head]
      /\ lst'.tail = (IF Len(S) = 0 THEN n ELSE lst.tail) /\ lst'.head = n
      /\ lst'.length = Len(S) + 1
      /\ allocated' = allocated /\ stale' = stale \ {lst.head} /\ lost' = lost /\ wild' = FALSE
  BY <1>1, <1>4 DEF LPush, Through
<1>6. Thread(next', lst'.head, <<n>> \o S)
  <2>1. next'[n] = lst.head
    <3>1. Len(S) = 0 => lst.head = NULL
      BY <1>2 DEF ItemAt
    <3> QED
      BY <1>1, <1>5, <3>1 DEF Links
  <2>2. Same(next, next', Nodes \ {n})
    BY <1>1, <1>5 DEF Same, Links
  <2>3. Thread(next', n, <<n>> \o S)
    BY <1>1, <2>1, <2>2, ThreadFront
  <2> QED
    BY <1>5, <2>3
<1>7. Backs(prev', stale', <<n>> \o S)
  <2>1. prev'[n] = NULL /\ (Len(S) # 0 => prev'[S[1]] = n)
    BY <1>1, <1>3, <1>5
  <2>2. Same(prev, prev', Range(S) \ {ItemAt(S, 1)})
    BY <1>1, <1>2, <1>5, ListProperties DEF Same
  <2> QED
    BY <1>1, <1>2, <1>5, <2>1, <2>2, BacksFront
<1>8. /\ Len(<<n>> \o S) = lst'.length /\ Range(<<n>> \o S) \subseteq allocated'
      /\ ~lost' => lst'.tail = ItemAt(<<n>> \o S, Len(<<n>> \o S))
  <2>0. PICK Q : Q = <<n>> \o S
    OBVIOUS
  <2>1. /\ Q \in Seq(Nodes) /\ Len(Q) = Len(S) + 1 /\ Q[1] = n
        /\ \A k \in 1 .. Len(S) : Q[k + 1] = S[k]
    BY <1>2, <2>0, FrontProperties
  <2>2. ASSUME NEW k \in 1 .. Len(S) + 1 PROVE Q[k] \in allocated
    <3>1. CASE k = 1
      BY <1>1, <2>1, <3>1
    <3>2. CASE k # 1
      <4>1. k - 1 \in 1 .. Len(S) /\ (k - 1) + 1 = k
        BY <1>2, <3>2
      <4> QED
        BY <1>1, <1>2, <2>1, <4>1
    <3> QED
      BY <3>1, <3>2
  <2>3. DOMAIN Q = 1 .. Len(S) + 1
    BY <2>1
  <2>4. ASSUME ~lost PROVE lst'.tail = ItemAt(Q, Len(Q))
    <3>1. ItemAt(Q, Len(Q)) = Q[Len(S) + 1]
      <4>1. Len(S) + 1 \in 1 .. Len(S) + 1
        BY <1>2
      <4> QED
        BY <2>1, <2>3, <4>1 DEF ItemAt
    <3>2. CASE Len(S) = 0
      BY <1>5, <2>1, <3>1, <3>2
    <3>3. CASE Len(S) # 0
      <4>1. Len(S) \in 1 .. Len(S)
        BY <1>2, <3>3
      <4>2. Q[Len(S) + 1] = S[Len(S)] /\ ItemAt(S, Len(S)) = S[Len(S)]
        BY <1>2, <2>1, <4>1 DEF ItemAt
      <4> QED
        BY <1>1, <1>5, <2>4, <3>1, <3>3, <4>2
    <3> QED
      BY <3>2, <3>3
  <2> QED
    BY <1>5, <2>0, <2>1, <2>2, <2>3, <2>4 DEF Range
<1> QED
  BY <1>5, <1>6, <1>7, <1>8 DEF IsList

-----------------------------------------------------------------------------
(* Taking out.                                                             *)

\* What is left after n, at r, is taken out.
LEMMA LeftOver ==
  ASSUME NEW S \in Lists, NEW r \in 1 .. Len(S), NEW M, Range(S) \subseteq M
  PROVE  /\ RemoveAt(S, r) \in Lists /\ Len(RemoveAt(S, r)) = Len(S) - 1
         /\ Range(RemoveAt(S, r)) \subseteq M \ {S[r]}
         /\ Len(S) = 1 => RemoveAt(S, r) = <<>>
<1>1. S \in Seq(Nodes) /\ Len(S) \in Nat /\ \A k \in 1 .. Len(S) : S[k] \in M
  BY ListProperties
<1>2. PICK Q : Q = RemoveAt(S, r)
  OBVIOUS
<1>3. /\ Q \in Seq(Nodes) /\ Len(Q) = Len(S) - 1
      /\ \A k \in 1 .. Len(S) - 1 : Q[k] = IF k < r THEN S[k] ELSE S[k + 1]
  BY <1>1, <1>2, RemoveAtProperties
<1>4. Q \in Lists /\ S[r] \notin Range(Q)
  BY <1>2, ListRemoved
<1>5. ASSUME NEW k \in 1 .. Len(Q) PROVE Q[k] \in M
  <2>1. k \in 1 .. Len(S) - 1 /\ k \in 1 .. Len(S) /\ k + 1 \in 1 .. Len(S)
    BY <1>1, <1>3
  <2> QED
    BY <1>1, <1>3, <2>1
<1>6. Range(Q) \subseteq M
  <2>1. DOMAIN Q = 1 .. Len(Q)
    BY <1>3
  <2> QED
    BY <1>5, <2>1 DEF Range
<1>7. Len(S) = 1 => Q = <<>>
  <2>1. Len(S) = 1 => Len(Q) = 0
    BY <1>3
  <2> QED
    BY <1>3, <2>1, EmptySeq
<1> QED
  BY <1>2, <1>3, <1>4, <1>6, <1>7

LEMMA RPopLinks ==
  ASSUME IInv, ~lost, lst.tail \notin stale, RPop, NEW S, S = Chain
  PROVE  /\ Len(S) \in 1 .. Len(S) /\ S[Len(S)] = lst.tail
         /\ IsList(RemoveAt(S, Len(S)))' /\ wild' = FALSE
<1>1. /\ next \in Links /\ prev \in Links /\ lst.tail = ItemAt(S, Len(S))
      /\ Thread(next, lst.head, S) /\ Backs(prev, stale, S)
      /\ Len(S) = lst.length /\ Range(S) \subseteq allocated /\ wild = FALSE
      /\ lst \in [head : Nodes \cup {NULL}, tail : Nodes \cup {NULL}, length : Nat]
  BY DEF IInv, TypeInv, IsList
<1>2. /\ S \in Lists /\ S \in Seq(Nodes) /\ Len(S) \in Nat /\ DOMAIN S = 1 .. Len(S)
      /\ Len(S) # 0
      /\ \A k \in 1 .. Len(S) : S[k] \in Nodes /\ S[k] \in Range(S)
      /\ \A j, k \in 1 .. Len(S) : S[j] = S[k] => j = k
  BY <1>1, ListProperties DEF Thread, RPop
<1>3. PICK l : l = Len(S)
  OBVIOUS
<1>4. l \in 1 .. Len(S) /\ l = Len(S) /\ l \in Nat
  BY <1>2, <1>3
<1>5. lst.tail = S[l] /\ prev[S[l]] = ItemAt(S, l - 1)
  BY <1>1, <1>2, <1>4 DEF ItemAt, Backs
<1>6. (l # 1 => l - 1 \in 1 .. Len(S) /\ prev[S[l]] = S[l - 1]) /\ (l = 1 => prev[S[l]] = NULL)
  <2>1. /\ l # 1 => l - 1 \in 1 .. Len(S)
        /\ l = 1 => l - 1 \notin 1 .. Len(S)
    BY <1>4
  <2> QED
    BY <1>2, <1>5, <2>1 DEF ItemAt
<1>7. End(lst.tail, prev) \subseteq allocated
  BY <1>1, <1>2, <1>4, <1>5, <1>6 DEF End
<1>8. /\ allocated' = allocated /\ prev' = [prev EXCEPT ![S[l]] = NULL]
      /\ stale' = stale \ {S[l]} /\ wild' = FALSE
      /\ lst.length = 1 => lst' = Empty /\ next' = [next EXCEPT ![lst.tail] = NULL]
      /\ lst.length # 1 =>
            /\ lst' = [lst EXCEPT !.tail = prev[lst.tail], !.length = @ - 1]
            /\ next' = [next EXCEPT ![prev[lst.tail]] = NULL, ![lst.tail] = NULL]
  BY <1>1, <1>5, <1>7 DEF RPop, Through
<1>9. /\ Len(RemoveAt(S, l)) = l - 1 /\ Range(RemoveAt(S, l)) \subseteq allocated
      /\ l = 1 => RemoveAt(S, l) = <<>>
  BY <1>1, <1>2, <1>4, LeftOver
<1>10. Backs(prev', stale', RemoveAt(S, l))
  <2>1. ASSUME NEW k \in 1 .. Len(S), k # l, S[k] \notin stale'
        PROVE  prev'[S[k]] = ItemAt(S, IF k = l + 1 THEN l - 1 ELSE k - 1)
    <3>1. S[k] # S[l] /\ S[k] \in Nodes /\ k # l + 1
      <4>1. k # l + 1
        BY <1>4
      <4> QED
        BY <1>2, <1>4, <2>1, <4>1
    <3>2. S[k] \notin stale /\ prev'[S[k]] = prev[S[k]]
      BY <1>1, <1>8, <2>1, <3>1 DEF Links
    <3> QED
      BY <1>1, <1>2, <3>1, <3>2 DEF Backs
  <2> QED
    BY <1>2, <1>4, <2>1, BacksRemoved
<1>11. CASE l = 1
  <2>1. lst' = Empty /\ RemoveAt(S, l) = <<>>
    BY <1>1, <1>4, <1>8, <1>9, <1>11
  <2>2. Thread(next', NULL, RemoveAt(S, l)) /\ ItemAt(<<>>, Len(<<>>)) = NULL
    BY <2>1, ThreadOfNone DEF ItemAt
  <2> QED
    BY <1>4, <1>5, <1>8, <1>9, <1>10, <1>11, <2>1, <2>2 DEF IsList, Empty
<1>12. CASE l # 1
  <2>1. l - 1 \in 1 .. Len(S) /\ l \in 2 .. Len(S) /\ lst.length # 1
    BY <1>1, <1>4, <1>12
  <2>2. /\ lst'.head = lst.head /\ lst'.tail = S[l - 1] /\ lst'.length = l - 1
        /\ next' = [next EXCEPT ![S[l - 1]] = NULL, ![S[l]] = NULL]
    <3>1. prev[lst.tail] = S[l - 1] /\ lst.tail = S[l]
      BY <1>5, <1>6, <1>12
    <3>2. next' = [next EXCEPT ![S[l - 1]] = NULL, ![S[l]] = NULL]
      BY <1>8, <2>1, <3>1
    <3>3. lst'.head = lst.head /\ lst'.tail = S[l - 1] /\ lst'.length = lst.length - 1
      BY <1>1, <1>8, <2>1, <3>1
    <3> QED
      BY <1>1, <1>4, <3>2, <3>3
  <2>3. next'[S[l - 1]] = next[S[l]]
    <3>1. next[S[l]] = NULL
      <4>1. next[S[l]] = ItemAt(S, l + 1) /\ l + 1 \notin DOMAIN S
        BY <1>1, <1>2, <1>4 DEF Thread
      <4> QED
        BY <4>1 DEF ItemAt
    <3>2. S[l - 1] # S[l] /\ S[l - 1] \in Nodes
      BY <1>2, <1>4, <2>1
    <3> QED
      BY <1>1, <2>2, <3>1, <3>2 DEF Links
  <2>4. Same(next, next', Nodes \ {S[l - 1], S[l]})
    BY <1>1, <2>2 DEF Same, Links
  <2>5. Thread(next', lst.head, RemoveAt(S, l))
    BY <1>1, <2>1, <2>3, <2>4, ThreadRemoved
  <2>6. ItemAt(RemoveAt(S, l), l - 1) = S[l - 1]
    <3>1. ItemAt(RemoveAt(S, l), l - 1) = ItemAt(S, l - 1)
      BY <1>2, <1>4, LastLeft
    <3> QED
      BY <1>2, <2>1, <3>1 DEF ItemAt
  <2> QED
    BY <1>4, <1>5, <1>8, <1>9, <1>10, <2>2, <2>5, <2>6 DEF IsList
<1> QED
  BY <1>11, <1>12

LEMMA LPopLinks ==
  ASSUME IInv, LPop, NEW S, S = Chain
  PROVE  /\ 1 \in 1 .. Len(S) /\ S[1] = lst.head
         /\ IsList(RemoveAt(S, 1))' /\ wild' = FALSE
<1>1. /\ next \in Links /\ prev \in Links /\ lost \in BOOLEAN
      /\ Thread(next, lst.head, S) /\ Backs(prev, stale, S)
      /\ ~lost => lst.tail = ItemAt(S, Len(S))
      /\ Len(S) = lst.length /\ Range(S) \subseteq allocated /\ wild = FALSE
      /\ lst \in [head : Nodes \cup {NULL}, tail : Nodes \cup {NULL}, length : Nat]
  BY DEF IInv, TypeInv, IsList
<1>2. /\ S \in Lists /\ S \in Seq(Nodes) /\ Len(S) \in Nat /\ DOMAIN S = 1 .. Len(S)
      /\ Len(S) # 0
      /\ \A k \in 1 .. Len(S) : S[k] \in Nodes /\ S[k] \in Range(S)
      /\ \A j, k \in 1 .. Len(S) : S[j] = S[k] => j = k
  BY <1>1, ListProperties DEF Thread, LPop
<1>3. PICK l : l = Len(S)
  OBVIOUS
<1>4. l \in 1 .. Len(S) /\ 1 \in 1 .. Len(S) /\ l = Len(S) /\ l \in Nat
  BY <1>2, <1>3
<1>5. lst.head = S[1] /\ next[S[1]] = ItemAt(S, 2)
  <2>1. lst.head = ItemAt(S, 1) /\ next[S[1]] = ItemAt(S, 1 + 1)
    BY <1>1, <1>2, <1>4 DEF Thread
  <2> QED
    BY <1>2, <1>4, <2>1 DEF ItemAt
<1>6. (l # 1 => 2 \in 1 .. Len(S) /\ next[S[1]] = S[2]) /\ (l = 1 => next[S[1]] = NULL)
  <2>1. /\ l # 1 => 2 \in 1 .. Len(S)
        /\ l = 1 => 2 \notin 1 .. Len(S)
    BY <1>4
  <2> QED
    BY <1>2, <1>5, <2>1 DEF ItemAt
<1>7. End(lst.head, next) \subseteq allocated
  BY <1>1, <1>2, <1>4, <1>5, <1>6 DEF End
<1>8. /\ allocated' = allocated /\ next' = [next EXCEPT ![S[1]] = NULL]
      /\ stale' = stale \ {S[1], next[S[1]]} /\ (lost' <=> lost /\ lst.length # 1) /\ wild' = FALSE
      /\ lst.length = 1 => lst' = Empty /\ prev' = [prev EXCEPT ![lst.head] = NULL]
      /\ lst.length # 1 =>
            /\ lst' = [lst EXCEPT !.head = next[lst.head], !.length = @ - 1]
            /\ prev' = [prev EXCEPT ![next[lst.head]] = NULL, ![lst.head] = NULL]
  BY <1>1, <1>5, <1>7 DEF LPop, Through
<1>9. Thread(next', next[S[1]], RemoveAt(S, 1))
  <2>1. Same(next, next', Nodes \ {S[1]})
    BY <1>1, <1>8 DEF Same, Links
  <2> QED
    BY <1>1, <1>2, <1>5, <2>1, ThreadShortened
<1>10. /\ Len(RemoveAt(S, 1)) = l - 1 /\ Range(RemoveAt(S, 1)) \subseteq allocated
       /\ l = 1 => RemoveAt(S, 1) = <<>>
  BY <1>1, <1>2, <1>4, LeftOver
<1>11. CASE l = 1
  <2>1. lst' = Empty /\ RemoveAt(S, 1) = <<>>
    BY <1>1, <1>4, <1>8, <1>10, <1>11
  <2>2. /\ Thread(next', NULL, <<>>) /\ ItemAt(<<>>, Len(<<>>)) = NULL
        /\ Backs(prev', stale', <<>>)
    BY ThreadOfNone DEF ItemAt, Backs
  <2> QED
    BY <1>4, <1>5, <1>8, <1>10, <1>11, <2>1, <2>2 DEF IsList, Empty
<1>12. CASE l # 1
  <2>1. 2 \in 1 .. Len(S) /\ next[S[1]] = S[2] /\ S[2] # S[1] /\ S[2] \in Nodes /\ lst.length # 1
    BY <1>1, <1>2, <1>4, <1>6, <1>12
  <2>2. /\ lst'.head = S[2] /\ lst'.tail = lst.tail /\ lst'.length = l - 1
        /\ prev' = [prev EXCEPT ![S[2]] = NULL, ![S[1]] = NULL]
    <3>1. prev' = [prev EXCEPT ![S[2]] = NULL, ![S[1]] = NULL]
      BY <1>5, <1>8, <2>1
    <3>2. lst'.head = S[2] /\ lst'.tail = lst.tail /\ lst'.length = lst.length - 1
      BY <1>1, <1>5, <1>8, <2>1
    <3> QED
      BY <1>1, <1>4, <3>1, <3>2
  <2>3. Backs(prev', stale', RemoveAt(S, 1))
    <3>1. ASSUME NEW k \in 1 .. Len(S), k # 1, S[k] \notin stale'
          PROVE  prev'[S[k]] = ItemAt(S, IF k = 1 + 1 THEN 1 - 1 ELSE k - 1)
      <4>1. CASE k = 2
        <5>1. prev'[S[k]] = NULL /\ 1 - 1 \notin 1 .. Len(S)
          BY <1>1, <1>2, <2>1, <2>2, <4>1 DEF Links
        <5> QED
          BY <1>2, <4>1, <5>1 DEF ItemAt
      <4>2. CASE k # 2
        <5>1. S[k] # S[1] /\ S[k] # S[2] /\ S[k] \in Nodes
          BY <1>2, <1>4, <2>1, <3>1, <4>2
        <5>2. S[k] \notin stale /\ prev'[S[k]] = prev[S[k]]
          BY <1>1, <1>8, <2>1, <2>2, <3>1, <5>1 DEF Links
        <5> QED
          BY <1>1, <1>2, <4>2, <5>2 DEF Backs
      <4> QED
        BY <4>1, <4>2
    <3> QED
      BY <1>2, <1>4, <3>1, BacksRemoved
  <2>4. ~lost' => lst'.tail = ItemAt(RemoveAt(S, 1), l - 1)
    <3>1. 1 # Len(S)
      BY <1>4, <1>12
    <3>2. ItemAt(RemoveAt(S, 1), l - 1) = ItemAt(S, Len(S))
      BY <1>2, <1>4, <3>1, LastLeft
    <3> QED
      BY <1>1, <1>8, <2>1, <2>2, <3>2
  <2> QED
    BY <1>4, <1>5, <1>8, <1>9, <1>10, <2>1, <2>2, <2>3, <2>4 DEF IsList
<1> QED
  BY <1>11, <1>12

LEMMA RemoveNodeLinks ==
  ASSUME NEW n \in Nodes, IInv, n \notin stale, RemoveNode(n), NEW S, S = Chain,
         NEW r \in 1 .. Len(S), S[r] = n
  PROVE  IsList(RemoveAt(S, r))' /\ wild' = FALSE
<1>1. /\ next \in Links /\ prev \in Links /\ lost \in BOOLEAN
      /\ Thread(next, lst.head, S) /\ Backs(prev, stale, S)
      /\ ~lost => lst.tail = ItemAt(S, Len(S))
      /\ Len(S) = lst.length /\ Range(S) \subseteq allocated /\ wild = FALSE
      /\ lst \in [head : Nodes \cup {NULL}, tail : Nodes \cup {NULL}, length : Nat]
  BY DEF IInv, TypeInv, IsList
<1>2. /\ S \in Lists /\ S \in Seq(Nodes) /\ Len(S) \in Nat /\ DOMAIN S = 1 .. Len(S)
      /\ \A k \in 1 .. Len(S) : S[k] \in Nodes /\ S[k] # NULL /\ S[k] \in Range(S)
      /\ \A j, k \in 1 .. Len(S) : S[j] = S[k] => j = k
  BY <1>1, ListProperties DEF Thread
<1>3. prev[n] = ItemAt(S, r - 1) /\ next[n] = ItemAt(S, r + 1)
  BY <1>1, <1>2 DEF Thread, Backs
<1>4. /\ r # 1 => r - 1 \in 1 .. Len(S) /\ prev[n] = S[r - 1]
      /\ r = 1 => prev[n] = NULL
  <2>1. /\ r # 1 => r - 1 \in 1 .. Len(S)
        /\ r = 1 => r - 1 \notin 1 .. Len(S)
    BY <1>2
  <2> QED
    BY <1>2, <1>3, <2>1 DEF ItemAt
<1>5. /\ r # Len(S) => r + 1 \in 1 .. Len(S) /\ next[n] = S[r + 1]
      /\ r = Len(S) => next[n] = NULL
  <2>1. /\ r # Len(S) => r + 1 \in 1 .. Len(S)
        /\ r = Len(S) => r + 1 \notin 1 .. Len(S)
    <3>1. Len(S) \in Nat
      BY <1>2
    <3> QED
      BY <3>1
  <2> QED
    BY <1>2, <1>3, <2>1 DEF ItemAt
<1>6. {n, prev[n]} \ {NULL} \subseteq allocated
  BY <1>1, <1>2, <1>4
<1>7. /\ allocated' = allocated \ {n} /\ wild' = FALSE
      /\ stale' = (stale \cup ({prev[n], next[n]} \ {NULL})) \ {n}
      /\ lost' <=> (lst.length # 1 /\ (lost \/ NULL \in {prev[n], next[n]}))
      /\ prev[n] # NULL =>
            /\ next' = [next EXCEPT ![prev[n]] = next[n], ![n] = NULL]
            /\ prev' = [prev EXCEPT ![prev[n]] = prev[n], ![n] = NULL]
            /\ lst' = [lst EXCEPT !.length = @ - 1]
      /\ prev[n] = NULL =>
            /\ next' = [next EXCEPT ![n] = NULL] /\ prev' = prev
            /\ lst' = [head |-> next[n], tail |-> NULL, length |-> lst.length - 1]
  BY <1>1, <1>6 DEF RemoveNode, Through
<1>8. /\ Len(RemoveAt(S, r)) = Len(S) - 1 /\ Range(RemoveAt(S, r)) \subseteq allocated \ {n}
  BY <1>1, <1>2, LeftOver
<1>9. Backs(prev', stale', RemoveAt(S, r))
  <2>1. ASSUME NEW k \in 1 .. Len(S), k # r, S[k] \notin stale'
        PROVE  prev'[S[k]] = ItemAt(S, IF k = r + 1 THEN r - 1 ELSE k - 1)
    <3>1. S[k] # n /\ S[k] \in Nodes /\ S[k] # NULL
      BY <1>2, <2>1
    <3>2. S[k] \notin stale /\ S[k] # prev[n] /\ S[k] # next[n]
      BY <1>7, <2>1, <3>1
    <3>3. k # r + 1
      <4>1. k = r + 1 => r # Len(S)
        <5>1. Len(S) \in Nat
          BY <1>2
        <5> QED
          BY <5>1
      <4>2. ASSUME k = r + 1 PROVE next[n] = S[k]
        BY <1>5, <4>1, <4>2
      <4> QED
        BY <3>2, <4>2
    <3>4. prev'[S[k]] = prev[S[k]]
      BY <1>1, <1>7, <3>1, <3>2 DEF Links
    <3> QED
      BY <1>1, <1>2, <3>2, <3>3, <3>4 DEF Backs
  <2> QED
    BY <1>2, <2>1, BacksRemoved
<1>10. CASE r = 1
  <2>1. /\ next' = [next EXCEPT ![n] = NULL]
        /\ lst' = [head |-> next[n], tail |-> NULL, length |-> lst.length - 1]
    BY <1>4, <1>7, <1>10
  <2>2. lst.head = n /\ Thread(next', next[n], RemoveAt(S, r))
    <3>1. Same(next, next', Nodes \ {S[1]})
      BY <1>1, <1>10, <2>1 DEF Same, Links
    <3>2. Len(S) # 0
      BY <1>2
    <3> QED
      BY <1>1, <1>10, <3>1, <3>2, ThreadShortened
  <2>3. ~lost' => NULL = ItemAt(RemoveAt(S, r), Len(S) - 1)
    <3>1. ~lost' => Len(S) = 1
      BY <1>1, <1>4, <1>7, <1>10
    <3>2. ASSUME Len(S) = 1 PROVE NULL = ItemAt(RemoveAt(S, r), Len(S) - 1)
      <4>1. ItemAt(RemoveAt(S, r), Len(S) - 1) = ItemAt(S, Len(S) - 1) /\ Len(S) - 1 \notin 1 .. Len(S)
        <5>1. r = Len(S) /\ Len(S) - 1 \notin 1 .. Len(S)
          BY <1>10, <3>2
        <5> QED
          BY <1>2, <5>1, LastLeft
      <4> QED
        BY <1>2, <4>1 DEF ItemAt
    <3> QED
      BY <3>1, <3>2
  <2> QED
    BY <1>1, <1>7, <1>8, <1>9, <2>1, <2>2, <2>3 DEF IsList
<1>11. CASE r # 1
  <2>1. r - 1 \in 1 .. Len(S) /\ r \in 2 .. Len(S) /\ Len(S) # 1 /\ r - 1 # r
    BY <1>2, <1>4, <1>11
  <2>2. prev[n] = S[r - 1] /\ S[r - 1] # n /\ S[r - 1] \in Nodes /\ S[r - 1] # NULL
    BY <1>2, <1>4, <1>11, <2>1
  <2>3. /\ next' = [next EXCEPT ![S[r - 1]] = next[n], ![n] = NULL]
        /\ lst' = [lst EXCEPT !.length = @ - 1]
    BY <1>7, <2>2
  <2>4. next'[S[r - 1]] = next[S[r]] /\ Same(next, next', Nodes \ {S[r - 1], S[r]})
    BY <1>1, <2>2, <2>3 DEF Same, Links
  <2>5. Thread(next', lst.head, RemoveAt(S, r))
    BY <1>1, <2>1, <2>4, ThreadRemoved
  <2>6. lst'.head = lst.head /\ lst'.length = Len(S) - 1 /\ lst'.tail = lst.tail
    BY <1>1, <2>3
  <2>7. ~lost' => lst.tail = ItemAt(RemoveAt(S, r), Len(S) - 1)
    <3>1. ~lost' => ~lost /\ r # Len(S)
      BY <1>1, <1>5, <1>7, <2>1
    <3>2. r # Len(S) => ItemAt(RemoveAt(S, r), Len(S) - 1) = ItemAt(S, Len(S))
      BY <1>2, LastLeft
    <3> QED
      BY <1>1, <3>1, <3>2
  <2> QED
    BY <1>7, <1>8, <1>9, <2>5, <2>6, <2>7 DEF IsList
<1> QED
  BY <1>10, <1>11

LEMMA RangeGrown ==
  ASSUME NEW S \in Lists, NEW n \in Nodes
  PROVE  Range(S) \subseteq Range(Append(S, n)) /\ Range(S) \subseteq Range(<<n>> \o S)
<1>1. S \in Seq(Nodes) /\ Len(S) \in Nat /\ \A m \in Range(S) : \E k \in 1 .. Len(S) : m = S[k]
  BY ListProperties
<1>2. ASSUME NEW k \in 1 .. Len(S) PROVE S[k] \in Range(Append(S, n))
  <2>1. PICK Q : Q = Append(S, n)
    OBVIOUS
  <2>2. Q \in Seq(Nodes) /\ Len(Q) = Len(S) + 1 /\ Q[k] = S[k]
    BY <1>1, <2>1, AppendProperties
  <2>3. k \in DOMAIN Q
    BY <1>1, <2>2
  <2> QED
    BY <2>1, <2>2, <2>3 DEF Range
<1>3. ASSUME NEW k \in 1 .. Len(S) PROVE S[k] \in Range(<<n>> \o S)
  <2>1. PICK Q : Q = <<n>> \o S
    OBVIOUS
  <2>2. Q \in Seq(Nodes) /\ Len(Q) = Len(S) + 1 /\ Q[k + 1] = S[k]
    BY <1>1, <2>1, FrontProperties
  <2>3. k + 1 \in DOMAIN Q
    BY <1>1, <2>2
  <2> QED
    BY <2>1, <2>2, <2>3 DEF Range
<1> QED
  BY <1>1, <1>2, <1>3

LEMMA RangeShrunk ==
  ASSUME NEW S \in Lists, NEW r \in 1 .. Len(S)
  PROVE  Range(RemoveAt(S, r)) = Range(S) \ {S[r]}
<1>1. /\ S \in Seq(Nodes) /\ Len(S) \in Nat
      /\ \A m \in Range(S) : \E k \in 1 .. Len(S) : m = S[k]
  BY ListProperties
<1>2. PICK Q : Q = RemoveAt(S, r)
  OBVIOUS
<1>3. /\ Q \in Seq(Nodes) /\ Len(Q) = Len(S) - 1
      /\ \A k \in 1 .. Len(S) - 1 : Q[k] = IF k < r THEN S[k] ELSE S[k + 1]
  BY <1>1, <1>2, RemoveAtProperties
<1>4. DOMAIN Q = 1 .. Len(S) - 1
  BY <1>1, <1>3
<1>5. ASSUME NEW k \in 1 .. Len(S), k # r PROVE S[k] \in Range(Q)
  <2>1. CASE k < r
    <3>1. k \in 1 .. Len(S) - 1
      BY <1>1, <2>1
    <3> QED
      BY <1>3, <1>4, <2>1, <3>1 DEF Range
  <2>2. CASE ~(k < r)
    <3>1. k - 1 \in 1 .. Len(S) - 1 /\ ~(k - 1 < r) /\ (k - 1) + 1 = k
      BY <1>1, <1>5, <2>2
    <3>2. Q[k - 1] = S[k]
      BY <1>3, <3>1
    <3> QED
      BY <1>4, <3>1, <3>2 DEF Range
  <2> QED
    BY <2>1, <2>2
<1>6. Range(Q) \subseteq Range(S) \ {S[r]}
  BY <1>2, LeftOver
<1>7. \A m \in Range(S) \ {S[r]} : m \in Range(Q)
  BY <1>1, <1>5
<1> QED
  BY <1>2, <1>6, <1>7

-----------------------------------------------------------------------------
(* Every step keeps the invariant, and does to the list what its name says.*)

LEMMA NamedNext ==
  ASSUME NEW S, TypeInv', IsList(S)', IterIn(S)'
  PROVE  Chain' = S /\ IInv'
<1>1. Chain' = S
  BY Following DEF Chain, IsList
<1> QED
  BY <1>1 DEF IInv, IsList, IterIn

\* What the invariant says of the nodes.
LEMMA Facts ==
  ASSUME IInv, NEW S, S = Chain
  PROVE  /\ S \in Lists /\ S \in Seq(Nodes) /\ Len(S) \in Nat /\ DOMAIN S = 1 .. Len(S)
         /\ \A k \in 1 .. Len(S) : S[k] \in Nodes /\ S[k] \in Range(S)
         /\ \A n \in Range(S) : \E k \in 1 .. Len(S) : n = S[k]
         /\ Len(S) = lst.length /\ Range(S) \subseteq allocated /\ Range(S) \subseteq Nodes
<1>1. S \in Lists /\ Len(S) = lst.length /\ Range(S) \subseteq allocated
  BY DEF IInv, IsList, Thread
<1> QED
  BY <1>1, ListProperties

\* The steps that leave the links of the list's nodes alone.
LEMMA LinksKept ==
  ASSUME IInv, NEW S, S = Chain, Same(next, next', Range(S)), Same(prev, prev', Range(S)),
         lst' = lst, stale' = stale, lost' = lost, Range(S) \subseteq allocated'
  PROVE  IsList(S)'
<1>1. /\ Thread(next, lst.head, S) /\ Backs(prev, stale, S) /\ S \in Lists
      /\ ~lost => lst.tail = ItemAt(S, Len(S))
      /\ Len(S) = lst.length
  BY DEF IInv, IsList, Thread
<1>2. Thread(next', lst'.head, S)
  BY <1>1, ThreadKept
<1>3. Backs(prev', stale', S)
  BY <1>1, BacksKept
<1> QED
  BY <1>1, <1>2, <1>3 DEF IsList

LEMMA NewNodeStep ==
  ASSUME IInv, NEW n \in Nodes, NEW d \in Data, NewNode(n, d)
  PROVE  Chain' = Chain /\ IInv'
<1>1. PICK S : S = Chain
  OBVIOUS
<1>2. Range(S) \subseteq allocated /\ Range(S) \subseteq Nodes /\ TypeInv /\ IterIn(S)
  BY <1>1, Facts DEF IInv
<1>3. Same(next, next', Range(S)) /\ Same(prev, prev', Range(S))
  BY <1>2 DEF NewNode, TypeInv, Links, Same
<1>4. IsList(S)'
  BY <1>1, <1>2, <1>3, LinksKept DEF NewNode, repair
<1>5. TypeInv' /\ IterIn(S)'
  BY <1>2 DEF TypeInv, IterIn, Links, NewNode, repair, Whole
<1> QED
  BY <1>1, <1>4, <1>5, NamedNext

LEMMA FreeNodeStep ==
  ASSUME IInv, NEW n \in Nodes, FreeNode(n)
  PROVE  Chain' = Chain /\ IInv'
<1>1. PICK S : S = Chain
  OBVIOUS
<1>2. Range(S) \subseteq allocated /\ Range(S) \subseteq Nodes /\ TypeInv /\ IterIn(S)
  BY <1>1, Facts DEF IInv
<1>3. /\ Range(S) \subseteq allocated' /\ next' = next /\ prev' = prev /\ lst' = lst
      /\ stale' = stale /\ lost' = lost
  BY <1>1, <1>2 DEF FreeNode, Loose, repair
<1>4. IsList(S)'
  BY <1>1, <1>3, LinksKept DEF Same
<1>5. TypeInv' /\ IterIn(S)'
  BY <1>2 DEF TypeInv, IterIn, FreeNode, repair, Whole
<1> QED
  BY <1>1, <1>4, <1>5, NamedNext

LEMMA RPushStep ==
  ASSUME IInv, NEW n \in Nodes, ~lost, RPush(n)
  PROVE  Chain' = Append(Chain, n) /\ IInv' /\ iter' = iter /\ returned' = returned
<1>1. PICK S : S = Chain
  OBVIOUS
<1>2. IsList(Append(S, n))' /\ wild' = FALSE
  BY <1>1, RPushLinks
<1>3. S \in Lists /\ TypeInv /\ IterIn(S)
  BY <1>1, Facts DEF IInv
<1>4. /\ lst' = [head |-> IF lst.length = 0 THEN n ELSE lst.head,
                 tail |-> n, length |-> lst.length + 1]
      /\ prev' = [prev EXCEPT ![n] = IF lst.length = 0 THEN NULL ELSE lst.tail]
      /\ next' = [m \in Nodes |-> IF m = n THEN NULL
                                  ELSE IF lst.length # 0 /\ m = lst.tail THEN n ELSE next[m]]
      /\ allocated' = allocated /\ iter' = iter /\ returned' = returned
      /\ stale' = stale /\ lost' = lost
  BY <1>2 DEF RPush, Through, repair
<1>5. TypeInv'
  <2>1. next' \in Links /\ prev' \in Links
    BY <1>3, <1>4 DEF TypeInv, Links
  <2>2. lst' \in [head : Nodes \cup {NULL}, tail : Nodes \cup {NULL}, length : Nat]
    BY <1>3, <1>4 DEF TypeInv
  <2> QED
    BY <1>2, <1>3, <1>4, <2>1, <2>2 DEF TypeInv
<1>6. IterIn(Append(S, n))'
  BY <1>3, <1>4, RangeGrown DEF IterIn, Whole
<1> QED
  BY <1>1, <1>2, <1>4, <1>5, <1>6, NamedNext

LEMMA LPushStep ==
  ASSUME IInv, NEW n \in Nodes, LPush(n)
  PROVE  Chain' = <<n>> \o Chain /\ IInv' /\ iter' = iter /\ returned' = returned
<1>1. PICK S : S = Chain
  OBVIOUS
<1>2. IsList(<<n>> \o S)' /\ wild' = FALSE
  BY <1>1, LPushLinks
<1>3. S \in Lists /\ TypeInv /\ IterIn(S)
  BY <1>1, Facts DEF IInv
<1>4. /\ lst' = [tail |-> IF lst.length = 0 THEN n ELSE lst.tail,
                 head |-> n, length |-> lst.length + 1]
      /\ next' = [next EXCEPT ![n] = IF lst.length = 0 THEN NULL ELSE lst.head]
      /\ prev' = [m \in Nodes |-> IF m = n THEN NULL
                                  ELSE IF lst.length # 0 /\ m = lst.head THEN n ELSE prev[m]]
      /\ allocated' = allocated /\ iter' = iter /\ returned' = returned
      /\ stale' = stale \ {lst.head} /\ lost' = lost
  BY <1>2 DEF LPush, Through
<1>5. TypeInv'
  <2>1. next' \in Links /\ prev' \in Links
    BY <1>3, <1>4 DEF TypeInv, Links
  <2>2. lst' \in [head : Nodes \cup {NULL}, tail : Nodes \cup {NULL}, length : Nat]
    BY <1>3, <1>4 DEF TypeInv
  <2> QED
    BY <1>2, <1>3, <1>4, <2>1, <2>2 DEF TypeInv
<1>6. IterIn(<<n>> \o S)'
  BY <1>3, <1>4, RangeGrown DEF IterIn, Whole
<1> QED
  BY <1>1, <1>2, <1>4, <1>5, <1>6, NamedNext

LEMMA RPopStep ==
  ASSUME IInv, ~lost, lst.tail \notin stale \cup {iter.next}, RPop
  PROVE  /\ \E r \in 1 .. Len(Chain) : Chain[r] # iter.next /\ Chain' = RemoveAt(Chain, r)
         /\ IInv' /\ iter' = iter /\ returned' = returned
<1>1. PICK S : S = Chain
  OBVIOUS
<1>2. Len(S) \in 1 .. Len(S) /\ S[Len(S)] = lst.tail /\ IsList(RemoveAt(S, Len(S)))' /\ wild' = FALSE
  BY <1>1, RPopLinks
<1>3. S \in Lists /\ TypeInv /\ IterIn(S) /\ Len(S) = lst.length /\ lst.tail \in Nodes
  BY <1>1, <1>2, Facts DEF IInv
<1>4. /\ \/ lst' = Empty /\ next' = [next EXCEPT ![lst.tail] = NULL]
         \/ /\ lst' = [lst EXCEPT !.tail = prev[lst.tail], !.length = @ - 1]
            /\ next' = [next EXCEPT ![prev[lst.tail]] = NULL, ![lst.tail] = NULL]
      /\ prev' = [prev EXCEPT ![lst.tail] = NULL]
      /\ allocated' = allocated /\ iter' = iter /\ returned' = returned
      /\ stale' = stale \ {lst.tail} /\ (lost' <=> lost /\ lst.length # 1) /\ lost' \in BOOLEAN
  BY <1>2 DEF RPop, Through
<1>5. TypeInv'
  <2>1. next' \in Links /\ prev' \in Links
    BY <1>3, <1>4 DEF TypeInv, Links
  <2>2. lst' \in [head : Nodes \cup {NULL}, tail : Nodes \cup {NULL}, length : Nat]
    <3>1. prev[lst.tail] \in Nodes \cup {NULL} /\ lst.length - 1 \in Nat
      BY <1>2, <1>3 DEF TypeInv, Links
    <3>2. Empty \in [head : Nodes \cup {NULL}, tail : Nodes \cup {NULL}, length : Nat]
      BY DEF Empty
    <3> QED
      BY <1>3, <1>4, <3>1, <3>2 DEF TypeInv
  <2> QED
    BY <1>2, <1>3, <1>4, <2>1, <2>2 DEF TypeInv
<1>6. S[Len(S)] # iter.next
  BY <1>2
<1>7. IterIn(RemoveAt(S, Len(S)))'
  BY <1>2, <1>3, <1>4, <1>6, RangeShrunk DEF IterIn, Whole
<1> QED
  BY <1>1, <1>2, <1>4, <1>5, <1>6, <1>7, NamedNext

LEMMA LPopStep ==
  ASSUME IInv, lst.head # iter.next, LPop
  PROVE  /\ \E r \in 1 .. Len(Chain) : Chain[r] # iter.next /\ Chain' = RemoveAt(Chain, r)
         /\ IInv' /\ iter' = iter /\ returned' = returned
<1>1. PICK S : S = Chain
  OBVIOUS
<1>2. 1 \in 1 .. Len(S) /\ S[1] = lst.head /\ IsList(RemoveAt(S, 1))' /\ wild' = FALSE
  BY <1>1, LPopLinks
<1>3. S \in Lists /\ TypeInv /\ IterIn(S) /\ Len(S) = lst.length /\ lst.head \in Nodes
  BY <1>1, <1>2, Facts DEF IInv
<1>4. /\ \/ lst' = Empty /\ prev' = [prev EXCEPT ![lst.head] = NULL]
         \/ /\ lst' = [lst EXCEPT !.head = next[lst.head], !.length = @ - 1]
            /\ prev' = [prev EXCEPT ![next[lst.head]] = NULL, ![lst.head] = NULL]
      /\ next' = [next EXCEPT ![lst.head] = NULL]
      /\ allocated' = allocated /\ iter' = iter /\ returned' = returned
      /\ stale' \subseteq stale /\ (lost' <=> lost /\ lst.length # 1) /\ lost' \in BOOLEAN
  BY <1>2 DEF LPop, Through
<1>5. TypeInv'
  <2>1. next' \in Links /\ prev' \in Links
    BY <1>3, <1>4 DEF TypeInv, Links
  <2>2. lst' \in [head : Nodes \cup {NULL}, tail : Nodes \cup {NULL}, length : Nat]
    <3>1. next[lst.head] \in Nodes \cup {NULL} /\ lst.length - 1 \in Nat
      BY <1>2, <1>3 DEF TypeInv, Links
    <3>2. Empty \in [head : Nodes \cup {NULL}, tail : Nodes \cup {NULL}, length : Nat]
      BY DEF Empty
    <3> QED
      BY <1>3, <1>4, <3>1, <3>2 DEF TypeInv
  <2> QED
    BY <1>2, <1>3, <1>4, <2>1, <2>2 DEF TypeInv
<1>6. S[1] # iter.next
  BY <1>2
<1>7. IterIn(RemoveAt(S, 1))'
  BY <1>2, <1>3, <1>4, <1>6, RangeShrunk DEF IterIn, Whole
<1> QED
  BY <1>1, <1>2, <1>4, <1>5, <1>6, <1>7, NamedNext

LEMMA RemoveNodeStep ==
  ASSUME IInv, NEW n \in Nodes, n \notin stale \cup {iter.next},
         iter.next = NULL \/ iter.direction = "HEAD", RemoveNode(n)
  PROVE  /\ \E r \in 1 .. Len(Chain) : Chain[r] # iter.next /\ Chain' = RemoveAt(Chain, r)
         /\ IInv' /\ iter' = iter /\ returned' = returned
<1>1. PICK S : S = Chain
  OBVIOUS
<1>2. /\ S \in Lists /\ TypeInv /\ IterIn(S) /\ Len(S) = lst.length /\ Len(S) \in Nat
      /\ \A m \in Range(S) : \E k \in 1 .. Len(S) : m = S[k]
      /\ \A k \in 1 .. Len(S) : S[k] \in Range(S)
  BY <1>1, Facts DEF IInv
<1>3. PICK r \in 1 .. Len(S) : n = S[r]
  BY <1>1, <1>2 DEF RemoveNode
<1>4. IsList(RemoveAt(S, r))' /\ wild' = FALSE
  BY <1>1, <1>3, RemoveNodeLinks
<1>5. n # iter.next
  OBVIOUS
<1>6. /\ \/ /\ prev[n] # NULL
            /\ next' = [next EXCEPT ![prev[n]] = next[n], ![n] = NULL]
            /\ prev' = [prev EXCEPT ![prev[n]] = prev[n], ![n] = NULL]
            /\ lst' = [lst EXCEPT !.length = @ - 1]
         \/ /\ next' = [next EXCEPT ![n] = NULL] /\ prev' = prev
            /\ lst' = [head |-> next[n], tail |-> NULL, length |-> lst.length - 1]
      /\ allocated' = allocated \ {n} /\ iter' = iter /\ returned' = returned
      /\ lost' \in BOOLEAN
  BY <1>4 DEF RemoveNode, Through
<1>7. TypeInv'
  <2>1. next' \in Links /\ prev' \in Links
    BY <1>2, <1>6 DEF TypeInv, Links
  <2>2. lst' \in [head : Nodes \cup {NULL}, tail : Nodes \cup {NULL}, length : Nat]
    <3>1. next[n] \in Nodes \cup {NULL} /\ lst.length - 1 \in Nat
      BY <1>2, <1>3 DEF TypeInv, Links
    <3> QED
      BY <1>2, <1>6, <3>1 DEF TypeInv
  <2> QED
    BY <1>2, <1>4, <1>6, <2>1, <2>2 DEF TypeInv
<1>8. IterIn(RemoveAt(S, r))'
  <2>1. iter.next = NULL \/ iter.next \in Range(RemoveAt(S, r))
    BY <1>2, <1>3, <1>5, RangeShrunk DEF IterIn
  <2> QED
    BY <1>6, <2>1 DEF IterIn
<1> QED
  BY <1>1, <1>3, <1>4, <1>5, <1>6, <1>7, <1>8, NamedNext

LEMMA DelStep ==
  ASSUME IInv, iter = NoIter, Del
  PROVE  Chain' = <<>> /\ IInv' /\ iter' = iter /\ returned' = returned
<1>1. PICK S : S = Chain
  OBVIOUS
<1>2. TypeInv /\ S \in Lists /\ Len(S) = lst.length /\ Range(S) \subseteq allocated
  BY <1>1, Facts DEF IInv
<1>3. Counted = S
  <2>1. S \in Seq(Nodes) /\ DOMAIN S = 1 .. lst.length
    BY <1>2, ListProperties
  <2>2. S = [k \in 1 .. lst.length |-> S[k]]
    BY <2>1
  <2> QED
    BY <1>1, <2>1, <2>2 DEF Counted
<1>4. IsInjective(Counted) /\ Range(Counted) \subseteq allocated
  BY <1>2, <1>3 DEF Lists
<1>5. /\ lst' = Empty /\ iter' = iter /\ returned' = returned /\ allocated' \subseteq allocated
      /\ next' = [n \in Nodes |-> NULL] /\ prev' = next'
      /\ stale' = {} /\ lost' = FALSE /\ wild' = wild
  BY <1>4 DEF Del, Through
<1>6. Range(<<>>) = {} /\ Len(<<>>) = 0 /\ ItemAt(<<>>, Len(<<>>)) = NULL /\ Backs(prev', stale', <<>>)
  BY DEF Range, ItemAt, Backs
<1>7. IsList(<<>>)'
  BY <1>5, <1>6, ThreadOfNone DEF IsList, Empty
<1>8. TypeInv' /\ IterIn(<<>>)'
  BY <1>2, <1>5 DEF TypeInv, IterIn, Links, Empty, NoIter
<1> QED
  BY <1>5, <1>7, <1>8, NamedNext

\* The sequence, in the order of an iterator of a direction.
Along(d, S) == IF d = "HEAD" THEN S ELSE Reverse(S)

\* The links of a whole list lead back through its nodes.
LEMMA BackThread ==
  ASSUME IInv, Whole
  PROVE  Thread(prev, lst.tail, Reverse(Chain))
<1>1. Chain \in Lists /\ Backs(prev, {}, Chain) /\ lst.tail = ItemAt(Chain, Len(Chain))
  BY DEF IInv, IsList, Thread, Whole
<1> QED
  BY <1>1, BacksThread

\* An iterator that a careful client has goes along a thread.
LEMMA Iterators ==
  ASSUME IInv, NEW S, S = Chain, NEW d \in Directions, NEW R, R = Along(d, S)
  PROVE  /\ R \in Lists /\ R \in Seq(Nodes) /\ DOMAIN R = 1 .. Len(R)
         /\ Len(R) = Len(S) /\ Range(R) = Range(S)
         /\ IterNew(d) = [next |-> ItemAt(R, 1), direction |-> d]
         /\ Thread(Link(d), ItemAt(R, 1), R)
<1>1. S \in Lists /\ Thread(next, lst.head, S) /\ (Whole => Thread(prev, lst.tail, Reverse(S)))
  BY BackThread DEF IInv, IsList, Thread
<1>2. d = "HEAD" \/ (d = "TAIL" /\ Whole)
  BY DEF Directions
<1>3. R \in Lists /\ Len(R) = Len(S) /\ Range(R) = Range(S)
  BY <1>1, RangeReverse DEF Along
<1>4. DOMAIN R = 1 .. Len(R) /\ R \in Seq(Nodes)
  BY <1>3, ListProperties
<1>5. CASE d = "HEAD"
  BY <1>1, <1>3, <1>4, <1>5 DEF Along, Link, IterNew, IterFrom, Thread
<1>6. CASE d = "TAIL" /\ Whole
  <2>1. R = Reverse(S) /\ Link(d) = prev /\ Thread(prev, lst.tail, R)
    BY <1>1, <1>6 DEF Along, Link
  <2>2. lst.tail = ItemAt(R, 1)
    BY <2>1 DEF Thread
  <2>3. IterNew(d) = [next |-> lst.tail, direction |-> d]
    BY <1>6 DEF IterNew, IterFrom
  <2> QED
    BY <1>3, <1>4, <2>1, <2>2, <2>3
<1> QED
  BY <1>2, <1>5, <1>6

LEMMA IterateStep ==
  ASSUME IInv, NEW d \in Directions, Iterate(d)
  PROVE  /\ Chain' = Chain /\ IInv' /\ returned' = NULL
         /\ iter'.next = NULL \/ \E k \in 1 .. Len(Chain) : iter'.next = Chain[k]
<1>1. PICK S : S = Chain
  OBVIOUS
<1>2. /\ next' = next /\ prev' = prev /\ lst' = lst /\ allocated' = allocated
      /\ wild' = wild /\ stale' = stale /\ lost' = lost /\ returned' = NULL
  BY DEF Iterate, fields, repair
<1>3. TypeInv /\ Range(S) \subseteq allocated /\ Range(S) \subseteq Nodes
  BY <1>1, Facts DEF IInv
<1>4. iter' = IterNew(d) \/ \E n \in Range(S) : iter' = IterFrom(n, d)
  BY <1>1 DEF Iterate
<1>5. IterNew(d).direction = d /\ (IterNew(d).next = NULL \/ IterNew(d).next \in Range(S))
      /\ IterNew(d) = [next |-> IterNew(d).next, direction |-> d]
  <2>1. PICK R : R = Along(d, S)
    OBVIOUS
  <2>2. /\ IterNew(d) = [next |-> ItemAt(R, 1), direction |-> d]
        /\ R \in Lists /\ Range(R) = Range(S)
    BY <1>1, <2>1, Iterators
  <2>3. ItemAt(R, 1) = NULL \/ ItemAt(R, 1) \in Range(R)
    BY DEF ItemAt, Range
  <2> QED
    BY <2>2, <2>3
<1>6. /\ iter' = [next |-> iter'.next, direction |-> d] /\ iter'.direction = d
      /\ iter'.next = NULL \/ iter'.next \in Range(S)
  BY <1>4, <1>5 DEF IterFrom
<1>7. d \in {"HEAD", "TAIL"} /\ (d = "HEAD" \/ Whole)
  BY DEF Directions
<1>8. IsList(S)'
  BY <1>1, <1>2, <1>3, LinksKept DEF Same
<1>9. TypeInv' /\ IterIn(S)'
  <2>1. iter' \in [next : Nodes \cup {NULL}, direction : {"HEAD", "TAIL"}]
    BY <1>3, <1>6, <1>7
  <2> QED
    BY <1>2, <1>3, <1>6, <1>7, <2>1 DEF TypeInv, IterIn, Whole
<1>10. Chain' = S /\ IInv'
  BY <1>8, <1>9, NamedNext
<1>11. \A n \in Range(S) : \E k \in 1 .. Len(S) : n = S[k]
  BY <1>1, Facts
<1> QED
  BY <1>1, <1>2, <1>6, <1>10, <1>11

\* An iterator at the j-th of its order goes to the one after.
LEMMA IterNextStep ==
  ASSUME IInv, IterNext
  PROVE  /\ Chain' = Chain /\ IInv' /\ returned' = iter.next
         /\ iter'.direction = iter.direction
         /\ \A j \in 1 .. Len(Chain) :
               LET R == Along(iter.direction, Chain)
               IN  R[j] = iter.next => iter'.next = ItemAt(R, j + 1)
<1>1. PICK S : S = Chain
  OBVIOUS
<1>0. {iter.next} \subseteq allocated
  <2>1. iter.next \in Range(S)
    BY <1>1 DEF IterNext, IInv, IterIn
  <2> QED
    BY <1>1, <2>1, Facts
<1>2. /\ next' = next /\ prev' = prev /\ lst' = lst /\ allocated' = allocated
      /\ wild' = wild /\ stale' = stale /\ lost' = lost
      /\ returned' = iter.next /\ iter' = IterStep(iter) /\ iter.next # NULL
  BY <1>0 DEF IterNext, Through, fields, repair
<1>3. /\ TypeInv /\ Range(S) \subseteq allocated /\ Range(S) \subseteq Nodes /\ S \in Lists
      /\ iter.next \in Range(S) /\ (iter.direction = "HEAD" \/ Whole)
  BY <1>1, <1>2, Facts DEF IInv, IterIn
<1>4. PICK d : d = iter.direction
  OBVIOUS
<1>5. d \in Directions /\ d \in {"HEAD", "TAIL"}
  BY <1>3, <1>4 DEF Directions, TypeInv
<1>6. PICK R : R = Along(d, S)
  OBVIOUS
<1>7. /\ R \in Lists /\ Len(R) = Len(S) /\ Range(R) = Range(S) /\ DOMAIN R = 1 .. Len(R)
      /\ Thread(Link(d), ItemAt(R, 1), R)
  BY <1>1, <1>5, <1>6, Iterators
<1>8. iter' = [next |-> Link(d)[iter.next], direction |-> d]
  <2>1. iter = [next |-> iter.next, direction |-> d]
    BY <1>3, <1>4 DEF TypeInv
  <2>2. IterStep(iter) = [iter EXCEPT !.next = Link(d)[iter.next]]
    BY <1>2, <1>4 DEF IterStep, Link
  <2> QED
    BY <1>2, <2>1, <2>2
<1>9. ASSUME NEW j \in 1 .. Len(S), R[j] = iter.next PROVE iter'.next = ItemAt(R, j + 1)
  BY <1>7, <1>8, <1>9 DEF Thread
<1>10. iter'.next = NULL \/ iter'.next \in Range(S)
  <2>1. PICK j \in 1 .. Len(S) : R[j] = iter.next
    BY <1>3, <1>7, ListProperties
  <2>2. ItemAt(R, j + 1) = NULL \/ ItemAt(R, j + 1) \in Range(R)
    BY DEF ItemAt, Range
  <2> QED
    BY <1>7, <1>9, <2>1, <2>2
<1>11. IsList(S)'
  BY <1>1, <1>2, <1>3, LinksKept DEF Same
<1>12. TypeInv' /\ IterIn(S)'
  <2>1. iter' \in [next : Nodes \cup {NULL}, direction : {"HEAD", "TAIL"}] /\ iter'.direction = d
    BY <1>3, <1>5, <1>8, <1>10
  <2> QED
    BY <1>2, <1>3, <1>4, <1>10, <2>1 DEF TypeInv, IterIn, Whole
<1>13. Chain' = S /\ IInv'
  BY <1>11, <1>12, NamedNext
<1> QED
  BY <1>1, <1>2, <1>4, <1>6, <1>8, <1>9, <1>13

LEMMA IterDelStep ==
  ASSUME IInv, IterDel
  PROVE  Chain' = Chain /\ IInv' /\ iter' = NoIter /\ returned' = NULL
<1>1. PICK S : S = Chain
  OBVIOUS
<1>2. /\ next' = next /\ prev' = prev /\ lst' = lst /\ allocated' = allocated
      /\ wild' = wild /\ stale' = stale /\ lost' = lost /\ returned' = NULL /\ iter' = NoIter
  BY DEF IterDel, fields, repair
<1>3. TypeInv /\ Range(S) \subseteq allocated
  BY <1>1, Facts DEF IInv
<1>4. IsList(S)'
  BY <1>1, <1>2, <1>3, LinksKept DEF Same
<1>5. TypeInv' /\ IterIn(S)'
  BY <1>2, <1>3 DEF TypeInv, IterIn, NoIter
<1> QED
  BY <1>1, <1>2, <1>4, <1>5, NamedNext

LEMMA InitIInv ==
  ASSUME Init
  PROVE  Chain = <<>> /\ IInv
<1>1. TypeInv /\ IterIn(<<>>)
  BY DEF Init, TypeInv, IterIn, Links, Empty, NoIter
<1>2. IsList(<<>>)
  <2>1. /\ Range(<<>>) = {} /\ Len(<<>>) = 0 /\ ItemAt(<<>>, Len(<<>>)) = NULL
        /\ Backs(prev, stale, <<>>)
    BY DEF Range, ItemAt, Backs
  <2> QED
    BY <2>1, ThreadOfNone DEF Init, IsList, Empty
<1> QED
  BY <1>1, <1>2, Named

LEMMA StepIInv ==
  ASSUME IInv, [CarefulNext]_vars
  PROVE  IInv'
<1>1. CASE UNCHANGED vars
  <2>1. Chain' = Chain
    BY <1>1 DEF vars, fields, Chain, Follow
  <2> QED
    BY <1>1, <2>1 DEF vars, fields, repair, IInv, TypeInv, IsList, IterIn, Whole
<1>2. CASE CarefulNext
  BY <1>2, NewNodeStep, FreeNodeStep, RPushStep, LPushStep, RemoveNodeStep, RPopStep,
     LPopStep, DelStep, IterateStep, IterNextStep, IterDelStep DEF CarefulNext, Directions
<1> QED
  BY <1>1, <1>2

LEMMA ListKept == CarefulSpec => []IInv
<1>1. Init => IInv
  BY InitIInv
<1>2. IInv /\ [CarefulNext]_vars => IInv'
  BY StepIInv
<1> QED
  BY <1>1, <1>2, PTL DEF CarefulSpec

-----------------------------------------------------------------------------
(* What the list and the look-ups say.                                     *)

LEMMA LinksMatching ==
  ASSUME IInv
  PROVE  LinksMatch
<1>1. PICK S : S = Chain
  OBVIOUS
<1>2. S \in Lists /\ Len(S) = lst.length /\ Range(S) \subseteq allocated
  BY <1>1, Facts
<1>3. ASSUME Whole PROVE Follow(prev, lst.tail) = Reverse(S)
  BY <1>1, <1>3, BackThread, Following
<1> QED
  BY <1>1, <1>2, <1>3 DEF LinksMatch, LinkedBothWays, Lists, IInv, TypeInv

LEMMA AtForwards ==
  ASSUME IInv, NEW S, S = Chain, NEW i \in Nat
  PROVE  /\ After(IterNew("HEAD"), i).next = ItemAt(S, i + 1)
         /\ At(i) = ItemAt(S, i + 1)
<1>1. /\ Thread(Link("HEAD"), ItemAt(S, 1), S) /\ DOMAIN S = 1 .. Len(S)
      /\ IterNew("HEAD") = [next |-> ItemAt(S, 1), direction |-> "HEAD"]
  <2>1. "HEAD" \in Directions /\ S = Along("HEAD", S)
    BY DEF Directions, Along
  <2> QED
    BY <2>1, Iterators
<1>2. After(IterNew("HEAD"), i).next = ItemAt(S, i + 1)
  <2>1. After([next |-> ItemAt(S, 1), direction |-> "HEAD"], i)
          = [next |-> ItemAt(S, i + 1), direction |-> "HEAD"]
    BY <1>1, Stepping
  <2>2. After(IterNew("HEAD"), i) = [next |-> ItemAt(S, i + 1), direction |-> "HEAD"]
    BY <1>1, <2>1, Zenon
  <2> QED
    BY <2>2
<1>3. At(i) = IF i < lst.length THEN After(IterNew("HEAD"), i).next ELSE NULL
  <2>1. ~(i < 0)
    OBVIOUS
  <2> QED
    BY <2>1 DEF At
<1>4. lst.length = Len(S) /\ Len(S) \in Nat
  BY Facts
<1>5. ~(i < lst.length) => i + 1 \notin 1 .. Len(S)
  BY <1>4
<1> QED
  BY <1>1, <1>2, <1>3, <1>5 DEF ItemAt

LEMMA AtBackwards ==
  ASSUME IInv, Whole, NEW S, S = Chain, NEW i \in Nat
  PROVE  At(-i - 1) = ItemAt(Reverse(S), i + 1)
<1>1. PICK R : R = Reverse(S)
  OBVIOUS
<1>2. /\ Thread(Link("TAIL"), ItemAt(R, 1), R) /\ DOMAIN R = 1 .. Len(R) /\ Len(R) = Len(S)
      /\ IterNew("TAIL") = [next |-> ItemAt(R, 1), direction |-> "TAIL"]
  <2>1. "TAIL" \in Directions /\ R = Along("TAIL", S)
    BY <1>1 DEF Directions, Along
  <2> QED
    BY <2>1, Iterators
<1>3. After(IterNew("TAIL"), i).next = ItemAt(R, i + 1)
  <2>1. After([next |-> ItemAt(R, 1), direction |-> "TAIL"], i)
          = [next |-> ItemAt(R, i + 1), direction |-> "TAIL"]
    BY <1>2, Stepping
  <2>2. After(IterNew("TAIL"), i) = [next |-> ItemAt(R, i + 1), direction |-> "TAIL"]
    BY <1>2, <2>1, Zenon
  <2> QED
    BY <2>2
<1>4. At(-i - 1) = IF i < lst.length THEN After(IterNew("TAIL"), i).next ELSE NULL
  <2>1. -i - 1 < 0 /\ -(-i - 1) - 1 = i
    OBVIOUS
  <2> QED
    BY <2>1 DEF At
<1>5. lst.length = Len(S) /\ Len(S) \in Nat
  BY Facts
<1>6. ~(i < lst.length) => i + 1 \notin 1 .. Len(R)
  BY <1>2, <1>5
<1> QED
  BY <1>1, <1>2, <1>3, <1>4, <1>6 DEF ItemAt

LEMMA FindsFirst ==
  ASSUME IInv, NEW S, S = Chain, NEW d \in Data
  PROVE  \/ Find(d) = NULL /\ \A j \in 1 .. Len(S) : data[S[j]] # d
         \/ \E k \in 1 .. Len(S) : /\ Find(d) = S[k] /\ data[S[k]] = d
                                   /\ \A j \in 1 .. k - 1 : data[S[j]] # d
<1>1. lst.length = Len(S) /\ Len(S) \in Nat /\ DOMAIN S = 1 .. Len(S)
  BY Facts
<1>2. PICK hits : hits = {k \in 0 .. lst.length - 1 : data[After(IterNew("HEAD"), k).next] = d}
  OBVIOUS
<1>3. Find(d) = IF hits = {} THEN NULL
                ELSE After(IterNew("HEAD"), CHOOSE k \in hits : \A j \in hits : k <= j).next
  BY <1>2 DEF Find
<1>4. ASSUME NEW k \in 0 .. lst.length - 1
      PROVE  After(IterNew("HEAD"), k).next = S[k + 1] /\ k + 1 \in 1 .. Len(S)
  <2>1. k \in Nat /\ k + 1 \in 1 .. Len(S)
    BY <1>1
  <2> QED
    BY <1>1, <2>1, AtForwards DEF ItemAt
<1>5. ASSUME NEW j \in 1 .. Len(S)
      PROVE  j - 1 \in 0 .. lst.length - 1 /\ (data[S[j]] = d <=> j - 1 \in hits)
  <2>1. j - 1 \in 0 .. lst.length - 1 /\ (j - 1) + 1 = j
    BY <1>1
  <2>2. After(IterNew("HEAD"), j - 1).next = S[j]
    BY <1>4, <2>1
  <2> QED
    BY <1>2, <2>1, <2>2
<1>6. CASE hits = {}
  BY <1>3, <1>5, <1>6
<1>7. CASE hits # {}
  <2>1. hits \subseteq 0 .. lst.length - 1 /\ hits \subseteq Nat
    BY <1>1, <1>2
  <2>2. \E k \in hits : \A j \in hits : k <= j
    <3>1. PICK k \in hits : \A y \in hits : ~(<<y, k>> \in OpToRel(<, Nat))
      BY <1>7, <2>1, NatLessThanWellFounded, WFMin
    <3>2. ASSUME NEW j \in hits PROVE k <= j
      <4>1. j \in Nat /\ k \in Nat /\ ~(j < k)
        BY <2>1, <3>1 DEF OpToRel
      <4> QED
        BY <4>1
    <3> QED
      BY <3>2
  <2>3. PICK k : k = CHOOSE x \in hits : \A j \in hits : x <= j
    OBVIOUS
  <2>4. k \in hits /\ \A j \in hits : k <= j
    BY <2>2, <2>3
  <2>5. k + 1 \in 1 .. Len(S) /\ Find(d) = S[k + 1] /\ k \in Nat
    BY <1>3, <1>4, <1>7, <2>1, <2>3, <2>4
  <2>6. data[S[k + 1]] = d
    BY <1>2, <1>4, <2>1, <2>4
  <2>7. ASSUME NEW j \in 1 .. (k + 1) - 1 PROVE data[S[j]] # d
    <3>1. j \in 1 .. Len(S) /\ ~(k <= j - 1)
      BY <1>1, <2>5
    <3> QED
      BY <1>5, <2>4, <3>1
  <2> QED
    BY <2>5, <2>6, <2>7
<1> QED
  BY <1>6, <1>7

LEMMA LookupsAgreeing ==
  ASSUME IInv
  PROVE  LookupsAgree
<1>1. PICK S : S = Chain
  OBVIOUS
<1>2. /\ S \in Lists /\ lst.length = Len(S) /\ Len(S) \in Nat /\ DOMAIN S = 1 .. Len(S)
  BY <1>1, Facts
<1>3. /\ \A k \in 1 .. Len(S) : S[k] # NULL
      /\ \A j, k \in 1 .. Len(S) : S[j] = S[k] => j = k
  BY <1>2, ListProperties
<1>4. ASSUME NEW i \in 0 .. lst.length
      PROVE  At(i) = IF i < lst.length THEN S[i + 1] ELSE NULL
  <2>1. i \in Nat /\ (i < lst.length <=> i + 1 \in 1 .. Len(S))
    BY <1>2
  <2> QED
    BY <1>1, <1>2, <2>1, AtForwards DEF ItemAt
<1>5. ASSUME Whole, NEW i \in 0 .. lst.length
      PROVE  At(-i - 1) = IF i < lst.length THEN S[lst.length - i] ELSE NULL
  <2>1. i \in Nat /\ (i < lst.length <=> i + 1 \in 1 .. Len(S))
    BY <1>2
  <2>2. At(-i - 1) = ItemAt(Reverse(S), i + 1)
    BY <1>1, <1>5, <2>1, AtBackwards
  <2>3. Reverse(S) \in Lists /\ Len(Reverse(S)) = Len(S)
    BY <1>2, RangeReverse
  <2>4. DOMAIN Reverse(S) = 1 .. Len(S)
    BY <2>3, ListProperties
  <2>5. ASSUME i + 1 \in 1 .. Len(S) PROVE Reverse(S)[i + 1] = S[lst.length - i]
    <3>1. Reverse(S)[i + 1] = S[Len(S) - (i + 1) + 1]
      BY <1>2, <2>5, RangeReverse
    <3>2. Len(S) - (i + 1) + 1 = lst.length - i
      BY <1>2, <2>1
    <3> QED
      BY <3>1, <3>2
  <2> QED
    BY <2>1, <2>2, <2>4, <2>5 DEF ItemAt
<1>6. ASSUME NEW d \in Data
      PROVE  LET n == Find(d)
                 k == CHOOSE k \in DOMAIN S : S[k] = n
             IN  IF n = NULL THEN \A j \in DOMAIN S : data[S[j]] # d
                 ELSE data[n] = d /\ \A j \in 1 .. k - 1 : data[S[j]] # d
  <2>1. CASE Find(d) = NULL /\ \A j \in 1 .. Len(S) : data[S[j]] # d
    BY <1>2, <2>1
  <2>2. ASSUME NEW k \in 1 .. Len(S), Find(d) = S[k], data[S[k]] = d,
               \A j \in 1 .. k - 1 : data[S[j]] # d
        PROVE  LET n == Find(d)
                   i == CHOOSE x \in DOMAIN S : S[x] = n
               IN  IF n = NULL THEN \A j \in DOMAIN S : data[S[j]] # d
                   ELSE data[n] = d /\ \A j \in 1 .. i - 1 : data[S[j]] # d
    <3>1. Find(d) # NULL
      BY <1>3, <2>2
    <3>2. (CHOOSE x \in DOMAIN S : S[x] = Find(d)) = k
      BY <1>2, <1>3, <2>2
    <3> QED
      BY <2>2, <3>1, <3>2
  <2> QED
    BY <1>1, <2>1, <2>2, FindsFirst
<1> QED
  BY <1>1, <1>4, <1>5, <1>6 DEF LookupsAgree

\* With a careful client, the links forward lead through one sequence of nodes,
\* all of them the client's, and those of a whole list back through the same; no
\* call goes to NULL or to freed memory; and ty_list_at and ty_list_find read
\* that sequence: for any number of nodes, and after any number of removals of
\* nodes whose link back is right.
THEOREM ReadsSound == CarefulSpec => []ReadsAsSequence
<1>1. IInv => ReadsAsSequence
  BY LinksMatching, LookupsAgreeing DEF ReadsAsSequence
<1> QED
  BY <1>1, ListKept, PTL

-----------------------------------------------------------------------------
(* The list is a Deque.                                                    *)

\* What is still due to the iterator.
Due == Follow(IF iter.direction = "HEAD" THEN next ELSE prev, iter.next)

\* The sequence, in the iterator's order.
Ahead == Along(iter.direction, Chain)

\* The iterator is at an item of it or at its end, and has all from there to return.
DueFollows ==
    /\ Ahead \in Lists /\ Ahead \in Seq(Nodes) /\ Len(Ahead) = Len(Chain)
    /\ iter.next = NULL => Due = <<>>
    /\ iter.next # NULL => \E j \in 1 .. Len(Ahead) : Ahead[j] = iter.next
    /\ \A j \in 1 .. Len(Ahead) : Ahead[j] = iter.next => Due = From(Ahead, j)

LEMMA Follows ==
  ASSUME IInv
  PROVE  DueFollows
<1>1. PICK S : S = Chain
  OBVIOUS
<1>2. PICK d : d = iter.direction
  OBVIOUS
<1>3. PICK R : R = Along(d, S)
  OBVIOUS
<1>4. S \in Lists /\ R \in Lists /\ R \in Seq(Nodes) /\ Len(R) = Len(S)
  <2>1. S \in Lists
    BY <1>1, Facts
  <2>2. R \in Lists /\ Len(R) = Len(S)
    BY <1>3, <2>1, RangeReverse DEF Along
  <2> QED
    BY <2>1, <2>2, ListProperties
<1>5. Due = Follow(Link(d), iter.next)
  BY <1>2 DEF Due, Link
<1>6. ASSUME iter.next = NULL PROVE Due = <<>>
  BY <1>5, <1>6, ThreadOfNone, Following
<1>7. ASSUME iter.next # NULL
      PROVE  /\ \E j \in 1 .. Len(R) : R[j] = iter.next
             /\ \A j \in 1 .. Len(R) : R[j] = iter.next => Due = From(R, j)
  <2>1. d \in Directions /\ iter.next \in Range(S)
    BY <1>1, <1>2, <1>7 DEF IInv, IterIn, TypeInv, Directions
  <2>2. Range(R) = Range(S) /\ Thread(Link(d), ItemAt(R, 1), R)
    BY <1>1, <1>3, <2>1, Iterators
  <2>3. \E j \in 1 .. Len(R) : R[j] = iter.next
    BY <1>4, <2>1, <2>2, ListProperties
  <2>4. ASSUME NEW j \in 1 .. Len(R), R[j] = iter.next PROVE Due = From(R, j)
    <3>1. Thread(Link(d), R[j], From(R, j))
      BY <2>2, ThreadFrom
    <3> QED
      BY <1>5, <2>4, <3>1, Following
  <2> QED
    BY <2>3, <2>4
<1>8. \A j \in 1 .. Len(R) : R[j] # NULL
  BY <1>4, ListProperties
<1> QED
  BY <1>1, <1>2, <1>3, <1>4, <1>6, <1>7, <1>8 DEF DueFollows, Ahead

LEMMA FollowsNext ==
  IInv' => DueFollows'
<1>1. IInv => DueFollows
  BY Follows
<1> QED
  BY <1>1, PTL

\* The first of what follows, and the rest of it.
LEMMA FromHead ==
  ASSUME NEW X, NEW T \in Seq(X), NEW j \in 1 .. Len(T)
  PROVE  /\ From(T, j) # <<>> /\ Head(From(T, j)) = T[j]
         /\ j + 1 \in 1 .. Len(T) => Tail(From(T, j)) = From(T, j + 1)
         /\ j + 1 \notin 1 .. Len(T) => Tail(From(T, j)) = <<>>
<1>1. Len(T) \in Nat
  OBVIOUS
<1>2. PICK a : a = From(T, j)
  OBVIOUS
<1>3. /\ a \in Seq(X) /\ Len(a) = Len(T) - j + 1
      /\ \A k \in 1 .. Len(T) - j + 1 : a[k] = T[j + k - 1]
  BY <1>2, FromProperties
<1>4. Len(a) # 0 /\ a # <<>> /\ a[1] = T[j] /\ Head(a) = a[1]
  <2>1. 1 \in 1 .. Len(T) - j + 1 /\ j + 1 - 1 = j /\ Len(a) # 0
    BY <1>1, <1>3
  <2>2. a[1] = T[j]
    BY <1>3, <2>1
  <2>3. a # <<>>
    BY <2>1
  <2> QED
    BY <1>3, <2>1, <2>2, <2>3
<1>5. PICK t : t = Tail(a)
  OBVIOUS
<1>6. t \in Seq(X) /\ Len(t) = Len(a) - 1 /\ \A k \in 1 .. Len(t) : t[k] = a[k + 1]
  BY <1>3, <1>4, <1>5, HeadTailProperties
<1>7. ASSUME j + 1 \in 1 .. Len(T) PROVE t = From(T, j + 1)
  <2>1. PICK b : b = From(T, j + 1)
    OBVIOUS
  <2>2. /\ b \in Seq(X) /\ Len(b) = Len(T) - (j + 1) + 1
        /\ \A k \in 1 .. Len(T) - (j + 1) + 1 : b[k] = T[(j + 1) + k - 1]
    BY <1>7, <2>1, FromProperties
  <2>3. Len(t) = Len(b)
    BY <1>1, <1>3, <1>6, <2>2
  <2>4. ASSUME NEW k \in 1 .. Len(t) PROVE t[k] = b[k]
    <3>1. /\ k + 1 \in 1 .. Len(T) - j + 1 /\ k \in 1 .. Len(T) - (j + 1) + 1
          /\ j + (k + 1) - 1 = (j + 1) + k - 1
      BY <1>1, <1>3, <1>6
    <3> QED
      BY <1>3, <1>6, <2>2, <3>1
  <2> QED
    BY <1>6, <2>1, <2>2, <2>3, <2>4, SeqEqual
<1>8. ASSUME j + 1 \notin 1 .. Len(T) PROVE t = <<>>
  <2>1. Len(t) = 0
    BY <1>1, <1>3, <1>6, <1>8
  <2> QED
    BY <1>6, <2>1, EmptySeq
<1> QED
  BY <1>2, <1>4, <1>5, <1>7, <1>8

\* A push where the iterator goes to is due to it; one behind it is not.
LEMMA DueGrown ==
  ASSUME IInv, IInv', iter' = iter, NEW n \in Nodes
  PROVE  /\ Ahead' = Append(Ahead, n) => Due' = IF Due # <<>> THEN Append(Due, n) ELSE Due
         /\ Ahead' = <<n>> \o Ahead => Due' = Due
<1>1. DueFollows /\ DueFollows'
  BY Follows, FollowsNext
<1>2. PICK R : R = Ahead
  OBVIOUS
<1>3. PICK Q : Q = Ahead'
  OBVIOUS
<1>4. CASE iter.next = NULL
  <2>1. Due = <<>> /\ Due' = <<>>
    BY <1>1, <1>4 DEF DueFollows
  <2> QED
    BY <2>1
<1>5. CASE iter.next # NULL
  <2>1. PICK j \in 1 .. Len(R) : R[j] = iter.next
    BY <1>1, <1>2, <1>5 DEF DueFollows
  <2>2. R \in Seq(Nodes) /\ Len(R) \in Nat /\ Due = From(R, j)
    BY <1>1, <1>2, <2>1 DEF DueFollows
  <2>3. ASSUME NEW i \in 1 .. Len(Q), Q[i] = iter.next PROVE Due' = From(Q, i)
    BY <1>1, <1>3, <2>3 DEF DueFollows
  <2>4. ASSUME Q = Append(R, n) PROVE Due' = IF Due # <<>> THEN Append(Due, n) ELSE Due
    <3>1. Len(Q) = Len(R) + 1 /\ Q[j] = R[j]
      BY <2>2, <2>4, AppendProperties
    <3>2. Due' = From(Q, j)
      <4>1. j \in 1 .. Len(Q)
        BY <2>2, <3>1
      <4> QED
        BY <2>1, <2>3, <3>1, <4>1
    <3>3. From(Q, j) = Append(From(R, j), n) /\ From(R, j) # <<>>
      BY <2>2, <2>4, FromAppend, FromHead
    <3> QED
      BY <2>2, <3>2, <3>3
  <2>5. ASSUME Q = <<n>> \o R PROVE Due' = Due
    <3>1. Len(Q) = Len(R) + 1 /\ Q[j + 1] = R[j]
      BY <2>2, <2>5, FrontProperties
    <3>2. Due' = From(Q, j + 1)
      <4>1. j + 1 \in 1 .. Len(Q)
        BY <2>2, <3>1
      <4> QED
        BY <2>1, <2>3, <3>1, <4>1
    <3>3. From(Q, j + 1) = From(R, j)
      BY <2>2, <2>5, FromFront
    <3> QED
      BY <2>2, <3>2, <3>3
  <2> QED
    BY <1>2, <1>3, <2>4, <2>5
<1> QED
  BY <1>4, <1>5

\* s without n, which is in it at most once.
Without(s, n) ==
    IF n \in Range(s) THEN RemoveAt(s, CHOOSE k \in DOMAIN s : s[k] = n) ELSE s

LEMMA WithoutIs ==
  ASSUME NEW T \in Lists, NEW r \in 1 .. Len(T)
  PROVE  Without(T, T[r]) = RemoveAt(T, r)
<1>1. DOMAIN T = 1 .. Len(T) /\ T[r] \in Range(T)
      /\ \A k \in 1 .. Len(T) : T[k] = T[r] => k = r
  BY ListProperties
<1>2. (CHOOSE k \in DOMAIN T : T[k] = T[r]) = r
  BY <1>1
<1> QED
  BY <1>1, <1>2 DEF Without

LEMMA FromList ==
  ASSUME NEW T \in Lists, NEW j \in 1 .. Len(T)
  PROVE  /\ From(T, j) \in Lists
         /\ \A r \in 1 .. j - 1 : T[r] \notin Range(From(T, j))
         /\ \A r \in j .. Len(T) : /\ r - j + 1 \in 1 .. Len(From(T, j))
                                   /\ From(T, j)[r - j + 1] = T[r]
<1>1. /\ T \in Seq(Nodes) /\ Len(T) \in Nat
      /\ \A i, k \in 1 .. Len(T) : T[i] = T[k] => i = k
  BY ListProperties
<1>2. PICK a : a = From(T, j)
  OBVIOUS
<1>3. /\ a \in Seq(Nodes) /\ Len(a) = Len(T) - j + 1
      /\ \A k \in 1 .. Len(T) - j + 1 : a[k] = T[j + k - 1]
  BY <1>1, <1>2, FromProperties
<1>4. ASSUME NEW k \in 1 .. Len(a) PROVE j + k - 1 \in 1 .. Len(T) /\ a[k] = T[j + k - 1]
  <2>1. k \in 1 .. Len(T) - j + 1 /\ j + k - 1 \in 1 .. Len(T)
    BY <1>1, <1>3
  <2> QED
    BY <1>3, <2>1
<1>5. a \in Lists
  <2>1. ASSUME NEW i \in 1 .. Len(a), NEW k \in 1 .. Len(a), a[i] = a[k] PROVE i = k
    <3>1. j + i - 1 = j + k - 1
      BY <1>1, <1>4, <2>1
    <3> QED
      BY <3>1
  <2> QED
    BY <1>3, <2>1, ListMade
<1>6. ASSUME NEW r \in 1 .. j - 1 PROVE T[r] \notin Range(a)
  <2>1. SUFFICES ASSUME T[r] \in Range(a) PROVE FALSE
    OBVIOUS
  <2>2. PICK k \in 1 .. Len(a) : T[r] = a[k]
    BY <1>5, <2>1, ListProperties
  <2>3. r \in 1 .. Len(T)
    BY <1>1
  <2>4. r = j + k - 1
    BY <1>1, <1>4, <2>2, <2>3
  <2> QED
    BY <1>3, <2>4
<1>7. ASSUME NEW r \in j .. Len(T)
      PROVE  r - j + 1 \in 1 .. Len(a) /\ a[r - j + 1] = T[r]
  <2>1. r - j + 1 \in 1 .. Len(a) /\ j + (r - j + 1) - 1 = r
    BY <1>1, <1>3
  <2> QED
    BY <1>4, <2>1
<1> QED
  BY <1>2, <1>5, <1>6, <1>7

\* What is taken out is not due any more, and what is next due is not taken out.
LEMMA DueShrunk ==
  ASSUME IInv, IInv', iter' = iter, NEW r \in 1 .. Len(Ahead), Ahead[r] # iter.next,
         Ahead' = RemoveAt(Ahead, r)
  PROVE  /\ Due' = Without(Due, Ahead[r])
         /\ Due # <<>> => Ahead[r] # Head(Due)
<1>1. DueFollows /\ DueFollows'
  BY Follows, FollowsNext
<1>2. PICK R : R = Ahead
  OBVIOUS
<1>3. PICK Q : Q = Ahead'
  OBVIOUS
<1>4. CASE iter.next = NULL
  <2>1. Due = <<>> /\ Due' = <<>>
    BY <1>1, <1>4 DEF DueFollows
  <2> QED
    BY <2>1 DEF Without, Range
<1>5. CASE iter.next # NULL
  <2>1. PICK j \in 1 .. Len(R) : R[j] = iter.next
    BY <1>1, <1>2, <1>5 DEF DueFollows
  <2>2. R \in Seq(Nodes) /\ R \in Lists /\ Len(R) \in Nat /\ Due = From(R, j)
    BY <1>1, <1>2, <2>1 DEF DueFollows
  <2>3. ASSUME NEW i \in 1 .. Len(Q), Q[i] = iter.next PROVE Due' = From(Q, i)
    BY <1>1, <1>3, <2>3 DEF DueFollows
  <2>4. /\ r \in 1 .. Len(R) /\ r # j /\ Q = RemoveAt(R, r) /\ Len(Q) = Len(R) - 1
        /\ \A k \in 1 .. Len(R) - 1 : Q[k] = IF k < r THEN R[k] ELSE R[k + 1]
    <3>1. r \in 1 .. Len(R) /\ r # j /\ Q = RemoveAt(R, r)
      BY <1>2, <1>3, <2>1
    <3> QED
      BY <2>2, <3>1, RemoveAtProperties
  <2>5. Head(From(R, j)) = R[j]
    BY <2>2, FromHead
  <2>6. CASE r < j
    <3>1. r \in 1 .. j - 1 /\ j - 1 \in 1 .. Len(R) - 1 /\ ~(j - 1 < r) /\ (j - 1) + 1 = j
      BY <2>2, <2>4, <2>6
    <3>2. Q[j - 1] = R[j] /\ j - 1 \in 1 .. Len(Q)
      BY <2>4, <3>1
    <3>3. Due' = From(Q, j - 1) /\ From(Q, j - 1) = From(R, j)
      BY <2>1, <2>2, <2>3, <2>4, <3>1, <3>2, FromRemoved
    <3>4. R[r] \notin Range(From(R, j))
      BY <2>2, <3>1, FromList
    <3> QED
      BY <1>2, <2>1, <2>2, <2>5, <3>3, <3>4 DEF Without
  <2>7. CASE ~(r < j)
    <3>1. /\ r \in j + 1 .. Len(R) /\ r \in j .. Len(R) /\ j < r
          /\ j \in 1 .. Len(R) - 1
      BY <2>2, <2>4, <2>7
    <3>2. Q[j] = R[j] /\ j \in 1 .. Len(Q)
      BY <2>4, <3>1
    <3>3. Due' = From(Q, j) /\ From(Q, j) = RemoveAt(From(R, j), r - j + 1)
      BY <2>1, <2>2, <2>3, <2>4, <3>1, <3>2, FromRemovedLater
    <3>4. /\ From(R, j) \in Lists /\ r - j + 1 \in 1 .. Len(From(R, j))
          /\ From(R, j)[r - j + 1] = R[r]
      BY <2>2, <3>1, FromList
    <3>5. Without(From(R, j), R[r]) = RemoveAt(From(R, j), r - j + 1)
      BY <3>4, WithoutIs
    <3> QED
      BY <1>2, <2>1, <2>2, <2>5, <3>3, <3>5
  <2> QED
    BY <2>6, <2>7
<1> QED
  BY <1>4, <1>5

LEMMA SameWithout ==
  ASSUME NEW s, NEW n
  PROVE  Abstract!Without(s, n) = Without(s, n)
  BY DEF Abstract!Without, Without, Abstract!RemoveAt, RemoveAt, Abstract!Range, Range

LEMMA DequeInit ==
  ASSUME Init
  PROVE  Abstract!Init
<1>1. Chain = <<>> /\ IInv
  BY InitIInv
<1>2. iter = NoIter /\ returned = NULL
  BY DEF Init
<1>3. Due = <<>>
  BY <1>1, <1>2, Follows DEF DueFollows, NoIter
<1> QED
  BY <1>1, <1>2, <1>3 DEF Abstract!Init, Due, NoIter

\* The steps that the Deque does not see.
LEMMA SameDue ==
  ASSUME IInv, IInv', Chain' = Chain, iter' = iter
  PROVE  Due' = Due
<1>1. DueFollows /\ DueFollows' /\ Ahead' = Ahead
  BY Follows, FollowsNext DEF Ahead
<1>2. CASE iter.next = NULL
  BY <1>1, <1>2 DEF DueFollows
<1>3. CASE iter.next # NULL
  <2>1. PICK j \in 1 .. Len(Ahead) : Ahead[j] = iter.next
    BY <1>1, <1>3 DEF DueFollows
  <2> QED
    BY <1>1, <2>1 DEF DueFollows
<1> QED
  BY <1>2, <1>3

\* The state of the Deque.
DequeVars == <<Chain, Due, iter.direction = "HEAD", returned>>

LEMMA PushBackStep ==
  ASSUME IInv, NEW n \in Nodes, ~lost, RPush(n)
  PROVE  Abstract!Next
<1>1. Chain' = Append(Chain, n) /\ IInv' /\ iter' = iter /\ returned' = returned
  BY RPushStep
<1>2. n \notin Range(Chain)
  BY DEF RPush, Loose
<1>3. PICK S : S = Chain
  OBVIOUS
<1>4. S \in Seq(Nodes)
  BY <1>3, Facts
<1>5. CASE iter.direction = "HEAD"
  <2>1. Ahead' = Append(Ahead, n)
    BY <1>1, <1>5 DEF Ahead, Along
  <2>2. Due' = IF Due # <<>> THEN Append(Due, n) ELSE Due
    BY <1>1, <2>1, DueGrown
  <2>3. Abstract!PushBack(n)
    BY <1>1, <1>5, <2>2 DEF Abstract!PushBack, Abstract!Reached, Due
  <2> QED
    BY <1>1, <1>2, <2>3 DEF Abstract!Next, Abstract!Range, Range
<1>6. CASE iter.direction # "HEAD"
  <2>1. Ahead' = <<n>> \o Ahead
    BY <1>1, <1>3, <1>4, <1>6, ReverseAppend DEF Ahead, Along
  <2>2. Due' = Due
    BY <1>1, <2>1, DueGrown
  <2>3. Abstract!PushBack(n)
    BY <1>1, <1>6, <2>2 DEF Abstract!PushBack, Abstract!Reached, Due
  <2> QED
    BY <1>1, <1>2, <2>3 DEF Abstract!Next, Abstract!Range, Range
<1> QED
  BY <1>5, <1>6

LEMMA PushFrontStep ==
  ASSUME IInv, NEW n \in Nodes, LPush(n)
  PROVE  Abstract!Next
<1>1. Chain' = <<n>> \o Chain /\ IInv' /\ iter' = iter /\ returned' = returned
  BY LPushStep
<1>2. n \notin Range(Chain)
  BY DEF LPush, Loose
<1>3. PICK S : S = Chain
  OBVIOUS
<1>4. S \in Seq(Nodes)
  BY <1>3, Facts
<1>5. CASE iter.direction = "HEAD"
  <2>1. Ahead' = <<n>> \o Ahead
    BY <1>1, <1>5 DEF Ahead, Along
  <2>2. Due' = Due
    BY <1>1, <2>1, DueGrown
  <2>3. Abstract!PushFront(n)
    BY <1>1, <1>5, <2>2 DEF Abstract!PushFront, Abstract!Reached, Due
  <2> QED
    BY <1>1, <1>2, <2>3 DEF Abstract!Next, Abstract!Range, Range
<1>6. CASE iter.direction # "HEAD"
  <2>1. Ahead' = Append(Ahead, n)
    BY <1>1, <1>3, <1>4, <1>6, ReverseFront DEF Ahead, Along
  <2>2. Due' = IF Due # <<>> THEN Append(Due, n) ELSE Due
    BY <1>1, <2>1, DueGrown
  <2>3. Abstract!PushFront(n)
    BY <1>1, <1>6, <2>2 DEF Abstract!PushFront, Abstract!Reached, Due
  <2> QED
    BY <1>1, <1>2, <2>3 DEF Abstract!Next, Abstract!Range, Range
<1> QED
  BY <1>5, <1>6

\* A pop or a removal of the node at r.
LEMMA TakeStep ==
  ASSUME IInv, IInv', NEW r \in 1 .. Len(Chain), Chain[r] # iter.next,
         Chain' = RemoveAt(Chain, r), iter' = iter, returned' = returned
  PROVE  Abstract!Next
<1>1. PICK S : S = Chain
  OBVIOUS
<1>2. /\ S \in Lists /\ S \in Seq(Nodes) /\ Len(S) \in Nat /\ S[r] \in Range(S)
      /\ r \in 1 .. Len(S)
  BY <1>1, Facts
<1>3. Chain' = Without(Chain, S[r])
  BY <1>1, <1>2, WithoutIs
<1>4. \E q \in 1 .. Len(Ahead) : Ahead[q] = S[r] /\ Ahead' = RemoveAt(Ahead, q)
  <2>1. CASE iter.direction = "HEAD"
    BY <1>1, <2>1 DEF Ahead, Along
  <2>2. CASE iter.direction # "HEAD"
    <3>1. Ahead = Reverse(S) /\ Ahead' = Reverse(RemoveAt(S, r))
      BY <1>1, <2>2 DEF Ahead, Along
    <3>2. /\ Len(S) - r + 1 \in 1 .. Len(S) /\ Len(Reverse(S)) = Len(S)
          /\ Reverse(S)[Len(S) - r + 1] = S[r]
          /\ Reverse(RemoveAt(S, r)) = RemoveAt(Reverse(S), Len(S) - r + 1)
      BY <1>2, RangeReverse, ReverseRemoved
    <3> QED
      BY <3>1, <3>2
  <2> QED
    BY <2>1, <2>2
<1>5. Due' = Without(Due, S[r]) /\ (Due # <<>> => S[r] # Head(Due))
  BY <1>1, <1>4, DueShrunk
<1>6. Abstract!Take(S[r])
  BY <1>3, <1>5, SameWithout DEF Abstract!Take, Due
<1> QED
  BY <1>1, <1>2, <1>6 DEF Abstract!Next, Abstract!Range, Range

LEMMA ClearStep ==
  ASSUME IInv, iter = NoIter, Del
  PROVE  Abstract!Next
<1>1. Chain' = <<>> /\ IInv' /\ iter' = iter /\ iter = NoIter /\ returned' = returned
  BY DelStep
<1>2. Due' = <<>>
  BY <1>1, FollowsNext DEF DueFollows, NoIter
<1>3. Abstract!Clear
  BY <1>1, <1>2 DEF Abstract!Clear, Due
<1> QED
  BY <1>1, <1>3 DEF Abstract!Next

LEMMA BeginStep ==
  ASSUME IInv, NEW d \in Directions, Iterate(d)
  PROVE  Abstract!Next
<1>1. PICK S : S = Chain
  OBVIOUS
<1>2. /\ Chain' = S /\ IInv' /\ returned' = NULL
      /\ iter'.next = NULL \/ \E k \in 1 .. Len(S) : iter'.next = S[k]
  BY <1>1, IterateStep
<1>3. S \in Lists /\ S \in Seq(Nodes) /\ Len(S) \in Nat /\ DOMAIN S = 1 .. Len(S)
  BY <1>1, Facts
<1>4. DueFollows'
  BY <1>2, FollowsNext
<1>5. CASE iter'.next = NULL
  <2>1. Due' = <<>>
    BY <1>4, <1>5 DEF DueFollows
  <2> QED
    BY <1>1, <1>2, <2>1 DEF Abstract!Next, Abstract!BreakOff, Due
<1>6. ASSUME NEW k \in 1 .. Len(S), iter'.next = S[k] PROVE Abstract!Next
  <2>1. CASE iter'.direction = "HEAD"
    <3>1. Ahead' = S
      BY <1>2, <2>1 DEF Ahead, Along
    <3>2. Due' = SubSeq(S, k, Len(S))
      BY <1>4, <1>6, <3>1 DEF DueFollows, From
    <3>3. Abstract!Begin(k)
      BY <1>1, <2>1, <3>2 DEF Abstract!Begin, Due
    <3> QED
      BY <1>1, <1>2, <1>3, <3>3 DEF Abstract!Next
  <2>2. CASE iter'.direction # "HEAD"
    <3>1. Ahead' = Reverse(S)
      BY <1>2, <2>2 DEF Ahead, Along
    <3>2. /\ Len(S) - k + 1 \in 1 .. Len(S) /\ Len(Reverse(S)) = Len(S)
          /\ Reverse(S)[Len(S) - k + 1] = S[k]
      BY <1>3, RangeReverse
    <3>3. Due' = From(Reverse(S), Len(S) - k + 1)
      BY <1>4, <1>6, <3>1, <3>2 DEF DueFollows
    <3>4. Due' = Reverse(SubSeq(S, 1, k))
      BY <1>3, <3>3, ReverseUpTo
    <3>5. Abstract!Begin(k)
      BY <1>1, <2>2, <3>4 DEF Abstract!Begin, Due, Abstract!Reverse, Reverse
    <3> QED
      BY <1>1, <1>2, <1>3, <3>5 DEF Abstract!Next
  <2> QED
    BY <2>1, <2>2
<1> QED
  BY <1>2, <1>5, <1>6

LEMMA HandOutStep ==
  ASSUME IInv, IterNext
  PROVE  Abstract!Next
<1>1. PICK R : R = Ahead
  OBVIOUS
<1>2. /\ Chain' = Chain /\ IInv' /\ returned' = iter.next /\ iter'.direction = iter.direction
      /\ \A j \in 1 .. Len(Chain) : R[j] = iter.next => iter'.next = ItemAt(R, j + 1)
  BY <1>1, IterNextStep DEF Ahead
<1>3. DueFollows /\ DueFollows' /\ Ahead' = R
  BY <1>1, <1>2, Follows, FollowsNext DEF Ahead
<1>4. R \in Lists /\ R \in Seq(Nodes) /\ Len(R) = Len(Chain) /\ Len(R) \in Nat /\ DOMAIN R = 1 .. Len(R)
  BY <1>1, <1>3 DEF DueFollows
<1>5. iter.next # NULL
  BY DEF IterNext
<1>6. PICK j \in 1 .. Len(R) : R[j] = iter.next
  BY <1>1, <1>3, <1>5 DEF DueFollows
<1>7. Due = From(R, j) /\ Due # <<>> /\ Head(Due) = iter.next
  BY <1>1, <1>3, <1>4, <1>6, FromHead DEF DueFollows
<1>8. Due' = Tail(Due)
  <2>1. CASE j + 1 \in 1 .. Len(R)
    <3>1. iter'.next = R[j + 1]
      BY <1>2, <1>4, <1>6, <2>1 DEF ItemAt
    <3>2. Due' = From(R, j + 1)
      BY <1>3, <2>1, <3>1 DEF DueFollows
    <3> QED
      BY <1>4, <1>7, <2>1, <3>2, FromHead
  <2>2. CASE j + 1 \notin 1 .. Len(R)
    <3>1. iter'.next = NULL
      BY <1>2, <1>4, <1>6, <2>2 DEF ItemAt
    <3>2. Due' = <<>>
      BY <1>3, <3>1 DEF DueFollows
    <3> QED
      BY <1>4, <1>7, <2>2, <3>2, FromHead
  <2> QED
    BY <2>1, <2>2
<1>9. Abstract!HandOut
  BY <1>2, <1>7, <1>8 DEF Abstract!HandOut, Due
<1> QED
  BY <1>2, <1>9 DEF Abstract!Next

LEMMA BreakOffStep ==
  ASSUME IInv, IterDel
  PROVE  Abstract!Next
<1>1. Chain' = Chain /\ IInv' /\ iter' = NoIter /\ returned' = NULL
  BY IterDelStep
<1>2. Due' = <<>>
  BY <1>1, FollowsNext DEF DueFollows, NoIter
<1> QED
  BY <1>1, <1>2 DEF Abstract!Next, Abstract!BreakOff, Due

LEMMA DequeStep ==
  ASSUME IInv, [CarefulNext]_vars
  PROVE  [Abstract!Next]_DequeVars
<1>1. CASE UNCHANGED vars
  <2>1. Chain' = Chain /\ Due' = Due
    BY <1>1 DEF vars, fields, Chain, Due, Follow
  <2> QED
    BY <1>1, <2>1 DEF vars, DequeVars
<1>2. ASSUME NEW n \in Nodes, NEW d \in Data, NewNode(n, d) PROVE UNCHANGED DequeVars
  <2>1. Chain' = Chain /\ IInv' /\ iter' = iter /\ returned' = returned
    BY <1>2, NewNodeStep DEF NewNode
  <2> QED
    BY <2>1, SameDue DEF DequeVars
<1>3. ASSUME NEW n \in Nodes, FreeNode(n) PROVE UNCHANGED DequeVars
  <2>1. Chain' = Chain /\ IInv' /\ iter' = iter /\ returned' = returned
    BY <1>3, FreeNodeStep DEF FreeNode
  <2> QED
    BY <2>1, SameDue DEF DequeVars
<1>4. ASSUME NEW n \in Nodes \ (stale \cup {iter.next}),
             iter.next = NULL \/ iter.direction = "HEAD", RemoveNode(n)
      PROVE  Abstract!Next
  BY <1>4, RemoveNodeStep, TakeStep
<1>5. ASSUME ~lost, lst.tail \notin stale \cup {iter.next}, RPop PROVE Abstract!Next
  BY <1>5, RPopStep, TakeStep
<1>6. ASSUME lst.head # iter.next, LPop PROVE Abstract!Next
  BY <1>6, LPopStep, TakeStep
<1> QED
  BY <1>1, <1>2, <1>3, <1>4, <1>5, <1>6, PushBackStep, PushFrontStep, ClearStep, BeginStep,
     HandOutStep, BreakOffStep DEF CarefulNext, Directions

\* With a careful client, which removes nodes whose link back is right, and works
\* at the tail and backwards while those are, the list implements a Deque: a
\* sequence that grows and shrinks at its ends and loses nodes in its midst, one
\* after the other, while an iterator returns each node that is ahead of it once,
\* for any number of nodes.
THEOREM Refinement == CarefulSpec => ImplementsDeque
<1>1. Init => Abstract!Init
  BY DequeInit
<1>2. IInv /\ [CarefulNext]_vars => [Abstract!Next]_DequeVars
  BY DequeStep
<1> QED
  BY <1>1, <1>2, ListKept, PTL DEF CarefulSpec, ImplementsDeque, Abstract!Spec, DequeVars, Due
=============================================================================
