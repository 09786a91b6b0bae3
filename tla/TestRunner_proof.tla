---------------------------- MODULE TestRunner_proof ----------------------------
(***************************************************************************)
(* The runner's verdicts, counts, captured output and descriptors are those *)
(* of the tests' children, for any tests, any limits, pipes and buffers of *)
(* any size, and any number of runs.                                       *)
(*                                                                         *)
(* Part one: what the runner reads of a failure message is what the failing *)
(* test wrote into it, for messages and fields of any size: every text     *)
(* comes back whole, or as a prefix of itself when the message was cut.    *)
(***************************************************************************)
EXTENDS TestRunner, FiniteSetTheorems, SequenceTheorems, WellFoundedInduction, TLAPS

(***************************************************************************)
(* Induction and recursion over 0 .. n.                                    *)
(***************************************************************************)

LEMMA SetInduction ==
  ASSUME NEW S, 0 \in S, \A n \in Nat : n \in S => n + 1 \in S
  PROVE  Nat \subseteq S
<1> SUFFICES ASSUME Nat \ S # {} PROVE FALSE
  OBVIOUS
<1> DEFINE T == Nat \ S
<1>1. T \subseteq Nat /\ T # {}
  OBVIOUS
<1> HIDE DEF T
<1>2. PICK x \in T : \A y \in T : ~(<<y, x>> \in OpToRel(<, Nat))
  BY <1>1, NatLessThanWellFounded, WFMin
<1>3. \A y \in T : ~(y < x)
  BY <1>1, <1>2 DEF OpToRel
<1>4. x \in Nat /\ x # 0 /\ x - 1 \in Nat
  BY DEF T
<1>5. x - 1 \in S
  BY <1>3, <1>4 DEF T
<1> QED
  BY <1>4, <1>5 DEF T

\* A set that has 0, and with each number below n the next, has 0 .. n.
LEMMA Induction ==
  ASSUME NEW n \in Nat, NEW S, 0 \in S, \A k \in 0 .. n - 1 : k \in S => k + 1 \in S
  PROVE  0 .. n \subseteq S
<1> DEFINE T == {k \in Nat : k <= n => k \in S}
<1>1. 0 \in T
  OBVIOUS
<1>2. ASSUME NEW k \in Nat, k \in T PROVE k + 1 \in T
  BY <1>2
<1> HIDE DEF T
<1>3. Nat \subseteq T
  BY <1>1, <1>2, SetInduction
<1> QED
  BY <1>3 DEF T

\* f is defined by recursion over 0 .. n, from a.
Iterates(f, n, V, a, step) ==
    /\ f \in [0 .. n -> V] /\ f[0] = a
    /\ \A k \in 1 .. n : f[k] = step[k][f[k - 1]]

\* There is such a function.
LEMMA Recursion ==
  ASSUME NEW n, NEW V, NEW a, NEW step,
         n \in Nat, a \in V, step \in [1 .. n -> [V -> V]]
  PROVE  \E f : Iterates(f, n, V, a, step)
<1> DEFINE Upto(m) == \E f \in [0 .. m -> V] :
                         f[0] = a /\ \A k \in 1 .. m : f[k] = step[k][f[k - 1]]
           S == {m \in 0 .. n : Upto(m)}
<1>1. 0 \in S
  <2> DEFINE f == [k \in 0 .. 0 |-> a]
  <2>1. f \in [0 .. 0 -> V] /\ f[0] = a /\ \A k \in 1 .. 0 : f[k] = step[k][f[k - 1]]
    OBVIOUS
  <2> HIDE DEF f
  <2> QED
    BY <2>1
<1>2. ASSUME NEW m \in 0 .. n - 1, m \in S PROVE m + 1 \in S
  <2> SUFFICES Upto(m + 1)
    OBVIOUS
  <2>1. m \in Nat /\ m + 1 \in 1 .. n
    OBVIOUS
  <2>2. PICK f \in [0 .. m -> V] : f[0] = a /\ \A k \in 1 .. m : f[k] = step[k][f[k - 1]]
    BY <1>2
  <2> DEFINE g == [k \in 0 .. m + 1 |-> IF k = m + 1 THEN step[m + 1][f[m]] ELSE f[k]]
  <2>3. step[m + 1][f[m]] \in V
    <3>1. step[m + 1] \in [V -> V] /\ f[m] \in V
      BY <2>1, <2>2
    <3> QED
      BY <3>1
  <2>4. g \in [0 .. m + 1 -> V]
    BY <2>2, <2>3
  <2>5. g[0] = a
    BY <2>2
  <2>6. ASSUME NEW k \in 1 .. m + 1 PROVE g[k] = step[k][g[k - 1]]
    <3>1. k - 1 \in 0 .. m /\ g[k - 1] = f[k - 1]
      OBVIOUS
    <3>2. CASE k = m + 1
      BY <3>1, <3>2
    <3>3. CASE k # m + 1
      <4>1. k \in 1 .. m /\ g[k] = f[k]
        BY <3>3
      <4> QED
        BY <2>2, <3>1, <4>1
    <3> QED
      BY <3>2, <3>3
  <2> HIDE DEF g
  <2> QED
    BY <2>4, <2>5, <2>6
<1>3. 0 .. n \subseteq S
  <2> HIDE DEF S
  <2> QED
    BY <1>1, <1>2, Induction
<1>4. n \in S
  BY <1>3
<1> QED
  BY <1>4 DEF Iterates

(***************************************************************************)
(* The sender: what goes into the message.                                 *)
(***************************************************************************)

\* One character more in a message.
Put(w, c) == IF Len(w) >= MaxMessage THEN w ELSE
             IF c \in Special /\ Len(w) + 1 < MaxMessage THEN w \o <<Backslash, c>>
             ELSE Append(w, c)

LEMMA Single ==
  ASSUME NEW S, NEW a \in S
  PROVE  <<a>> \in Seq(S)
OBVIOUS

LEMMA Pair ==
  ASSUME NEW S, NEW a \in S, NEW b \in S
  PROVE  <<a, b>> \in Seq(S)
OBVIOUS

LEMMA PutType ==
  ASSUME NEW w \in Text, NEW c \in Character
  PROVE  Put(w, c) \in Text
<1>1. <<Backslash, c>> \in Seq(Character) /\ w \in Seq(Character)
  <2>1. Backslash \in Character
    BY LiteralsAssumption DEF Special
  <2>2. <<Backslash, c>> \in Seq(Character)
    BY <2>1, Pair
  <2> QED
    BY <2>2 DEF Text
<1>2. w \o <<Backslash, c>> \in Seq(Character) /\ Append(w, c) \in Seq(Character)
  BY <1>1, ConcatProperties, AppendProperties
<1> QED
  BY <1>1, <1>2 DEF Put, Text

\* AppendEscaped puts the characters one after another.
LEMMA Escaping ==
  ASSUME NEW p \in Text, NEW s \in Text
  PROVE  \E f \in [0 .. Len(s) -> Text] :
            /\ f[0] = p
            /\ \A k \in 1 .. Len(s) : f[k] = Put(f[k - 1], s[k])
            /\ AppendEscaped(p, s) = f[Len(s)]
<1> DEFINE n == Len(s)
           step == [k \in 1 .. n |-> [w \in Text |-> Put(w, s[k])]]
           Solves(t) == t = [k \in 0 .. Len(s) |-> IF k = 0 THEN p ELSE Put(t[k - 1], s[k])]
           text == CHOOSE t : Solves(t)
<1>1. n \in Nat /\ \A k \in 1 .. n : s[k] \in Character
  BY DEF Text
<1>2. step \in [1 .. n -> [Text -> Text]]
  BY <1>1, PutType
<1>3. \A k \in 1 .. n, w \in Text : step[k][w] = Put(w, s[k])
  OBVIOUS
<1>4. PICK f : Iterates(f, n, Text, p, step)
  <2> HIDE DEF n, step
  <2> QED
    BY <1>1, <1>2, Recursion
<1> HIDE DEF step
<1>5. /\ f \in [0 .. n -> Text] /\ f[0] = p
      /\ \A k \in 1 .. n : f[k] = Put(f[k - 1], s[k])
  <2>1. /\ f \in [0 .. n -> Text] /\ f[0] = p
        /\ \A k \in 1 .. n : f[k] = step[k][f[k - 1]]
    BY <1>4 DEF Iterates
  <2>2. ASSUME NEW k \in 1 .. n PROVE f[k] = Put(f[k - 1], s[k])
    <3>1. f[k - 1] \in Text
      BY <1>1, <2>1
    <3> QED
      BY <1>3, <2>1, <3>1
  <2> QED
    BY <2>1, <2>2
<1>6. Solves(f)
  BY <1>1, <1>5
<1>7. Solves(text)
  <2> HIDE DEF Solves
  <2> QED
    BY <1>6, Zenon
<1>8. AppendEscaped(p, s) = text[Len(s)]
  BY DEF AppendEscaped, Escaped, Put
<1> HIDE DEF text
<1>9. /\ DOMAIN text = 0 .. n /\ text[0] = p
      /\ \A k \in 1 .. n : text[k] = Put(text[k - 1], s[k])
  BY <1>1, <1>7
<1>10. 0 .. n \subseteq {k \in 0 .. n : text[k] \in Text}
  <2> DEFINE S == {k \in 0 .. n : text[k] \in Text}
  <2>1. 0 \in S
    BY <1>1, <1>9
  <2>2. ASSUME NEW k \in 0 .. n - 1, k \in S PROVE k + 1 \in S
    <3>1. k + 1 \in 1 .. n /\ s[k + 1] \in Character
      BY <1>1
    <3>2. text[k + 1] = Put(text[k], s[k + 1])
      BY <1>1, <1>9, <3>1
    <3>3. text[k + 1] \in Text
      BY <2>2, <3>1, <3>2, PutType
    <3> QED
      BY <1>1, <3>1, <3>3
  <2> HIDE DEF S, n
  <2> QED
    BY <1>1, <2>1, <2>2, Induction DEF S
<1>11. text \in [0 .. n -> Text]
  BY <1>7, <1>9, <1>10
<1> QED
  BY <1>8, <1>9, <1>11

(***************************************************************************)
(* The escaped form of a text, a character at a time.                      *)
(***************************************************************************)

Coded(c) == IF c \in Special THEN <<Backslash, c>> ELSE <<c>>

Coding(s) == [k \in 1 .. Len(s) |-> [w \in Text |-> w \o Coded(s[k])]]

\* Code(s)[k]: the escaped form of the first k characters of s.
Code(s) == CHOOSE f : Iterates(f, Len(s), Text, <<>>, Coding(s))

LEMMA CodedType ==
  ASSUME NEW c \in Character
  PROVE  /\ Coded(c) \in Text
         /\ c \in Special => Len(Coded(c)) = 2 /\ Coded(c)[1] = Backslash /\ Coded(c)[2] = c
         /\ c \notin Special => Len(Coded(c)) = 1 /\ Coded(c)[1] = c
<1>1. Backslash \in Character
  BY LiteralsAssumption DEF Special
<1>2. <<Backslash, c>> \in Seq(Character) /\ <<c>> \in Seq(Character)
  BY <1>1, Pair, Single
<1>3. /\ Len(<<Backslash, c>>) = 2 /\ <<Backslash, c>>[1] = Backslash /\ <<Backslash, c>>[2] = c
      /\ Len(<<c>>) = 1 /\ <<c>>[1] = c
  OBVIOUS
<1> QED
  BY <1>2, <1>3 DEF Coded, Text

LEMMA CodeDef ==
  ASSUME NEW s \in Text
  PROVE  /\ Code(s) \in [0 .. Len(s) -> Text] /\ Code(s)[0] = <<>>
         /\ \A k \in 1 .. Len(s) : Code(s)[k] = Code(s)[k - 1] \o Coded(s[k])
<1>1. Len(s) \in Nat /\ \A k \in 1 .. Len(s) : s[k] \in Character
  BY DEF Text
<1>2. Coding(s) \in [1 .. Len(s) -> [Text -> Text]]
  <2>1. ASSUME NEW k \in 1 .. Len(s), NEW w \in Text PROVE w \o Coded(s[k]) \in Text
    BY <1>1, CodedType, ConcatProperties DEF Text
  <2> QED
    BY <2>1 DEF Coding
<1>3. <<>> \in Text
  BY DEF Text
<1>4. Iterates(Code(s), Len(s), Text, <<>>, Coding(s))
  <2>1. \E f : Iterates(f, Len(s), Text, <<>>, Coding(s))
    BY <1>1, <1>2, <1>3, Recursion
  <2> QED
    BY <2>1, Zenon DEF Code
<1>5. /\ Code(s) \in [0 .. Len(s) -> Text] /\ Code(s)[0] = <<>>
      /\ \A k \in 1 .. Len(s) : Code(s)[k] = Coding(s)[k][Code(s)[k - 1]]
  BY <1>4, Zenon DEF Iterates
<1>6. ASSUME NEW k \in 1 .. Len(s) PROVE Code(s)[k] = Code(s)[k - 1] \o Coded(s[k])
  <2>1. Code(s)[k - 1] \in Text
    BY <1>1, <1>5
  <2> QED
    BY <1>5, <2>1 DEF Coding
<1> QED
  BY <1>5, <1>6

\* A step of the code adds one character or two, and the code of a part is a
\* part of the code.
LEMMA CodeStep ==
  ASSUME NEW s \in Text, NEW k \in 1 .. Len(s)
  PROVE  /\ Code(s)[k - 1] \in Seq(Character) /\ Code(s)[k] \in Seq(Character) /\ s[k] \in Character
         /\ Len(Code(s)[k - 1]) \in Nat
         /\ s[k] \in Special => Len(Code(s)[k]) = Len(Code(s)[k - 1]) + 2
         /\ s[k] \notin Special => Len(Code(s)[k]) = Len(Code(s)[k - 1]) + 1
         /\ \A x \in 1 .. Len(Code(s)[k - 1]) : Code(s)[k][x] = Code(s)[k - 1][x]
         /\ s[k] \in Special => /\ Code(s)[k][Len(Code(s)[k - 1]) + 1] = Backslash
                                /\ Code(s)[k][Len(Code(s)[k - 1]) + 2] = s[k]
         /\ s[k] \notin Special => Code(s)[k][Len(Code(s)[k - 1]) + 1] = s[k]
<1>1. Len(s) \in Nat /\ s[k] \in Character /\ k - 1 \in 0 .. Len(s) /\ k \in 0 .. Len(s)
  BY DEF Text
<1>2. PICK w \in Text : w = Code(s)[k - 1]
  BY <1>1, CodeDef
<1>3. PICK z \in Text : z = Coded(s[k])
  BY <1>1, CodedType
<1>4. Code(s)[k] = w \o z
  BY <1>2, <1>3, CodeDef
<1>5. /\ w \o z \in Seq(Character) /\ Len(w \o z) = Len(w) + Len(z)
      /\ \A x \in 1 .. Len(w) + Len(z) : (w \o z)[x] = IF x <= Len(w) THEN w[x] ELSE z[x - Len(w)]
  BY ConcatProperties DEF Text
<1>6. /\ s[k] \in Special => Len(z) = 2 /\ z[1] = Backslash /\ z[2] = s[k]
      /\ s[k] \notin Special => Len(z) = 1 /\ z[1] = s[k]
  BY <1>1, <1>3, CodedType
<1>7. w \in Seq(Character) /\ Len(w) \in Nat
  BY DEF Text
<1>8. \A x \in 1 .. Len(w) : (w \o z)[x] = w[x]
  BY <1>5, <1>6, <1>7
<1>9. s[k] \in Special => (w \o z)[Len(w) + 1] = Backslash /\ (w \o z)[Len(w) + 2] = s[k]
  BY <1>5, <1>6, <1>7
<1>10. s[k] \notin Special => (w \o z)[Len(w) + 1] = s[k]
  BY <1>5, <1>6, <1>7
<1> QED
  BY <1>1, <1>2, <1>4, <1>5, <1>6, <1>7, <1>8, <1>9, <1>10

LEMMA CodePrefix ==
  ASSUME NEW s \in Text, NEW n \in 0 .. Len(s)
  PROVE  \A k \in 0 .. n : /\ Len(Code(s)[k]) <= Len(Code(s)[n])
                           /\ \A x \in 1 .. Len(Code(s)[k]) : Code(s)[n][x] = Code(s)[k][x]
<1> DEFINE Prefix(m) == \A k \in 0 .. m : /\ Len(Code(s)[k]) <= Len(Code(s)[m])
                                          /\ \A x \in 1 .. Len(Code(s)[k]) :
                                                Code(s)[m][x] = Code(s)[k][x]
           S == {m \in 0 .. Len(s) : Prefix(m)}
<1>1. Len(s) \in Nat /\ \A m \in 0 .. Len(s) : Len(Code(s)[m]) \in Nat
  BY CodeDef DEF Text
<1>2. 0 \in S
  BY <1>1
<1>3. ASSUME NEW m \in 0 .. Len(s) - 1, m \in S PROVE m + 1 \in S
  <2>1. m + 1 \in 1 .. Len(s) /\ (m + 1) - 1 = m
    BY <1>1
  <2>2. /\ Len(Code(s)[m]) <= Len(Code(s)[m + 1])
        /\ \A x \in 1 .. Len(Code(s)[m]) : Code(s)[m + 1][x] = Code(s)[m][x]
    <3>1. PICK k \in 1 .. Len(s) : k = m + 1 /\ k - 1 = m
      BY <2>1
    <3>2. /\ Len(Code(s)[k - 1]) \in Nat
          /\ Len(Code(s)[k]) = Len(Code(s)[k - 1]) + 2 \/ Len(Code(s)[k]) = Len(Code(s)[k - 1]) + 1
          /\ \A x \in 1 .. Len(Code(s)[k - 1]) : Code(s)[k][x] = Code(s)[k - 1][x]
      BY CodeStep
    <3>3. Len(Code(s)[k - 1]) <= Len(Code(s)[k])
      <4> DEFINE here == Len(Code(s)[k])
                 there == Len(Code(s)[k - 1])
      <4>1. there \in Nat /\ (here = there + 2 \/ here = there + 1)
        BY <3>2
      <4> HIDE DEF here, there
      <4>2. there <= here
        BY <4>1
      <4> QED
        BY <4>2 DEF here, there
    <3> QED
      BY <3>1, <3>2, <3>3
  <2>3. ASSUME NEW k \in 0 .. m + 1
        PROVE  /\ Len(Code(s)[k]) <= Len(Code(s)[m + 1])
               /\ \A x \in 1 .. Len(Code(s)[k]) : Code(s)[m + 1][x] = Code(s)[k][x]
    <3>1. CASE k = m + 1
      BY <1>1, <2>1, <3>1
    <3>2. CASE k # m + 1
      <4>1. k \in 0 .. m
        BY <3>2
      <4>2. /\ Len(Code(s)[k]) <= Len(Code(s)[m])
            /\ \A x \in 1 .. Len(Code(s)[k]) : Code(s)[m][x] = Code(s)[k][x]
        BY <1>3, <4>1
      <4>3. Len(Code(s)[k]) \in Nat /\ Len(Code(s)[m]) \in Nat /\ Len(Code(s)[m + 1]) \in Nat
        BY <1>1, <2>1, <4>1
      <4> QED
        BY <2>2, <4>2, <4>3
    <3> QED
      BY <3>1, <3>2
  <2> QED
    BY <1>1, <2>1, <2>3
<1>4. 0 .. Len(s) \subseteq S
  <2> HIDE DEF S
  <2> QED
    BY <1>1, <1>2, <1>3, Induction
<1> QED
  BY <1>4

(***************************************************************************)
(* The receiver: the escapes of a field are undone.                        *)
(***************************************************************************)

Decodings == [text : Text, escaped : BOOLEAN]

\* One character of the field w.
Decode(w, st, k) ==
    IF ~st.escaped /\ w[k] = Backslash /\ k < Len(w) /\ w[k + 1] \in Special
    THEN [st EXCEPT !.escaped = TRUE]
    ELSE [text |-> Append(st.text, w[k]), escaped |-> FALSE]

LEMMA DecodeType ==
  ASSUME NEW w \in Text, NEW st \in Decodings, NEW k \in 1 .. Len(w)
  PROVE  Decode(w, st, k) \in Decodings
<1>1. st.text \in Seq(Character) /\ w[k] \in Character
  BY DEF Decodings, Text
<1>2. Append(st.text, w[k]) \in Text
  BY <1>1, AppendProperties DEF Text
<1>3. [st EXCEPT !.escaped = TRUE] \in Decodings
  BY DEF Decodings
<1> QED
  BY <1>2, <1>3 DEF Decode, Decodings

\* A character that is not taken for an escape, one that is, and one after it.
LEMMA Replaced ==
  ASSUME NEW x, NEW y, NEW z
  PROVE  [[text |-> x, escaped |-> y] EXCEPT !.escaped = z] = [text |-> x, escaped |-> z]
OBVIOUS

LEMMA DecodePlain ==
  ASSUME NEW w, NEW k, NEW x, ~(w[k] = Backslash /\ k < Len(w) /\ w[k + 1] \in Special)
  PROVE  Decode(w, [text |-> x, escaped |-> FALSE], k) = [text |-> Append(x, w[k]), escaped |-> FALSE]
<1>1. [text |-> x, escaped |-> FALSE].text = x /\ [text |-> x, escaped |-> FALSE].escaped = FALSE
  OBVIOUS
<1> QED
  BY <1>1 DEF Decode

LEMMA DecodeBackslash ==
  ASSUME NEW w, NEW k, NEW x, w[k] = Backslash, k < Len(w), w[k + 1] \in Special
  PROVE  Decode(w, [text |-> x, escaped |-> FALSE], k) = [text |-> x, escaped |-> TRUE]
<1> DEFINE st == [text |-> x, escaped |-> FALSE]
<1>1. ~st.escaped
  OBVIOUS
<1>2. [st EXCEPT !.escaped = TRUE] = [text |-> x, escaped |-> TRUE]
  BY Replaced
<1> HIDE DEF st
<1>3. Decode(w, st, k) = [st EXCEPT !.escaped = TRUE]
  BY <1>1 DEF Decode
<1> QED
  BY <1>2, <1>3 DEF st

LEMMA DecodeEscaped ==
  ASSUME NEW w, NEW k, NEW x
  PROVE  Decode(w, [text |-> x, escaped |-> TRUE], k) = [text |-> Append(x, w[k]), escaped |-> FALSE]
<1>1. [text |-> x, escaped |-> TRUE].text = x /\ [text |-> x, escaped |-> TRUE].escaped = TRUE
  OBVIOUS
<1> QED
  BY <1>1 DEF Decode

LEMMA Unescaping ==
  ASSUME NEW w \in Text
  PROVE  \E f \in [0 .. Len(w) -> Decodings] :
            /\ f[0] = [text |-> <<>>, escaped |-> FALSE]
            /\ \A k \in 1 .. Len(w) : f[k] = Decode(w, f[k - 1], k)
            /\ Unescape(w) = f[Len(w)].text
<1> DEFINE n == Len(w)
           a == [text |-> <<>>, escaped |-> FALSE]
           step == [k \in 1 .. n |-> [st \in Decodings |-> Decode(w, st, k)]]
           Solves(t) == t = [k \in 0 .. Len(w) |-> IF k = 0 THEN [text |-> <<>>, escaped |-> FALSE]
                                                   ELSE Decode(w, t[k - 1], k)]
           scan == CHOOSE t : Solves(t)
<1>1. n \in Nat /\ a \in Decodings
  BY DEF Text, Decodings
<1>2. step \in [1 .. n -> [Decodings -> Decodings]]
  BY <1>1, DecodeType
<1>3. \A k \in 1 .. n, st \in Decodings : step[k][st] = Decode(w, st, k)
  OBVIOUS
<1>4. PICK f : Iterates(f, n, Decodings, a, step)
  <2> HIDE DEF n, step, a
  <2> QED
    BY <1>1, <1>2, Recursion
<1> HIDE DEF step
<1>5. /\ f \in [0 .. n -> Decodings] /\ f[0] = a
      /\ \A k \in 1 .. n : f[k] = Decode(w, f[k - 1], k)
  <2>1. /\ f \in [0 .. n -> Decodings] /\ f[0] = a
        /\ \A k \in 1 .. n : f[k] = step[k][f[k - 1]]
    BY <1>4 DEF Iterates
  <2>2. ASSUME NEW k \in 1 .. n PROVE f[k] = Decode(w, f[k - 1], k)
    <3>1. f[k - 1] \in Decodings
      BY <1>1, <2>1
    <3> QED
      BY <1>3, <2>1, <3>1
  <2> QED
    BY <2>1, <2>2
<1>6. Solves(f)
  BY <1>1, <1>5
<1>7. Solves(scan)
  <2> HIDE DEF Solves
  <2> QED
    BY <1>6, Zenon
<1>8. Unescape(w) = scan[Len(w)].text
  BY DEF Unescape, Decode
<1> HIDE DEF scan
<1>9. /\ DOMAIN scan = 0 .. n /\ scan[0] = a
      /\ \A k \in 1 .. n : scan[k] = Decode(w, scan[k - 1], k)
  <2>1. scan = [k \in 0 .. n |-> IF k = 0 THEN a ELSE Decode(w, scan[k - 1], k)]
    BY <1>7
  <2> HIDE DEF n, a
  <2>2. DOMAIN scan = 0 .. n
    BY <2>1
  <2>3. scan[0] = a
    BY <1>1, <2>1
  <2>4. ASSUME NEW k \in 1 .. n PROVE scan[k] = Decode(w, scan[k - 1], k)
    BY <1>1, <2>1
  <2> QED
    BY <2>2, <2>3, <2>4
<1>10. 0 .. n \subseteq {k \in 0 .. n : scan[k] \in Decodings}
  <2> DEFINE S == {k \in 0 .. n : scan[k] \in Decodings}
  <2>1. 0 \in S
    <3> HIDE DEF a
    <3> QED
      BY <1>1, <1>9
  <2>2. ASSUME NEW k \in 0 .. n - 1, k \in S PROVE k + 1 \in S
    <3>1. k + 1 \in 1 .. n
      BY <1>1
    <3>2. scan[k + 1] = Decode(w, scan[k], k + 1)
      BY <1>1, <1>9, <3>1
    <3>3. scan[k + 1] \in Decodings
      BY <2>2, <3>1, <3>2, DecodeType
    <3> QED
      BY <1>1, <3>1, <3>3
  <2> HIDE DEF S, n
  <2> QED
    BY <1>1, <2>1, <2>2, Induction DEF S
<1>11. scan \in [0 .. n -> Decodings]
  BY <1>7, <1>9, <1>10
<1> QED
  BY <1>8, <1>9, <1>11

LEMMA Grown ==
  ASSUME NEW s \in Text, NEW j \in 0 .. Len(s) - 1
  PROVE  Append(SubSeq(s, 1, j), s[j + 1]) = SubSeq(s, 1, j + 1)
<1>1. s \in Seq(Character) /\ Len(s) \in Nat /\ j + 1 \in 1 .. Len(s) /\ j \in Nat
  BY DEF Text
<1> QED
  BY <1>1

\* Undoing the escapes of a coded text, perhaps with a backslash after it that
\* has lost what it escapes.
LEMMA Undone ==
  ASSUME NEW s \in Text, NEW n \in 0 .. Len(s), NEW z \in {<<>>, <<Backslash>>}
  PROVE  /\ Code(s)[n] \o z \in Text
         /\ Unescape(Code(s)[n] \o z) = SubSeq(s, 1, n) \o z
<1> DEFINE c(k) == Code(s)[k]
           w == Code(s)[n] \o z
<1>1. /\ s \in Seq(Character) /\ Len(s) \in Nat /\ n \in Nat /\ n <= Len(s)
      /\ Backslash \in Character /\ \A k \in 1 .. Len(s) : s[k] \in Character
  BY LiteralsAssumption DEF Text, Special
<1>2. /\ c(n) \in Seq(Character) /\ z \in Seq(Character) /\ Len(c(n)) \in Nat
      /\ Len(z) = (IF z = <<>> THEN 0 ELSE 1) /\ z # <<>> => z[1] = Backslash
  <2>1. <<Backslash>> \in Seq(Character) /\ Len(<<Backslash>>) = 1 /\ <<Backslash>>[1] = Backslash
    BY <1>1, Single
  <2>2. z \in Seq(Character)
    <3>1. <<>> \in Seq(Character)
      OBVIOUS
    <3> QED
      BY <2>1, <3>1, Zenon
  <2>3. Len(z) = (IF z = <<>> THEN 0 ELSE 1)
    BY <2>1
  <2>4. z # <<>> => z[1] = Backslash
    BY <2>1
  <2>5. c(n) \in Seq(Character)
    BY CodeDef DEF Text
  <2>6. Len(c(n)) \in Nat
    BY <2>5
  <2> QED
    BY <2>2, <2>3, <2>4, <2>5, <2>6
<1>3. /\ w \in Seq(Character) /\ Len(w) = Len(c(n)) + Len(z)
      /\ \A x \in 1 .. Len(c(n)) + Len(z) : w[x] = IF x <= Len(c(n)) THEN c(n)[x] ELSE z[x - Len(c(n))]
  BY <1>2, ConcatProperties
<1>4. w \in Text
  BY <1>3 DEF Text
<1> HIDE DEF w
<1>5. PICK f \in [0 .. Len(w) -> Decodings] :
         /\ f[0] = [text |-> <<>>, escaped |-> FALSE]
         /\ \A k \in 1 .. Len(w) : f[k] = Decode(w, f[k - 1], k)
         /\ Unescape(w) = f[Len(w)].text
  BY <1>4, Unescaping
<1> DEFINE ReadTo(k) == f[Len(c(k))] = [text |-> SubSeq(s, 1, k), escaped |-> FALSE]
           S == {k \in 0 .. n : ReadTo(k)}
<1>6. 0 \in S
  <2>1. c(0) = <<>>
    BY CodeDef
  <2>2. Len(<<>>) = 0 /\ SubSeq(s, 1, 0) = <<>>
    BY <1>1
  <2>3. f[0] = [text |-> SubSeq(s, 1, 0), escaped |-> FALSE]
    BY <1>5, <2>2, Zenon
  <2>4. Len(c(0)) = 0
    BY <2>1, <2>2, Zenon
  <2>5. ReadTo(0)
    BY <2>3, <2>4, Zenon
  <2>6. 0 \in 0 .. n
    BY <1>1
  <2> QED
    BY <2>5, <2>6, Zenon
<1>7. ASSUME NEW j \in 0 .. n - 1, j \in S PROVE j + 1 \in S
  <2>1. j \in 0 .. Len(s) - 1 /\ j + 1 \in 0 .. n /\ j \in Nat
    BY <1>1
  <2>2. PICK k \in 1 .. Len(s) : k = j + 1 /\ k - 1 = j
    BY <1>1
  <2> DEFINE l == Len(c(j))
             m == Len(c(j + 1))
             e == s[j + 1]
  <2> HIDE DEF c
  <2>3. /\ l \in Nat /\ e \in Character
        /\ e \in Special => m = l + 2
        /\ e \notin Special => m = l + 1
        /\ e \in Special => c(j + 1)[l + 1] = Backslash /\ c(j + 1)[l + 2] = e
        /\ e \notin Special => c(j + 1)[l + 1] = e
    <3>1. /\ Len(c(k - 1)) \in Nat /\ s[k] \in Character
          /\ s[k] \in Special => Len(c(k)) = Len(c(k - 1)) + 2
          /\ s[k] \notin Special => Len(c(k)) = Len(c(k - 1)) + 1
          /\ s[k] \in Special => /\ c(k)[Len(c(k - 1)) + 1] = Backslash
                                 /\ c(k)[Len(c(k - 1)) + 2] = s[k]
          /\ s[k] \notin Special => c(k)[Len(c(k - 1)) + 1] = s[k]
      BY CodeStep DEF c
    <3> QED
      BY <2>2, <3>1, Zenon
  <2>4. m \in Nat
    <3> HIDE DEF l, m, e
    <3>1. l \in Nat /\ (m = l + 2 \/ m = l + 1)
      BY <2>3, Zenon
    <3> QED
      BY <3>1
  <2>5. m <= Len(c(n)) /\ \A x \in 1 .. m : c(n)[x] = c(j + 1)[x]
    BY <2>1, CodePrefix DEF c
  <2>6. Len(z) \in Nat
    BY <1>2
  <2>7. m \in Nat /\ m <= Len(w) /\ \A x \in 1 .. m : w[x] = c(j + 1)[x]
    <3>1. m \in Nat
      BY <2>4
    <3>2. m <= Len(w)
      BY <1>2, <1>3, <2>5, <2>6, <3>1
    <3>3. ASSUME NEW x \in 1 .. m PROVE w[x] = c(j + 1)[x]
      <4>1. x \in 1 .. Len(c(n)) + Len(z) /\ x <= Len(c(n))
        BY <1>2, <2>5, <2>6, <3>1
      <4> QED
        BY <1>3, <2>5, <4>1
    <3> QED
      BY <3>1, <3>2, <3>3
  <2>8. f[l] = [text |-> SubSeq(s, 1, j), escaped |-> FALSE]
    BY <1>7 DEF c
  <2>9. Append(SubSeq(s, 1, j), e) = SubSeq(s, 1, j + 1)
    BY <2>1, Grown
  <2> HIDE DEF l, m, e
  <2>10. CASE e \notin Special
    <3>1. m = l + 1 /\ l + 1 \in 1 .. Len(w) /\ w[l + 1] = e /\ (l + 1) - 1 = l
      <4>1. m = l + 1 /\ c(j + 1)[l + 1] = e
        BY <2>3, <2>10
      <4> QED
        <5>1. l \in Nat /\ Len(w) \in Nat /\ m <= Len(w)
          BY <1>3, <2>3, <2>7
        <5>2. l + 1 \in 1 .. m /\ l + 1 \in 1 .. Len(w) /\ (l + 1) - 1 = l
          BY <4>1, <5>1
        <5>3. w[l + 1] = e
          BY <2>7, <4>1, <5>2, Zenon
        <5> QED
          BY <4>1, <5>2, <5>3
    <3>2. w[l + 1] # Backslash
      BY <2>10, <3>1 DEF Special
    <3>3. f[l + 1] = Decode(w, f[l], l + 1)
      BY <1>5, <3>1
    <3>4. f[l + 1] = [text |-> SubSeq(s, 1, j + 1), escaped |-> FALSE]
      BY <2>8, <2>9, <3>1, <3>2, <3>3, DecodePlain
    <3> QED
      BY <2>1, <3>1, <3>4 DEF m, c
  <2>11. CASE e \in Special
    <3>1. /\ m = l + 2 /\ l + 1 \in 1 .. Len(w) /\ l + 2 \in 1 .. Len(w) /\ l + 1 < Len(w)
          /\ (l + 1) - 1 = l /\ (l + 2) - 1 = l + 1 /\ (l + 1) + 1 = l + 2
          /\ w[l + 1] = Backslash /\ w[l + 2] = e
      BY <2>3, <2>4, <2>7, <2>11
    <3>2. f[l + 1] = [text |-> SubSeq(s, 1, j), escaped |-> TRUE]
      <4>1. f[l + 1] = Decode(w, f[l], l + 1)
        BY <1>5, <3>1
      <4> QED
        BY <2>8, <2>11, <3>1, <4>1, DecodeBackslash
    <3>3. f[l + 2] = [text |-> SubSeq(s, 1, j + 1), escaped |-> FALSE]
      <4>1. f[l + 2] = Decode(w, f[l + 1], l + 2)
        BY <1>5, <3>1
      <4> QED
        BY <2>9, <3>1, <3>2, <4>1, DecodeEscaped
    <3> QED
      BY <2>1, <3>1, <3>3 DEF m, c
  <2> QED
    BY <2>10, <2>11
<1>8. ReadTo(n)
  <2>1. 0 .. n \subseteq S
    <3> HIDE DEF S
    <3> QED
      BY <1>1, <1>6, <1>7, Induction
  <2> QED
    BY <1>1, <2>1
<1>9. CASE z = <<>>
  <2>1. w = c(n) /\ SubSeq(s, 1, n) \o z = SubSeq(s, 1, n)
    BY <1>1, <1>2, <1>9 DEF w
  <2> QED
    BY <1>4, <1>5, <1>8, <2>1 DEF w
<1>10. CASE z = <<Backslash>>
  <2> DEFINE l == Len(c(n))
  <2>1. l \in Nat /\ Len(w) = l + 1 /\ l + 1 \in 1 .. Len(w) /\ (l + 1) - 1 = l
    BY <1>2, <1>3, <1>10
  <2>2. f[l + 1] = Decode(w, f[l], l + 1)
    BY <1>5, <2>1
  <2>3. w[l + 1] = Backslash
    BY <1>2, <1>3, <1>10, <2>1
  <2>4. f[l + 1].text = Append(SubSeq(s, 1, n), Backslash)
    <3>1. ~(l + 1 < Len(w))
      BY <2>1
    <3>2. f[l + 1] = [text |-> Append(SubSeq(s, 1, n), Backslash), escaped |-> FALSE]
      BY <1>8, <2>2, <2>3, <3>1, DecodePlain
    <3> QED
      BY <3>2
  <2>5. Append(SubSeq(s, 1, n), Backslash) = SubSeq(s, 1, n) \o z
    <3>1. SubSeq(s, 1, n) \in Seq(Character)
      BY <1>1
    <3> QED
      BY <1>1, <1>10, <3>1, AppendIsConcat
  <2> QED
    BY <1>4, <1>5, <2>1, <2>4, <2>5 DEF w
<1> QED
  BY <1>9, <1>10

(***************************************************************************)
(* Sequences that grow at their end.                                       *)
(***************************************************************************)

LEMMA AppendedItem ==
  ASSUME NEW S, NEW F \in Seq(S), NEW x \in S
  PROVE /\ Append(F, x) \in Seq(S) /\ Len(F) \in Nat /\ Len(Append(F, x)) = Len(F) + 1
        /\ Append(F, x)[Len(F) + 1] = x /\ \A h \in 1 .. Len(F) : Append(F, x)[h] = F[h]
BY AppendProperties

LEMMA ReplacedLast ==
  ASSUME NEW S, NEW F \in Seq(S), NEW x \in S, NEW y \in S
  PROVE  [Append(F, x) EXCEPT ![Len(F) + 1] = y] = Append(F, y)
<1> DEFINE g == Append(F, x)
           n == Len(F) + 1
           a == [g EXCEPT ![n] = y]
           b == Append(F, y)
<1>1. g \in Seq(S) /\ n \in 1 .. Len(g) /\ Len(g) = n /\ \A h \in 1 .. n - 1 : g[h] = F[h]
  BY AppendedItem
<1>2. b \in Seq(S) /\ Len(b) = n /\ b[n] = y /\ \A h \in 1 .. n - 1 : b[h] = F[h]
  BY AppendedItem
<1> HIDE DEF g, n, b
<1>3. /\ a \in Seq(S) /\ Len(a) = n
      /\ \A j \in 1 .. n : a[j] = IF j = n THEN y ELSE g[j]
  BY <1>1, ExceptSeq
<1>4. n \in Nat
  BY DEF n
<1> HIDE DEF a
<1>5. \A j \in 1 .. n : a[j] = b[j]
  BY <1>1, <1>2, <1>3, <1>4
<1>6. a = b
  BY <1>2, <1>3, <1>5, SeqEqual
<1> QED
  BY <1>6 DEF a, b, g, n

(***************************************************************************)
(* The receiver: the message is split at its bars.                         *)
(***************************************************************************)

\* One character of the message; nothing is escaped after the last one.
ScanStep(st, c, last) ==
    LET n == Len(st.fields)
        kept(escaped) == [fields |-> [st.fields EXCEPT ![n] = Append(@, c)],
                          escaped |-> escaped, closed |-> FALSE]
    IN  IF st.closed THEN st
        ELSE IF st.escaped THEN kept(FALSE)
        ELSE IF c # Bar THEN kept(c = Backslash /\ ~last)
        ELSE IF n = MaxFields THEN [st EXCEPT !.closed = TRUE]
        ELSE [st EXCEPT !.fields = Append(@, <<>>)]

Unread == [fields |-> <<<<>>>>, escaped |-> FALSE, closed |-> FALSE]

\* Having read w, of which more may follow, the splitter is in state st.
Reads(w, st) ==
    \E f : /\ DOMAIN f = 0 .. Len(w) /\ f[0] = Unread /\ f[Len(w)] = st
           /\ \A k \in 1 .. Len(w) : f[k] = ScanStep(f[k - 1], w[k], FALSE)

LEMMA ReadsNothing == Reads(<<>>, Unread)
<1> DEFINE f == [k \in 0 .. 0 |-> Unread]
<1>1. DOMAIN f = 0 .. 0 /\ f[0] = Unread
  OBVIOUS
<1>2. Len(<<>>) = 0
  OBVIOUS
<1> HIDE DEF f
<1> QED
  BY <1>1, <1>2 DEF Reads

LEMMA ReadsOneMore ==
  ASSUME NEW w \in Text, NEW c \in Character, NEW st, Reads(w, st)
  PROVE  Reads(Append(w, c), ScanStep(st, c, FALSE))
<1> DEFINE v == Append(w, c)
           n == Len(w)
<1>1. PICK f : /\ DOMAIN f = 0 .. n /\ f[0] = Unread /\ f[n] = st
               /\ \A k \in 1 .. n : f[k] = ScanStep(f[k - 1], w[k], FALSE)
  BY DEF Reads
<1>2. n \in Nat /\ Len(v) = n + 1 /\ v[n + 1] = c /\ \A k \in 1 .. n : v[k] = w[k]
  <2>1. w \in Seq(Character)
    BY DEF Text
  <2>2. /\ Len(Append(w, c)) = Len(w) + 1 /\ Append(w, c)[Len(w) + 1] = c
        /\ \A k \in 1 .. Len(w) : Append(w, c)[k] = w[k]
    BY <2>1, AppendedItem
  <2>3. Len(w) \in Nat
    BY <2>1
  <2> QED
    BY <2>2, <2>3
<1> HIDE DEF n, v
<1> DEFINE g == [k \in 0 .. n + 1 |-> IF k = n + 1 THEN ScanStep(st, c, FALSE) ELSE f[k]]
<1>3. /\ DOMAIN g = 0 .. n + 1 /\ g[n + 1] = ScanStep(st, c, FALSE)
      /\ \A k \in 0 .. n : g[k] = f[k]
  <2>1. n + 1 \in 0 .. n + 1 /\ \A k \in 0 .. n : k \in 0 .. n + 1 /\ k # n + 1
    BY <1>2
  <2> QED
    BY <2>1, Zenon
<1> HIDE DEF g
<1>4. g[0] = Unread
  BY <1>1, <1>2, <1>3
<1>5. ASSUME NEW k \in 1 .. n + 1 PROVE g[k] = ScanStep(g[k - 1], v[k], FALSE)
  <2>1. CASE k = n + 1
    <3>1. k - 1 = n /\ n \in 0 .. n
      BY <1>2, <2>1
    <3>2. g[k - 1] = st
      BY <1>1, <1>3, <3>1, Zenon
    <3> QED
      BY <1>2, <1>3, <2>1, <3>2, Zenon
  <2>2. CASE k # n + 1
    <3>1. k \in 1 .. n /\ k \in 0 .. n /\ k - 1 \in 0 .. n
      BY <1>2, <2>2
    <3> QED
      BY <1>1, <1>2, <1>3, <3>1, Zenon
  <2> QED
    BY <2>1, <2>2
<1> QED
  BY <1>2, <1>3, <1>4, <1>5, Zenon DEF Reads, v

\* The last character makes a difference only to what is escaped.
LEMMA StepLast ==
  ASSUME NEW st, NEW c
  PROVE  ScanStep(st, c, TRUE).fields = ScanStep(st, c, FALSE).fields
BY DEF ScanStep

LEMMA Splitting ==
  ASSUME NEW w \in Text, NEW st, Reads(w, st)
  PROVE  Split(w) = st.fields
<1> DEFINE n == Len(w)
           Solves(t) == t = [k \in 0 .. Len(w) |->
                               IF k = 0 THEN [fields |-> <<<<>>>>, escaped |-> FALSE, closed |-> FALSE]
                               ELSE ScanStep(t[k - 1], w[k], k = Len(w))]
           scan == CHOOSE t : Solves(t)
<1>1. PICK f : /\ DOMAIN f = 0 .. n /\ f[0] = Unread /\ f[n] = st
               /\ \A k \in 1 .. n : f[k] = ScanStep(f[k - 1], w[k], FALSE)
  BY DEF Reads
<1>2. n \in Nat
  BY DEF Text
<1>3. Split(w) = scan[Len(w)].fields
  BY DEF Split, ScanStep
<1>4. \E t : Solves(t)
  <2> DEFINE t == [k \in 0 .. n |-> IF k = 0 THEN Unread ELSE ScanStep(f[k - 1], w[k], k = n)]
  <2>1. ASSUME NEW k \in 1 .. n PROVE t[k - 1] = f[k - 1]
    <3>1. k - 1 \in 0 .. n /\ k - 1 # n
      BY <1>2
    <3>2. CASE k = 1
      BY <1>1, <1>2, <3>2
    <3>3. CASE k # 1
      <4> DEFINE j == k - 1
      <4>1. j \in 1 .. n /\ j # 0 /\ j # n
        BY <1>2, <3>3
      <4> HIDE DEF j
      <4>2. t[j] = ScanStep(f[j - 1], w[j], FALSE)
        <5>1. j \in 0 .. n /\ (j = n) = FALSE
          BY <1>2, <4>1
        <5> QED
          BY <4>1, <5>1, Zenon
      <4> QED
        BY <1>1, <4>1, <4>2 DEF j
    <3> QED
      BY <3>2, <3>3
  <2>2. t = [k \in 0 .. n |-> IF k = 0 THEN Unread ELSE ScanStep(t[k - 1], w[k], k = n)]
    <3>1. ASSUME NEW k \in 0 .. n
          PROVE  (IF k = 0 THEN Unread ELSE ScanStep(f[k - 1], w[k], k = n))
                   = (IF k = 0 THEN Unread ELSE ScanStep(t[k - 1], w[k], k = n))
      <4>1. k = 0 \/ k \in 1 .. n
        BY <1>2
      <4> QED
        BY <2>1, <4>1, Zenon
    <3> QED
      BY <3>1, Zenon
  <2> HIDE DEF t
  <2>3. Solves(t)
    BY <2>2 DEF Unread
  <2> QED
    BY <2>3
<1>5. Solves(scan)
  <2> HIDE DEF Solves
  <2> QED
    BY <1>4, Zenon
<1> HIDE DEF scan
<1>6. scan = [k \in 0 .. n |-> IF k = 0 THEN Unread ELSE ScanStep(scan[k - 1], w[k], k = n)]
  BY <1>5 DEF Unread
<1>7. /\ scan[0] = Unread
      /\ \A k \in 1 .. n : scan[k] = ScanStep(scan[k - 1], w[k], k = n)
  BY <1>2, <1>6
<1> HIDE DEF Solves, n
<1> DEFINE S == {k \in 0 .. n : k < n => scan[k] = f[k]}
<1>8. 0 \in S
  BY <1>1, <1>2, <1>7
<1>9. ASSUME NEW k \in 0 .. n - 1, k \in S PROVE k + 1 \in S
  <2>1. k + 1 \in 0 .. n /\ k + 1 \in 1 .. n /\ (k + 1) - 1 = k /\ k < n
    BY <1>2
  <2>2. ASSUME k + 1 < n PROVE scan[k + 1] = f[k + 1]
    <3>1. (k + 1 = n) = FALSE
      BY <1>2, <2>2
    <3>2. scan[k + 1] = ScanStep(f[k], w[k + 1], FALSE)
      BY <1>7, <1>9, <2>1, <3>1
    <3> QED
      BY <1>1, <2>1, <3>2
  <2> QED
    BY <2>1, <2>2
<1>10. 0 .. n \subseteq S
  <2> HIDE DEF S
  <2> QED
    BY <1>2, <1>8, <1>9, Induction
<1>11. scan[n].fields = f[n].fields
  <2>1. CASE n = 0
    BY <1>1, <1>7, <2>1
  <2>2. CASE n # 0
    <3>1. n \in 1 .. n /\ n - 1 \in 0 .. n /\ n - 1 < n
      BY <1>2, <2>2
    <3>2. scan[n - 1] = f[n - 1]
      BY <1>10, <3>1
    <3>3. scan[n] = ScanStep(f[n - 1], w[n], TRUE)
      BY <1>7, <3>1, <3>2
    <3>4. f[n] = ScanStep(f[n - 1], w[n], FALSE)
      BY <1>1, <3>1
    <3> QED
      BY <3>3, <3>4, StepLast
  <2> QED
    BY <2>1, <2>2
<1> QED
  BY <1>1, <1>3, <1>11 DEF n

\* The splitter in the middle of a field, of which it has x; and the same
\* after a backslash.
Open(F, x) == [fields |-> Append(F, x), escaped |-> FALSE, closed |-> FALSE]
Half(F, x) == [fields |-> Append(F, x), escaped |-> TRUE, closed |-> FALSE]

LEMMA OpenFields ==
  ASSUME NEW F, NEW x
  PROVE  Open(F, x).fields = Append(F, x) /\ ~Open(F, x).escaped /\ ~Open(F, x).closed
BY DEF Open

LEMMA HalfFields ==
  ASSUME NEW F, NEW x
  PROVE  Half(F, x).fields = Append(F, x) /\ Half(F, x).escaped /\ ~Half(F, x).closed
BY DEF Half

\* A character more in the last field.
LEMMA Lengthened ==
  ASSUME NEW F \in Seq(Text), NEW x \in Text, NEW c \in Character
  PROVE  /\ Len(Append(F, x)) = Len(F) + 1
         /\ [Append(F, x) EXCEPT ![Len(F) + 1] = Append(@, c)] = Append(F, Append(x, c))
<1>1. Len(Append(F, x)) = Len(F) + 1 /\ Append(F, x)[Len(F) + 1] = x
  BY AppendedItem
<1>2. PICK y \in Text : y = Append(x, c)
  BY AppendedItem DEF Text
<1>3. [Append(F, x) EXCEPT ![Len(F) + 1] = y] = Append(F, y)
  BY ReplacedLast
<1>4. [Append(F, x) EXCEPT ![Len(F) + 1] = Append(@, c)] = [Append(F, x) EXCEPT ![Len(F) + 1] = y]
  BY <1>1, <1>2
<1> QED
  BY <1>1, <1>2, <1>3, <1>4

LEMMA Widened ==
  ASSUME NEW x, NEW y, NEW z, NEW a
  PROVE  [[fields |-> x, escaped |-> y, closed |-> z] EXCEPT !.fields = a]
           = [fields |-> a, escaped |-> y, closed |-> z]
OBVIOUS

LEMMA Closed ==
  ASSUME NEW x, NEW y, NEW z, NEW b
  PROVE  [[fields |-> x, escaped |-> y, closed |-> z] EXCEPT !.closed = b].fields = x
OBVIOUS

\* What a character does to the splitter.
LEMMA StepInto ==
  ASSUME NEW st, NEW F \in Seq(Text), NEW x \in Text, NEW c \in Character,
         ~st.closed, st.escaped \/ c # Bar, st.fields = Append(F, x)
  PROVE  /\ st.escaped \/ c # Backslash => ScanStep(st, c, FALSE) = Open(F, Append(x, c))
         /\ ~st.escaped /\ c = Backslash => ScanStep(st, c, FALSE) = Half(F, Append(x, c))
<1> DEFINE n == Len(st.fields)
           kept(e) == [fields |-> [st.fields EXCEPT ![n] = Append(@, c)], escaped |-> e, closed |-> FALSE]
<1>1. [st.fields EXCEPT ![n] = Append(@, c)] = Append(F, Append(x, c))
  BY Lengthened
<1>2. kept(FALSE) = Open(F, Append(x, c))
  BY <1>1 DEF Open
<1>3. kept(TRUE) = Half(F, Append(x, c))
  BY <1>1 DEF Half
<1>4. CASE st.escaped
  <2>1. ScanStep(st, c, FALSE) = kept(FALSE)
    BY <1>4, Zenon DEF ScanStep
  <2> QED
    BY <1>2, <1>4, <2>1, Zenon
<1>5. CASE ~st.escaped
  <2>1. ScanStep(st, c, FALSE) = kept(c = Backslash /\ ~FALSE)
    BY <1>5, Zenon DEF ScanStep
  <2>2. c # Backslash => (c = Backslash /\ ~FALSE) = FALSE
    BY Zenon
  <2>3. c = Backslash => (c = Backslash /\ ~FALSE) = TRUE
    BY Zenon
  <2> QED
    BY <1>2, <1>3, <1>5, <2>1, <2>2, <2>3, Zenon
<1> QED
  BY <1>4, <1>5, Zenon

LEMMA StepPlain ==
  ASSUME NEW F \in Seq(Text), NEW x \in Text, NEW c \in Character, c \notin Special
  PROVE  ScanStep(Open(F, x), c, FALSE) = Open(F, Append(x, c))
<1> DEFINE st == Open(F, x)
<1>1. c # Bar /\ c # Backslash
  BY DEF Special
<1>2. ~st.closed /\ ~st.escaped /\ st.fields = Append(F, x)
  BY OpenFields
<1> HIDE DEF st
<1>3. ScanStep(st, c, FALSE) = Open(F, Append(x, c))
  BY <1>1, <1>2, StepInto, Zenon
<1> QED
  BY <1>3 DEF st

LEMMA StepBackslash ==
  ASSUME NEW F \in Seq(Text), NEW x \in Text
  PROVE  ScanStep(Open(F, x), Backslash, FALSE) = Half(F, Append(x, Backslash))
<1> DEFINE st == Open(F, x)
<1>1. Backslash \in Character /\ Backslash # Bar
  BY LiteralsAssumption DEF Special, Backslash, Bar
<1>2. ~st.closed /\ ~st.escaped /\ st.fields = Append(F, x)
  BY OpenFields
<1> HIDE DEF st
<1>3. ScanStep(st, Backslash, FALSE) = Half(F, Append(x, Backslash))
  BY <1>1, <1>2, StepInto, Zenon
<1> QED
  BY <1>3 DEF st

LEMMA StepEscaped ==
  ASSUME NEW F \in Seq(Text), NEW x \in Text, NEW c \in Character
  PROVE  ScanStep(Half(F, x), c, FALSE) = Open(F, Append(x, c))
<1> DEFINE st == Half(F, x)
<1>1. ~st.closed /\ st.escaped /\ st.fields = Append(F, x)
  BY HalfFields
<1> HIDE DEF st
<1>2. ScanStep(st, c, FALSE) = Open(F, Append(x, c))
  BY <1>1, StepInto, Zenon
<1> QED
  BY <1>2 DEF st

LEMMA NotSix ==
  ASSUME NEW n \in Nat, n # 5
  PROVE  n + 1 # 6
OBVIOUS

LEMMA StepBar ==
  ASSUME NEW F \in Seq(Text), NEW x \in Text, Len(F) # 5
  PROVE  ScanStep(Open(F, x), Bar, FALSE) = Open(Append(F, x), <<>>)
<1> DEFINE st == Open(F, x)
<1>1. ~st.closed /\ ~st.escaped /\ st.fields = Append(F, x) /\ Len(st.fields) = Len(F) + 1
  BY OpenFields, AppendedItem
<1>2. Len(st.fields) # MaxFields
  <2>1. Len(F) \in Nat
    BY AppendedItem
  <2>2. Len(F) + 1 # MaxFields
    BY <2>1, NotSix DEF MaxFields
  <2> QED
    BY <1>1, <2>2, Zenon
<1>3. [st EXCEPT !.fields = Append(Append(F, x), <<>>)] = Open(Append(F, x), <<>>)
  BY Widened DEF Open
<1> HIDE DEF st
<1>4. ScanStep(st, Bar, FALSE) = [st EXCEPT !.fields = Append(@, <<>>)]
  BY <1>1, <1>2, Zenon DEF ScanStep
<1>5. [st EXCEPT !.fields = Append(@, <<>>)] = [st EXCEPT !.fields = Append(Append(F, x), <<>>)]
  BY <1>1, Zenon
<1> QED
  BY <1>3, <1>4, <1>5, Zenon DEF st

LEMMA StepLastBar ==
  ASSUME NEW F \in Seq(Text), NEW x \in Text, Len(F) = 5
  PROVE  ScanStep(Open(F, x), Bar, FALSE).fields = Append(F, x)
<1> DEFINE st == Open(F, x)
<1>1. ~st.closed /\ ~st.escaped /\ st.fields = Append(F, x) /\ Len(st.fields) = Len(F) + 1
  <2>1. ~st.closed /\ ~st.escaped /\ st.fields = Append(F, x)
    BY OpenFields
  <2>2. Len(Append(F, x)) = Len(F) + 1
    BY AppendedItem, Zenon
  <2> QED
    BY <2>1, <2>2, Zenon
<1>2. Len(st.fields) = MaxFields
  <2>1. Len(F) + 1 = MaxFields
    BY DEF MaxFields
  <2> QED
    BY <1>1, <2>1, Zenon
<1>3. [st EXCEPT !.closed = TRUE].fields = Append(F, x)
  BY Closed DEF Open
<1> HIDE DEF st
<1>4. ScanStep(st, Bar, FALSE) = [st EXCEPT !.closed = TRUE]
  BY <1>1, <1>2, Zenon DEF ScanStep
<1> QED
  BY <1>3, <1>4, Zenon DEF st

(***************************************************************************)
(* A field of the message, sent and read.                                  *)
(***************************************************************************)

\* x is the escaped form of s, or what a cut leaves of it: in front of an
\* escaped character, or with the backslash that stands for itself at the end.
Good(x, s) ==
    \E j \in 0 .. Len(s) :
       \/ x = Code(s)[j]
       \/ j < Len(s) /\ s[j + 1] = Backslash /\ x = Append(Code(s)[j], Backslash)

\* w goes on from a message that has the fields F with the first k characters
\* of s, in whole or cut.  Without a cut it has the length l.
Entire(w, F, s, k, l) ==
    Len(w) = l /\ l <= MaxMessage /\ Reads(w, Open(F, Code(s)[k]))

Broken(w, F, s, l) ==
    /\ Len(w) = MaxMessage /\ l > MaxMessage
    /\ \E st, x : /\ Reads(w, st) /\ x \in Text /\ Good(x, s)
                  /\ \/ st.fields = Append(F, x)
                     \/ Len(F) # 5 /\ st.fields = Append(Append(F, x), <<>>)

Plain(s) == \A h \in 1 .. Len(s) : s[h] \notin Special

LEMMA MessageAssumption == MaxMessage \in Nat /\ MaxMessage >= 1 /\ MaxField \in Nat
BY FailureReportAssumption

\* A message that is full stays as it is.
LEMMA PutFull ==
  ASSUME NEW w \in Text, NEW c, Len(w) = MaxMessage
  PROVE  Put(w, c) = w
<1>1. Len(w) >= MaxMessage
  BY MessageAssumption
<1> QED
  BY <1>1 DEF Put

LEMMA AppendTwo ==
  ASSUME NEW S, NEW w \in Seq(S), NEW a \in S, NEW b \in S
  PROVE  /\ Append(w, b) = w \o <<b>>
         /\ Append(Append(w, a), b) = w \o <<a, b>>
<1>1. Append(w, a) \in Seq(S) /\ Append(w, a) = w \o <<a>> /\ Append(w, b) = w \o <<b>>
  BY AppendedItem, AppendIsConcat
<1>2. Append(Append(w, a), b) = (w \o <<a>>) \o <<b>>
  BY <1>1, AppendIsConcat
<1>3. <<a>> \in Seq(S) /\ <<b>> \in Seq(S)
  BY Single
<1>4. (w \o <<a>>) \o <<b>> = w \o (<<a>> \o <<b>>)
  BY <1>3, ConcatAssociative
<1>5. <<a>> \o <<b>> = <<a, b>>
  <2> DEFINE x == <<a>> \o <<b>>
             y == <<a, b>>
  <2>1. Len(<<a>>) = 1 /\ <<a>>[1] = a /\ Len(<<b>>) = 1 /\ <<b>>[1] = b
    OBVIOUS
  <2>2. /\ x \in Seq(S) /\ Len(x) = Len(<<a>>) + Len(<<b>>)
        /\ \A h \in 1 .. Len(<<a>>) + Len(<<b>>) :
              x[h] = IF h <= Len(<<a>>) THEN <<a>>[h] ELSE <<b>>[h - Len(<<a>>)]
    BY <1>3, ConcatProperties
  <2>3. y \in Seq(S) /\ Len(y) = 2 /\ y[1] = a /\ y[2] = b
    BY Pair
  <2> HIDE DEF x, y
  <2>4. Len(x) = 2 /\ x[1] = a /\ x[2] = b
    BY <2>1, <2>2
  <2>5. \A h \in 1 .. Len(x) : x[h] = y[h]
    BY <2>3, <2>4
  <2>6. x = y
    BY <2>2, <2>3, <2>4, <2>5, SeqEqual
  <2> QED
    BY <2>6 DEF x, y
<1> QED
  BY <1>1, <1>2, <1>4, <1>5

LEMMA FieldStep ==
  ASSUME NEW w \in Text, NEW F \in Seq(Text), NEW s \in Text, NEW k \in 1 .. Len(s), NEW l \in Nat,
         Len(F) # 5 \/ Plain(s),
         Entire(w, F, s, k - 1, l) \/ Broken(w, F, s, l)
  PROVE  LET m == l + (Len(Code(s)[k]) - Len(Code(s)[k - 1]))
         IN  Entire(Put(w, s[k]), F, s, k, m) \/ Broken(Put(w, s[k]), F, s, m)
<1> DEFINE c == s[k]
           before == Code(s)[k - 1]
           after == Code(s)[k]
           d == Len(Code(s)[k]) - Len(Code(s)[k - 1])
           v == Put(w, c)
<1>1. /\ Len(w) \in Nat /\ MaxMessage \in Nat /\ c \in Character /\ Len(s) \in Nat
      /\ k \in 0 .. Len(s) /\ k - 1 \in 0 .. Len(s)
  BY MessageAssumption DEF Text
<1>2. /\ before \in Text /\ after \in Text
      /\ c \in Special => d = 2 /\ after = Append(Append(before, Backslash), c)
      /\ c \notin Special => d = 1 /\ after = Append(before, c)
  <2>1. before \in Text /\ after \in Text /\ after = before \o Coded(c)
    BY <1>1, CodeDef
  <2>2. before \in Seq(Character) /\ Backslash \in Character
    BY <2>1, LiteralsAssumption DEF Text, Special
  <2>3. /\ Append(before, c) = before \o <<c>>
        /\ Append(Append(before, Backslash), c) = before \o <<Backslash, c>>
    <3>1. c \in Character
      BY <1>1
    <3> HIDE DEF before, c
    <3> QED
      BY <2>2, <3>1, AppendTwo
  <2>4. /\ Len(before) \in Nat
        /\ c \in Special => Len(after) = Len(before) + 2
        /\ c \notin Special => Len(after) = Len(before) + 1
    BY CodeStep
  <2>5. c \in Special => d = 2
    BY <2>4
  <2>6. c \notin Special => d = 1
    BY <2>4
  <2> QED
    BY <2>1, <2>3, <2>5, <2>6 DEF Coded
<1> HIDE DEF d, before, after, c
<1>3. d = 1 \/ d = 2
  BY <1>2, Zenon
<1>4. CASE Broken(w, F, s, l)
  <2>1. Len(w) = MaxMessage /\ l > MaxMessage
    BY <1>4 DEF Broken
  <2>2. v = w
    BY <2>1, PutFull
  <2>3. l + d > MaxMessage
    BY <1>1, <1>3, <2>1
  <2> QED
    BY <1>4, <2>1, <2>2, <2>3, Zenon DEF Broken, d, c
<1>5. CASE Entire(w, F, s, k - 1, l)
  <2>1. Len(w) = l /\ l <= MaxMessage /\ Reads(w, Open(F, before))
    BY <1>5 DEF Entire, before
  <2>2. CASE l = MaxMessage
    <3>1. v = w
      BY <2>1, <2>2, PutFull
    <3>2. l + d > MaxMessage
      BY <1>1, <1>3, <2>2
    <3>3. Good(before, s)
      BY <1>1 DEF Good, before
    <3>4. Open(F, before).fields = Append(F, before)
      BY OpenFields
    <3> QED
      BY <1>2, <2>1, <2>2, <3>1, <3>2, <3>3, <3>4, Zenon DEF Broken, d, c
  <2>3. CASE l < MaxMessage /\ c \notin Special
    <3>1. v = Append(w, c)
      BY <1>1, <2>1, <2>3 DEF Put
    <3>2. Reads(v, Open(F, after))
      <4>1. ScanStep(Open(F, before), c, FALSE) = Open(F, after)
        BY <1>1, <1>2, <2>3, StepPlain, Zenon
      <4> QED
        BY <1>1, <2>1, <3>1, <4>1, ReadsOneMore, Zenon
    <3>3. Len(v) = Len(w) + 1
      BY <1>1, <3>1, AppendedItem DEF Text
    <3>4. Len(v) = l + d /\ l + d <= MaxMessage
      BY <1>1, <1>2, <2>1, <2>3, <3>3
    <3> QED
      BY <3>2, <3>4, Zenon DEF Entire, d, c, after
  <2>4. CASE l + 1 < MaxMessage /\ c \in Special
    <3> DEFINE u == Append(w, Backslash)
    <3>1. Backslash \in Character /\ w \in Seq(Character)
      BY LiteralsAssumption DEF Special, Text
    <3>2. u \in Text /\ Len(u) = Len(w) + 1
      BY <3>1, AppendedItem DEF Text
    <3>3. v = Append(u, c) /\ Len(v) = l + 2
      <4>1. v = w \o <<Backslash, c>>
        BY <1>1, <2>1, <2>4 DEF Put
      <4>2. w \o <<Backslash, c>> = Append(u, c)
        BY <1>1, <3>1
      <4>3. Len(Append(u, c)) = Len(u) + 1
        BY <1>1, <3>2, AppendedItem DEF Text
      <4> QED
        BY <1>1, <2>1, <3>2, <4>1, <4>2, <4>3
    <3>4. Reads(u, Half(F, Append(before, Backslash)))
      <4>1. ScanStep(Open(F, before), Backslash, FALSE) = Half(F, Append(before, Backslash))
        BY <1>2, StepBackslash, Zenon
      <4> QED
        BY <2>1, <3>1, <4>1, ReadsOneMore, Zenon
    <3>5. Append(before, Backslash) \in Text
      BY <1>2, <3>1, AppendedItem DEF Text
    <3>6. Reads(v, Open(F, after))
      <4>1. ScanStep(Half(F, Append(before, Backslash)), c, FALSE)
              = Open(F, Append(Append(before, Backslash), c))
        BY <1>1, <3>5, StepEscaped, Zenon
      <4>2. ScanStep(Half(F, Append(before, Backslash)), c, FALSE) = Open(F, after)
        BY <1>2, <2>4, <4>1, Zenon
      <4> QED
        BY <1>1, <3>2, <3>3, <3>4, <4>2, ReadsOneMore, Zenon
    <3>7. Len(v) = l + d /\ l + d <= MaxMessage
      BY <1>1, <1>2, <2>4, <3>3
    <3> QED
      BY <3>6, <3>7, Zenon DEF Entire, d, c, after
  <2>5. CASE l + 1 = MaxMessage /\ c \in Special
    <3>1. v = Append(w, c)
      BY <1>1, <2>1, <2>5 DEF Put
    <3>2. Len(v) = Len(w) + 1
      BY <1>1, <3>1, AppendedItem DEF Text
    <3>3. Len(v) = MaxMessage /\ l + d > MaxMessage
      BY <1>1, <1>2, <2>1, <2>5, <3>2
    <3>4. Len(F) # 5
      BY <2>5 DEF Plain, c
    <3>5. CASE c = Bar
      <4>1. ScanStep(Open(F, before), Bar, FALSE) = Open(Append(F, before), <<>>)
        BY <1>2, <3>4, StepBar, Zenon
      <4>2. Reads(v, Open(Append(F, before), <<>>))
        BY <1>1, <2>1, <3>1, <3>5, <4>1, ReadsOneMore, Zenon
      <4>3. Open(Append(F, before), <<>>).fields = Append(Append(F, before), <<>>)
        BY OpenFields
      <4>4. Good(before, s)
        BY <1>1 DEF Good, before
      <4> QED
        BY <1>2, <3>3, <3>4, <4>2, <4>3, <4>4, Zenon DEF Broken, d, c
    <3>6. CASE c = Backslash
      <4>1. ScanStep(Open(F, before), c, FALSE) = Half(F, Append(before, Backslash))
        BY <1>2, <3>6, StepBackslash, Zenon
      <4>2. Reads(v, Half(F, Append(before, Backslash)))
        BY <1>1, <2>1, <3>1, <4>1, ReadsOneMore, Zenon
      <4>3. Half(F, Append(before, Backslash)).fields = Append(F, Append(before, Backslash))
        BY HalfFields
      <4>4. Good(Append(before, Backslash), s)
        <5>1. k - 1 < Len(s) /\ (k - 1) + 1 = k
          BY <1>1
        <5>2. s[(k - 1) + 1] = Backslash
          BY <3>6, <5>1, Zenon DEF c
        <5> QED
          BY <1>1, <5>1, <5>2, Zenon DEF Good, before
      <4>5. Append(before, Backslash) \in Text
        BY <1>1, <1>2, <3>6, AppendedItem DEF Text
      <4> QED
        BY <3>3, <4>2, <4>3, <4>4, <4>5, Zenon DEF Broken, d, c
    <3> QED
      BY <2>5, <3>5, <3>6 DEF Special
  <2>6. l = MaxMessage \/ l < MaxMessage
    BY <1>1, <2>1
  <2>7. l < MaxMessage => l + 1 < MaxMessage \/ l + 1 = MaxMessage
    BY <1>1, <2>1
  <2> QED
    BY <2>2, <2>3, <2>4, <2>5, <2>6, <2>7, Zenon
<1> QED
  BY <1>4, <1>5, Zenon

LEMMA EscapedType ==
  ASSUME NEW p \in Text, NEW s \in Text
  PROVE  AppendEscaped(p, s) \in Text
<1>1. Len(s) \in Nat
  BY DEF Text
<1>2. Len(s) \in 0 .. Len(s)
  BY <1>1
<1>3. PICK f \in [0 .. Len(s) -> Text] : AppendEscaped(p, s) = f[Len(s)]
  BY Escaping
<1>4. f[Len(s)] \in Text
  BY <1>2
<1> QED
  BY <1>3, <1>4, Zenon

\* A text that is sent from the start of a field on.
LEMMA TextSent ==
  ASSUME NEW p \in Text, NEW F \in Seq(Text), NEW s \in Text, Len(F) # 5 \/ Plain(s),
         Len(p) <= MaxMessage, Reads(p, Open(F, <<>>))
  PROVE  LET l == Len(p) + Len(Code(s)[Len(s)])
             w == AppendEscaped(p, s)
         IN  Entire(w, F, s, Len(s), l) \/ Broken(w, F, s, l)
<1> DEFINE n == Len(s)
           l(k) == Len(p) + Len(Code(s)[k])
<1>1. n \in Nat /\ Len(p) \in Nat /\ \A k \in 0 .. n : Len(Code(s)[k]) \in Nat
  BY CodeDef DEF Text
<1>2. PICK f \in [0 .. n -> Text] :
         /\ f[0] = p
         /\ \A k \in 1 .. n : f[k] = Put(f[k - 1], s[k])
         /\ AppendEscaped(p, s) = f[n]
  BY Escaping
<1> DEFINE Sent(k) == Entire(f[k], F, s, k, l(k)) \/ Broken(f[k], F, s, l(k))
           S == {k \in 0 .. n : Sent(k)}
<1>3. 0 \in S
  <2>1. Code(s)[0] = <<>>
    BY CodeDef
  <2>2. Len(<<>>) = 0
    OBVIOUS
  <2>3. l(0) = Len(p)
    BY <1>1, <2>1, <2>2
  <2>4. Entire(f[0], F, s, 0, l(0))
    BY <1>2, <2>1, <2>3, Zenon DEF Entire
  <2>5. 0 \in 0 .. n
    BY <1>1
  <2> HIDE DEF l
  <2> QED
    BY <2>4, <2>5, Zenon
<1>4. ASSUME NEW k \in 0 .. n - 1, k \in S PROVE k + 1 \in S
  <2>1. k + 1 \in 1 .. n /\ k + 1 \in 0 .. n /\ k \in 0 .. n
    BY <1>1
  <2>2. PICK j \in 1 .. n : j = k + 1 /\ j - 1 = k
    BY <1>1
  <2>3. l(k) \in Nat /\ f[k] \in Text
    <3>1. Len(Code(s)[k]) \in Nat
      BY <1>1, <2>1
    <3>2. l(k) \in Nat
      BY <1>1, <3>1
    <3>3. f[k] \in Text
      BY <2>1
    <3> QED
      BY <3>2, <3>3
  <2>4. l(k + 1) = l(k) + (Len(Code(s)[k + 1]) - Len(Code(s)[k]))
    <3> DEFINE x == Len(p)
               y == Len(Code(s)[k])
               z == Len(Code(s)[k + 1])
    <3>1. x \in Nat /\ y \in Nat /\ z \in Nat
      BY <1>1, <2>1
    <3> HIDE DEF x, y, z
    <3>2. x + z = (x + y) + (z - y)
      BY <3>1
    <3> QED
      BY <3>2 DEF x, y, z
  <2> HIDE DEF l
  <2>5. Entire(f[k], F, s, k, l(k)) \/ Broken(f[k], F, s, l(k))
    BY <1>4
  <2> DEFINE m == l(k) + (Len(Code(s)[j]) - Len(Code(s)[j - 1]))
  <2>6. Entire(f[k], F, s, j - 1, l(k)) \/ Broken(f[k], F, s, l(k))
    BY <2>2, <2>5, Zenon
  <2>7. Entire(Put(f[k], s[j]), F, s, j, m) \/ Broken(Put(f[k], s[j]), F, s, m)
    BY <2>3, <2>6, FieldStep, Zenon
  <2>8. Put(f[k], s[j]) = f[k + 1]
    BY <1>2, <2>2, Zenon
  <2>9. m = l(k + 1)
    BY <2>2, <2>4, Zenon
  <2>10. Sent(k + 1)
    BY <2>2, <2>7, <2>8, <2>9, Zenon
  <2> HIDE DEF Sent
  <2> QED
    BY <2>1, <2>10, Zenon
<1>5. n \in S
  <2>1. 0 .. n \subseteq S
    <3> HIDE DEF S
    <3> QED
      BY <1>1, <1>3, <1>4, Induction
  <2>2. n \in 0 .. n
    BY <1>1
  <2> HIDE DEF S
  <2> QED
    BY <2>1, <2>2
<1>6. Sent(n)
  <2> HIDE DEF Sent
  <2> QED
    BY <1>5, Zenon
<1> QED
  BY <1>2, <1>6, Zenon

\* What is appended literally.
LEMMA Literal ==
  ASSUME NEW p \in Text, NEW t \in Text
  PROVE  LET w == AppendLiteral(p, t)
             l == Len(p) + Len(t)
         IN  /\ w \in Text /\ l \in Nat /\ Len(w) = IF l < MaxMessage THEN l ELSE MaxMessage
             /\ \A h \in 1 .. Len(w) : w[h] = IF h <= Len(p) THEN p[h] ELSE t[h - Len(p)]
<1> DEFINE q == p \o t
           l == Len(p) + Len(t)
           n == IF Len(q) < MaxMessage THEN Len(q) ELSE MaxMessage
           w == SubSeq(q, 1, n)
<1>1. p \in Seq(Character) /\ t \in Seq(Character) /\ l \in Nat
  BY DEF Text
<1>2. /\ q \in Seq(Character) /\ Len(q) = l
      /\ \A h \in 1 .. l : q[h] = IF h <= Len(p) THEN p[h] ELSE t[h - Len(p)]
  BY <1>1, ConcatProperties
<1>3. MaxMessage \in Nat
  BY MessageAssumption
<1> HIDE DEF q, l
<1>4. n \in Nat /\ n <= l /\ n = IF l < MaxMessage THEN l ELSE MaxMessage
  BY <1>1, <1>2, <1>3
<1> HIDE DEF n
<1>5. w \in Seq(Character) /\ Len(w) = n /\ \A h \in 1 .. n : w[h] = q[h]
  <2>1. 1 \in 1 .. Len(q) + 1 /\ n \in 0 .. Len(q)
    BY <1>1, <1>2, <1>4
  <2> QED
    BY <1>2, <1>4, <2>1
<1>6. AppendLiteral(p, t) = w
  BY DEF AppendLiteral, w, n, q
<1> HIDE DEF w
<1>7. \A h \in 1 .. n : w[h] = IF h <= Len(p) THEN p[h] ELSE t[h - Len(p)]
  BY <1>1, <1>2, <1>4, <1>5
<1> QED
  BY <1>1, <1>4, <1>5, <1>6, <1>7 DEF Text, l

\* A message that is full stays as it is.
LEMMA LiteralFull ==
  ASSUME NEW w \in Text, NEW t \in Text, Len(w) = MaxMessage
  PROVE  AppendLiteral(w, t) = w
<1>1. Len(t) \in Nat /\ MaxMessage \in Nat
  BY MessageAssumption DEF Text
<1> DEFINE v == AppendLiteral(w, t)
<1>2. /\ v \in Text /\ Len(v) = MaxMessage
      /\ \A h \in 1 .. Len(v) : v[h] = IF h <= Len(w) THEN w[h] ELSE t[h - Len(w)]
  BY <1>1, Literal
<1> HIDE DEF v
<1>3. \A h \in 1 .. Len(v) : v[h] = w[h]
  BY <1>1, <1>2
<1>4. v = w
  BY <1>2, <1>3, SeqEqual DEF Text
<1> QED
  BY <1>4 DEF v

LEMMA LiteralOne ==
  ASSUME NEW w \in Text, NEW c \in Character, Len(w) < MaxMessage
  PROVE  AppendLiteral(w, <<c>>) = Append(w, c)
<1>1. /\ Len(w) \in Nat /\ MaxMessage \in Nat /\ <<c>> \in Text /\ Len(<<c>>) = 1 /\ <<c>>[1] = c
      /\ w \in Seq(Character)
  BY MessageAssumption, Single DEF Text
<1> DEFINE v == AppendLiteral(w, <<c>>)
           u == Append(w, c)
<1>2. /\ v \in Text /\ Len(v) = (IF Len(w) + 1 < MaxMessage THEN Len(w) + 1 ELSE MaxMessage)
      /\ \A h \in 1 .. Len(v) : v[h] = IF h <= Len(w) THEN w[h] ELSE <<c>>[h - Len(w)]
  BY <1>1, Literal
<1>3. /\ u \in Seq(Character) /\ Len(u) = Len(w) + 1 /\ u[Len(w) + 1] = c
      /\ \A h \in 1 .. Len(w) : u[h] = w[h]
  BY <1>1, AppendedItem
<1> HIDE DEF u, v
<1>4. Len(v) = Len(w) + 1
  BY <1>1, <1>2
<1>5. \A h \in 1 .. Len(v) : v[h] = u[h]
  BY <1>1, <1>2, <1>3, <1>4
<1>6. v = u
  BY <1>2, <1>3, <1>4, <1>5, SeqEqual DEF Text
<1> QED
  BY <1>6 DEF u, v

LEMMA EscapedFull ==
  ASSUME NEW w \in Text, NEW s \in Text, Len(w) = MaxMessage
  PROVE  AppendEscaped(w, s) = w
<1> DEFINE n == Len(s)
<1>1. n \in Nat
  BY DEF Text
<1>2. PICK f \in [0 .. n -> Text] :
         /\ f[0] = w
         /\ \A k \in 1 .. n : f[k] = Put(f[k - 1], s[k])
         /\ AppendEscaped(w, s) = f[n]
  BY Escaping
<1> DEFINE S == {k \in 0 .. n : f[k] = w}
<1>3. 0 \in S
  BY <1>1, <1>2
<1>4. ASSUME NEW k \in 0 .. n - 1, k \in S PROVE k + 1 \in S
  <2>1. k + 1 \in 1 .. n /\ k + 1 \in 0 .. n /\ (k + 1) - 1 = k
    BY <1>1
  <2>2. f[k + 1] = Put(w, s[k + 1])
    BY <1>2, <1>4, <2>1
  <2>3. f[k + 1] = w
    BY <2>2, PutFull
  <2> QED
    BY <2>1, <2>3
<1>5. 0 .. n \subseteq S
  <2> HIDE DEF S
  <2> QED
    BY <1>1, <1>3, <1>4, Induction
<1> QED
  BY <1>1, <1>2, <1>5

(***************************************************************************)
(* A text without special characters is its own escaped form.              *)
(***************************************************************************)

LEMMA PartOf ==
  ASSUME NEW s \in Text, NEW k \in 0 .. Len(s)
  PROVE  /\ SubSeq(s, 1, k) \in Text /\ Len(SubSeq(s, 1, k)) = k /\ k \in Nat
         /\ \A h \in 1 .. k : SubSeq(s, 1, k)[h] = s[h]
<1>1. s \in Seq(Character) /\ Len(s) \in Nat /\ k \in Nat
  BY DEF Text
<1>2. SubSeq(s, 1, k) \in Seq(Character) /\ Len(SubSeq(s, 1, k)) = k
  BY <1>1
<1>3. \A h \in 1 .. k : SubSeq(s, 1, k)[h] = s[h]
  BY <1>1
<1> QED
  BY <1>1, <1>2, <1>3 DEF Text

LEMMA CodePlain ==
  ASSUME NEW s \in Text, Plain(s)
  PROVE  \A k \in 0 .. Len(s) : Code(s)[k] = SubSeq(s, 1, k)
<1> DEFINE S == {k \in 0 .. Len(s) : Code(s)[k] = SubSeq(s, 1, k)}
<1>1. Len(s) \in Nat /\ s \in Seq(Character)
  BY DEF Text
<1>2. 0 \in S
  <2>1. Code(s)[0] = <<>>
    BY CodeDef
  <2>2. SubSeq(s, 1, 0) = <<>>
    BY <1>1
  <2>3. 0 \in 0 .. Len(s)
    BY <1>1
  <2> QED
    BY <2>1, <2>2, <2>3, Zenon
<1>3. ASSUME NEW k \in 0 .. Len(s) - 1, k \in S PROVE k + 1 \in S
  <2>1. PICK j \in 1 .. Len(s) : j = k + 1 /\ j - 1 = k
    BY <1>1
  <2>2. s[j] \notin Special /\ s[j] \in Character
    BY <1>1 DEF Plain
  <2>3. Code(s)[j] = Code(s)[j - 1] \o <<s[j]>>
    BY <2>2, CodeDef DEF Coded
  <2>4. SubSeq(s, 1, k) \in Seq(Character)
    BY <1>1
  <2>5. Append(SubSeq(s, 1, k), s[j]) = SubSeq(s, 1, k) \o <<s[j]>>
    BY <2>2, <2>4, AppendIsConcat, Zenon
  <2>6. Append(SubSeq(s, 1, k), s[k + 1]) = SubSeq(s, 1, k + 1)
    BY Grown
  <2>7. Code(s)[k] = SubSeq(s, 1, k)
    BY <1>3
  <2>8. Code(s)[k + 1] = SubSeq(s, 1, k + 1)
    BY <2>1, <2>3, <2>5, <2>6, <2>7, Zenon
  <2> QED
    BY <1>1, <2>8
<1>4. 0 .. Len(s) \subseteq S
  <2> HIDE DEF S
  <2> QED
    BY <1>1, <1>2, <1>3, Induction
<1> QED
  BY <1>4

LEMMA LiteralStep ==
  ASSUME NEW p \in Text, Len(p) <= MaxMessage,
         NEW s \in Text, NEW k \in 1 .. Len(s), s[k] \notin Special
  PROVE  Put(AppendLiteral(p, SubSeq(s, 1, k - 1)), s[k]) = AppendLiteral(p, SubSeq(s, 1, k))
<1> DEFINE a == SubSeq(s, 1, k - 1)
           b == SubSeq(s, 1, k)
           w == AppendLiteral(p, a)
           v == AppendLiteral(p, b)
           u == Put(w, s[k])
           m == Len(p) + (k - 1)
<1>1. /\ Len(s) \in Nat /\ k - 1 \in 0 .. Len(s) /\ k \in 0 .. Len(s) /\ Len(p) \in Nat
      /\ MaxMessage \in Nat /\ s[k] \in Character /\ m \in Nat
  BY MessageAssumption DEF Text
<1>2. /\ a \in Text /\ Len(a) = k - 1 /\ \A h \in 1 .. k - 1 : a[h] = s[h]
      /\ b \in Text /\ Len(b) = k /\ \A h \in 1 .. k : b[h] = s[h]
  BY <1>1, PartOf
<1> HIDE DEF a, b
<1>3. /\ w \in Text /\ Len(w) = (IF m < MaxMessage THEN m ELSE MaxMessage)
      /\ \A h \in 1 .. Len(w) : w[h] = IF h <= Len(p) THEN p[h] ELSE a[h - Len(p)]
  BY <1>2, Literal
<1>4. Len(p) + k = m + 1
  BY <1>1
<1>5. /\ v \in Text /\ Len(v) = (IF m + 1 < MaxMessage THEN m + 1 ELSE MaxMessage)
      /\ \A h \in 1 .. Len(v) : v[h] = IF h <= Len(p) THEN p[h] ELSE b[h - Len(p)]
  BY <1>2, <1>4, Literal
<1> HIDE DEF w, v
<1>6. CASE m < MaxMessage
  <2>1. Len(w) = m /\ ~(Len(w) >= MaxMessage) /\ Len(v) = m + 1
    BY <1>1, <1>3, <1>5, <1>6
  <2>2. u = Append(w, s[k])
    BY <2>1 DEF Put
  <2>3. /\ u \in Seq(Character) /\ Len(u) = m + 1 /\ u[m + 1] = s[k]
        /\ \A h \in 1 .. m : u[h] = w[h]
    <3>1. w \in Seq(Character)
      BY <1>3 DEF Text
    <3> QED
      BY <1>1, <2>1, <2>2, <3>1, AppendedItem
  <2> HIDE DEF u
  <2>4. ASSUME NEW h \in 1 .. m + 1 PROVE u[h] = v[h]
    <3>1. CASE h = m + 1
      <4>1. ~(h <= Len(p)) /\ h - Len(p) = k /\ h \in 1 .. Len(v) /\ k \in 1 .. k
        BY <1>1, <1>4, <2>1, <3>1
      <4> QED
        BY <1>2, <1>5, <2>3, <3>1, <4>1
    <3>2. CASE h # m + 1 /\ h <= Len(p)
      <4>1. h \in 1 .. m /\ h \in 1 .. Len(w) /\ h \in 1 .. Len(v)
        BY <1>1, <2>1, <3>2
      <4> QED
        BY <1>3, <1>5, <2>3, <3>2, <4>1
    <3>3. CASE h # m + 1 /\ ~(h <= Len(p))
      <4>1. /\ h \in 1 .. m /\ h \in 1 .. Len(w) /\ h \in 1 .. Len(v)
            /\ h - Len(p) \in 1 .. k - 1 /\ h - Len(p) \in 1 .. k
        BY <1>1, <2>1, <3>3 DEF m
      <4> QED
        BY <1>2, <1>3, <1>5, <2>3, <3>3, <4>1
    <3> QED
      BY <3>1, <3>2, <3>3
  <2>5. u = v
    BY <1>5, <2>1, <2>3, <2>4, SeqEqual DEF Text
  <2> QED
    BY <2>5 DEF u, w, v, a, b
<1>7. CASE ~(m < MaxMessage)
  <2>1. Len(w) = MaxMessage /\ Len(v) = MaxMessage
    BY <1>1, <1>3, <1>5, <1>7
  <2>2. u = w
    BY <1>3, <2>1, PutFull
  <2>3. ASSUME NEW h \in 1 .. Len(w) PROVE w[h] = v[h]
    <3>1. CASE h <= Len(p)
      BY <1>3, <1>5, <2>1, <3>1
    <3>2. CASE ~(h <= Len(p))
      <4>1. h - Len(p) \in 1 .. k - 1 /\ h - Len(p) \in 1 .. k
        BY <1>1, <1>7, <2>1, <3>2
      <4> QED
        BY <1>2, <1>3, <1>5, <2>1, <3>2, <4>1
    <3> QED
      BY <3>1, <3>2
  <2>4. w = v
    BY <1>3, <1>5, <2>1, <2>3, SeqEqual DEF Text
  <2> QED
    BY <2>2, <2>4 DEF u, w, v, a, b
<1> QED
  BY <1>6, <1>7

LEMMA LiteralIsEscaped ==
  ASSUME NEW p \in Text, Len(p) <= MaxMessage, NEW s \in Text, Plain(s)
  PROVE  AppendLiteral(p, s) = AppendEscaped(p, s)
<1> DEFINE n == Len(s)
           w(k) == AppendLiteral(p, SubSeq(s, 1, k))
<1>1. n \in Nat
  BY DEF Text
<1>2. PICK f \in [0 .. n -> Text] :
         /\ f[0] = p
         /\ \A k \in 1 .. n : f[k] = Put(f[k - 1], s[k])
         /\ AppendEscaped(p, s) = f[n]
  BY Escaping
<1> DEFINE S == {k \in 0 .. n : f[k] = w(k)}
<1>3. 0 \in S
  <2>1. SubSeq(s, 1, 0) \in Text /\ Len(SubSeq(s, 1, 0)) = 0
    BY <1>1, PartOf
  <2>2. Len(p) \in Nat /\ MaxMessage \in Nat
    BY MessageAssumption DEF Text
  <2>3. /\ w(0) \in Text /\ Len(w(0)) = Len(p)
        /\ \A h \in 1 .. Len(w(0)) : w(0)[h] = p[h]
    <3> DEFINE z == SubSeq(s, 1, 0)
               v == AppendLiteral(p, z)
    <3> HIDE DEF z
    <3>1. z \in Text /\ Len(z) = 0
      BY <2>1 DEF z
    <3>2. /\ v \in Text /\ Len(v) = (IF Len(p) + Len(z) < MaxMessage THEN Len(p) + Len(z) ELSE MaxMessage)
          /\ \A h \in 1 .. Len(v) : v[h] = IF h <= Len(p) THEN p[h] ELSE z[h - Len(p)]
      BY <3>1, Literal
    <3> HIDE DEF v
    <3>3. Len(v) = Len(p)
      BY <2>2, <3>1, <3>2
    <3>4. \A h \in 1 .. Len(v) : v[h] = p[h]
      BY <2>2, <3>2, <3>3
    <3> QED
      BY <3>2, <3>3, <3>4 DEF v, z
  <2>4. w(0) = p
    <3> HIDE DEF w
    <3> QED
      BY <2>3, SeqEqual DEF Text
  <2> QED
    BY <1>1, <1>2, <2>4
<1>4. ASSUME NEW k \in 0 .. n - 1, k \in S PROVE k + 1 \in S
  <2>1. PICK j \in 1 .. n : j = k + 1 /\ j - 1 = k
    BY <1>1
  <2>2. Put(w(j - 1), s[j]) = w(j)
    BY <2>1, LiteralStep DEF Plain
  <2>3. f[j] = Put(f[j - 1], s[j])
    BY <1>2
  <2>4. f[k] = w(k)
    BY <1>4
  <2>5. f[k + 1] = w(k + 1)
    BY <2>1, <2>2, <2>3, <2>4, Zenon
  <2> QED
    BY <1>1, <2>5
<1>5. 0 .. n \subseteq S
  <2> HIDE DEF S
  <2> QED
    BY <1>1, <1>3, <1>4, Induction
<1>6. f[n] = w(n)
  BY <1>1, <1>5
<1>7. SubSeq(s, 1, n) = s
  BY DEF Text
<1> QED
  BY <1>2, <1>6, <1>7

(***************************************************************************)
(* The message of a report: its kind and then five texts.                  *)
(***************************************************************************)

\* The fields X are those of the texts, or what a cut left of them.
Fits(X, kind, texts) ==
    /\ X \in Seq(Text) /\ Len(X) \in 1 .. 6 /\ X[1] = <<kind>>
    /\ \A h \in 2 .. Len(X) : Good(X[h], texts[h - 1])

\* They are those of the first texts, whole.
Exact(F, kind, texts) ==
    /\ F \in Seq(Text) /\ Len(F) \in 1 .. 6 /\ F[1] = <<kind>>
    /\ \A h \in 2 .. Len(F) : F[h] = Code(texts[h - 1])[Len(texts[h - 1])]

\* The message w has the bar after the fields F; without a cut it has the
\* length l.
Begun(w, F, l, kind, texts) ==
    \/ Len(w) = l /\ l <= MaxMessage /\ Reads(w, Open(F, <<>>))
    \/ Len(w) = MaxMessage /\ l > MaxMessage /\ \E st : Reads(w, st) /\ Fits(st.fields, kind, texts)

LEMMA WholeIsGood ==
  ASSUME NEW s \in Text
  PROVE  /\ Code(s)[Len(s)] \in Text /\ Good(Code(s)[Len(s)], s) /\ Good(<<>>, s)
<1>1. Len(s) \in 0 .. Len(s) /\ 0 \in 0 .. Len(s)
  <2>1. Len(s) \in Nat
    BY DEF Text
  <2> QED
    BY <2>1
<1>2. Code(s)[Len(s)] \in Text
  BY <1>1, CodeDef
<1>3. Code(s)[0] = <<>>
  BY CodeDef
<1> QED
  BY <1>1, <1>2, <1>3, Zenon DEF Good

LEMMA UpToFive ==
  ASSUME NEW n \in 1 .. 6, n <= 5
  PROVE  n \in 1 .. 5
OBVIOUS

\* One more field, whole or in part.
LEMMA FitsMore ==
  ASSUME NEW kind, NEW texts, \A h \in 1 .. 5 : texts[h] \in Text,
         NEW F, Exact(F, kind, texts), Len(F) <= 5, NEW x \in Text, Good(x, texts[Len(F)])
  PROVE  /\ Fits(Append(F, x), kind, texts)
         /\ Len(F) # 5 => Fits(Append(Append(F, x), <<>>), kind, texts)
         /\ x = Code(texts[Len(F)])[Len(texts[Len(F)])] => Exact(Append(F, x), kind, texts)
<1> DEFINE n == Len(F)
           G == Append(F, x)
           H == Append(G, <<>>)
<1>1. /\ F \in Seq(Text) /\ F[1] = <<kind>> /\ n \in 1 .. 5
      /\ \A h \in 2 .. n : F[h] = Code(texts[h - 1])[Len(texts[h - 1])]
  <2>1. /\ F \in Seq(Text) /\ F[1] = <<kind>> /\ Len(F) \in 1 .. 6
        /\ \A h \in 2 .. Len(F) : F[h] = Code(texts[h - 1])[Len(texts[h - 1])]
    BY Zenon DEF Exact
  <2>2. Len(F) \in 1 .. 5
    BY <2>1, UpToFive
  <2> QED
    BY <2>1, <2>2, Zenon
<1>2. /\ G \in Seq(Text) /\ Len(G) = n + 1 /\ G[n + 1] = x /\ \A h \in 1 .. n : G[h] = F[h]
  BY <1>1, AppendedItem
<1>3. <<>> \in Text
  BY DEF Text
<1>4. /\ H \in Seq(Text) /\ Len(H) = Len(G) + 1 /\ H[Len(G) + 1] = <<>>
      /\ \A h \in 1 .. Len(G) : H[h] = G[h]
  BY <1>2, <1>3, AppendedItem
<1>5. ASSUME NEW h \in 2 .. n + 1 PROVE Good(G[h], texts[h - 1])
  <2>1. h - 1 \in 1 .. 5
    BY <1>1
  <2>2. CASE h = n + 1
    <3>1. h - 1 = n
      BY <1>1, <2>2
    <3> QED
      BY <1>2, <2>2, <3>1, Zenon
  <2>3. CASE h # n + 1
    <3>1. h \in 2 .. n /\ h \in 1 .. n
      BY <1>1, <2>3
    <3>2. G[h] = Code(texts[h - 1])[Len(texts[h - 1])]
      BY <1>1, <1>2, <3>1, Zenon
    <3>3. texts[h - 1] \in Text
      BY <2>1
    <3> QED
      BY <3>2, <3>3, WholeIsGood, Zenon
  <2> QED
    BY <2>2, <2>3
<1> HIDE DEF G, H, n
<1>6. G[1] = <<kind>> /\ Len(G) \in 1 .. 6
  <2>1. 1 \in 1 .. n /\ n + 1 \in 1 .. 6
    BY <1>1
  <2> QED
    BY <1>1, <1>2, <2>1, Zenon
<1>7. Fits(G, kind, texts)
  BY <1>2, <1>5, <1>6, Zenon DEF Fits
<1>8. ASSUME n # 5 PROVE Fits(H, kind, texts)
  <2>1. n \in 1 .. 4
    BY <1>1, <1>8
  <2>2. Len(H) = n + 2 /\ Len(H) \in 1 .. 6 /\ 1 \in 1 .. Len(G) /\ n + 1 \in 1 .. 5
    BY <1>2, <1>4, <2>1
  <2>3. H[1] = <<kind>>
    BY <1>4, <1>6, <2>2, Zenon
  <2>4. ASSUME NEW h \in 2 .. Len(H) PROVE Good(H[h], texts[h - 1])
    <3>1. CASE h = n + 2
      <4>1. h = Len(G) + 1 /\ h - 1 = n + 1
        BY <1>1, <1>2, <3>1
      <4>2. H[h] = <<>> /\ texts[h - 1] \in Text
        BY <1>4, <2>2, <4>1, Zenon
      <4> QED
        BY <4>2, WholeIsGood, Zenon
    <3>2. CASE h # n + 2
      <4>1. h \in 2 .. n + 1 /\ h \in 1 .. Len(G)
        BY <1>2, <2>1, <2>2, <3>2
      <4> QED
        BY <1>4, <1>5, <4>1, Zenon
    <3> QED
      BY <3>1, <3>2
  <2> QED
    BY <1>4, <2>2, <2>3, <2>4, Zenon DEF Fits
<1>9. ASSUME x = Code(texts[n])[Len(texts[n])] PROVE Exact(G, kind, texts)
  <2>1. ASSUME NEW h \in 2 .. n + 1 PROVE G[h] = Code(texts[h - 1])[Len(texts[h - 1])]
    <3>1. CASE h = n + 1
      <4>1. h - 1 = n
        BY <1>1, <3>1
      <4> QED
        BY <1>2, <1>9, <3>1, <4>1, Zenon
    <3>2. CASE h # n + 1
      <4>1. h \in 2 .. n /\ h \in 1 .. n
        BY <1>1, <3>2
      <4> QED
        BY <1>1, <1>2, <4>1, Zenon
    <3> QED
      BY <3>1, <3>2
  <2> QED
    BY <1>2, <1>6, <2>1, Zenon DEF Exact
<1> QED
  BY <1>7, <1>8, <1>9 DEF G, H, n

\* What becomes of a text at the end of the message, and of the bar after it.
LEMMA TextAdded ==
  ASSUME NEW kind, NEW texts, \A h \in 1 .. 5 : texts[h] \in Text, Plain(texts[5]),
         NEW F, Exact(F, kind, texts), Len(F) <= 5,
         NEW w \in Text, NEW l \in Nat, Begun(w, F, l, kind, texts)
  PROVE  LET s == texts[Len(F)]
             G == Append(F, Code(s)[Len(s)])
             v == AppendLiteral(AppendEscaped(w, s), <<Bar>>)
             m == l + Len(Code(s)[Len(s)]) + 1
         IN  /\ v \in Text /\ Exact(G, kind, texts)
             /\ Len(F) # 5 => Begun(v, G, m, kind, texts)
             /\ Len(F) = 5 => /\ Fits(Split(v), kind, texts)
                              /\ m <= MaxMessage => Split(v) = G
<1> DEFINE s == texts[Len(F)]
           x == Code(s)[Len(s)]
           G == Append(F, x)
           u == AppendEscaped(w, s)
           v == AppendLiteral(u, <<Bar>>)
           m == l + Len(x) + 1
           Goal == /\ v \in Text /\ Exact(G, kind, texts)
                   /\ Len(F) # 5 => Begun(v, G, m, kind, texts)
                   /\ Len(F) = 5 => /\ Fits(Split(v), kind, texts)
                                    /\ m <= MaxMessage => Split(v) = G
<1> SUFFICES Goal
  OBVIOUS
<1>1. F \in Seq(Text) /\ Len(F) \in 1 .. 5 /\ s \in Text
  <2>1. F \in Seq(Text) /\ Len(F) \in 1 .. 6
    BY Zenon DEF Exact
  <2>2. Len(F) \in 1 .. 5
    BY <2>1, UpToFive
  <2> QED
    BY <2>1, <2>2, Zenon
<1>2. Len(F) # 5 \/ Plain(s)
  OBVIOUS
<1>3. MaxMessage \in Nat /\ Bar \in Character
  BY MessageAssumption, LiteralsAssumption DEF Special
<1>4. u \in Text /\ <<Bar>> \in Text /\ v \in Text
  <2>1. u \in Text
    BY <1>1, EscapedType
  <2>2. <<Bar>> \in Text
    BY <1>3, Single DEF Text
  <2>3. v \in Text
    <3> HIDE DEF u
    <3> QED
      BY <2>1, <2>2, Literal
  <2> QED
    BY <2>1, <2>2, <2>3
<1>5. x \in Text /\ Len(x) \in Nat /\ Good(x, s)
  <2>1. x \in Text /\ Good(x, s)
    BY <1>1, WholeIsGood
  <2> QED
    BY <2>1 DEF Text
<1>6. Exact(G, kind, texts)
  BY <1>1, <1>5, FitsMore
<1> HIDE DEF s, x, u
<1>7. ASSUME NEW y \in Text, Good(y, s)
      PROVE  Fits(Append(F, y), kind, texts) /\ (Len(F) # 5 => Fits(Append(Append(F, y), <<>>), kind, texts))
  BY <1>1, <1>7, FitsMore DEF s
\* A message that was cut, and how the claim follows from it.
<1>8. ASSUME NEW z \in Text, v = z, NEW st, Reads(z, st), Fits(st.fields, kind, texts),
             Len(z) = MaxMessage, m > MaxMessage
      PROVE  /\ Len(F) # 5 => Begun(v, G, m, kind, texts)
             /\ Len(F) = 5 => /\ Fits(Split(v), kind, texts)
                              /\ m <= MaxMessage => Split(v) = G
  <2>1. Split(z) = st.fields
    BY <1>8, Splitting
  <2>2. ~(m <= MaxMessage)
    BY <1>3, <1>5, <1>8
  <2>3. Fits(Split(v), kind, texts)
    BY <1>8, <2>1, Zenon
  <2>4. Begun(v, G, m, kind, texts)
    BY <1>8, Zenon DEF Begun
  <2> QED
    BY <2>2, <2>3, <2>4, Zenon
<1>9. CASE Len(w) = MaxMessage /\ l > MaxMessage /\ \E st : Reads(w, st) /\ Fits(st.fields, kind, texts)
  <2>1. u = w
    BY <1>1, <1>9, EscapedFull DEF u
  <2>2. v = w
    BY <1>4, <1>9, <2>1, LiteralFull
  <2>3. m > MaxMessage
    BY <1>3, <1>5, <1>9
  <2>4. PICK st : Reads(w, st) /\ Fits(st.fields, kind, texts)
    BY <1>9
  <2> HIDE DEF v, m, G
  <2> QED
    BY <1>4, <1>6, <1>8, <1>9, <2>2, <2>3, <2>4, Zenon DEF v, m, G, x, s, u
<1>10. CASE Len(w) = l /\ l <= MaxMessage /\ Reads(w, Open(F, <<>>))
  <2>1. Entire(u, F, s, Len(s), l + Len(x)) \/ Broken(u, F, s, l + Len(x))
    BY <1>1, <1>2, <1>10, TextSent, Zenon DEF u, x
  <2>2. CASE Broken(u, F, s, l + Len(x))
    <3>1. PICK st, y : /\ Reads(u, st) /\ y \in Text /\ Good(y, s)
                       /\ \/ st.fields = Append(F, y)
                          \/ Len(F) # 5 /\ st.fields = Append(Append(F, y), <<>>)
      BY <2>2 DEF Broken
    <3>2. Fits(st.fields, kind, texts)
      BY <1>7, <3>1, Zenon
    <3>3. Len(u) = MaxMessage /\ l + Len(x) > MaxMessage
      BY <2>2 DEF Broken
    <3>4. v = u
      BY <1>4, <3>3, LiteralFull
    <3>5. m > MaxMessage
      BY <1>3, <1>5, <3>3
    <3> HIDE DEF v, m, G
    <3> QED
      BY <1>4, <1>6, <1>8, <3>1, <3>2, <3>3, <3>4, <3>5, Zenon DEF v, m, G, x, s, u
  <2>3. CASE Entire(u, F, s, Len(s), l + Len(x))
    <3>1. Len(u) = l + Len(x) /\ l + Len(x) <= MaxMessage /\ Reads(u, Open(F, x))
      BY <2>3 DEF Entire, x
    <3>2. CASE l + Len(x) = MaxMessage
      <4>1. v = u
        BY <1>4, <3>1, <3>2, LiteralFull
      <4>2. m > MaxMessage
        BY <1>3, <1>5, <3>2
      <4>3. Open(F, x).fields = Append(F, x)
        BY OpenFields
      <4>4. Fits(Open(F, x).fields, kind, texts)
        BY <1>5, <1>7, <4>3, Zenon
      <4> HIDE DEF v, m, G
      <4> QED
        BY <1>4, <1>6, <1>8, <3>1, <3>2, <4>1, <4>2, <4>4, Zenon DEF v, m, G, x, s, u
    <3>3. CASE l + Len(x) < MaxMessage
      <4>1. v = Append(u, Bar)
        BY <1>3, <1>4, <3>1, <3>3, LiteralOne
      <4>2. Reads(v, ScanStep(Open(F, x), Bar, FALSE))
        BY <1>3, <1>4, <3>1, <4>1, ReadsOneMore, Zenon
      <4>3. Len(v) = m /\ m <= MaxMessage
        <5>1. Len(v) = Len(u) + 1
          BY <1>3, <1>4, <4>1, AppendedItem DEF Text
        <5> QED
          BY <1>3, <1>5, <3>1, <3>3, <5>1
      <4>4. ASSUME Len(F) # 5 PROVE Begun(v, G, m, kind, texts)
        <5>1. ScanStep(Open(F, x), Bar, FALSE) = Open(G, <<>>)
          BY <1>1, <1>5, <4>4, StepBar
        <5> HIDE DEF v, m, G
        <5> QED
          BY <4>2, <4>3, <5>1, Zenon DEF Begun
      <4>5. ASSUME Len(F) = 5 PROVE Split(v) = G /\ Fits(G, kind, texts)
        <5>1. ScanStep(Open(F, x), Bar, FALSE).fields = G
          BY <1>1, <1>5, <4>5, StepLastBar
        <5>2. Split(v) = ScanStep(Open(F, x), Bar, FALSE).fields
          <6> HIDE DEF v
          <6> QED
            BY <1>4, <4>2, Splitting
        <5>3. Fits(G, kind, texts)
          BY <1>5, <1>7
        <5> QED
          BY <5>1, <5>2, <5>3, Zenon
      <4> HIDE DEF v, m, G
      <4> QED
        BY <1>4, <1>6, <4>4, <4>5, Zenon DEF v, m, G, x, s, u
    <3> QED
      BY <1>3, <1>5, <3>1, <3>2, <3>3
  <2> QED
    BY <2>1, <2>2, <2>3, Zenon
<1>11. \/ Len(w) = l /\ l <= MaxMessage /\ Reads(w, Open(F, <<>>))
       \/ Len(w) = MaxMessage /\ l > MaxMessage /\ \E st : Reads(w, st) /\ Fits(st.fields, kind, texts)
  BY Zenon DEF Begun
<1> HIDE DEF v, m, G
<1> QED
  BY <1>9, <1>10, <1>11, Zenon

(***************************************************************************)
(* The length of an escaped text.                                          *)
(***************************************************************************)

Specials(s, k) == {h \in 1 .. k : s[h] \in Special}

LEMMA CodeLength ==
  ASSUME NEW s \in Text
  PROVE  Len(Code(s)[Len(s)]) = Len(s) + Cardinality({k \in DOMAIN s : s[k] \in Special})
<1> DEFINE n == Len(s)
           Right(k) == /\ IsFiniteSet(Specials(s, k))
                       /\ Len(Code(s)[k]) = k + Cardinality(Specials(s, k))
           S == {k \in 0 .. n : Right(k)}
<1>1. n \in Nat /\ DOMAIN s = 1 .. n
  BY DEF Text
<1>2. 0 \in S
  <2>1. Specials(s, 0) = {}
    BY DEF Specials
  <2>2. Cardinality(Specials(s, 0)) = 0 /\ IsFiniteSet(Specials(s, 0))
    BY <2>1, FS_EmptySet
  <2>3. Code(s)[0] = <<>>
    BY CodeDef
  <2>4. Len(<<>>) = 0
    OBVIOUS
  <2>5. Len(Code(s)[0]) = 0
    BY <2>3, <2>4, Zenon
  <2>6. Len(Code(s)[0]) = 0 + Cardinality(Specials(s, 0))
    BY <2>2, <2>5
  <2> QED
    BY <1>1, <2>2, <2>6
<1>3. ASSUME NEW k \in 0 .. n - 1, k \in S PROVE k + 1 \in S
  <2>1. PICK j \in 1 .. n : j = k + 1 /\ j - 1 = k
    BY <1>1
  <2> DEFINE a == Specials(s, k)
             b == Specials(s, k + 1)
             x == Len(Code(s)[k])
             y == Len(Code(s)[k + 1])
  <2>2. k \in Nat /\ IsFiniteSet(a) /\ Cardinality(a) \in Nat /\ x = k + Cardinality(a)
    BY <1>1, <1>3, FS_CardinalityType
  <2>3. /\ x \in Nat
        /\ s[k + 1] \in Special => y = x + 2
        /\ s[k + 1] \notin Special => y = x + 1
    <3>1. /\ Len(Code(s)[j - 1]) \in Nat
          /\ s[j] \in Special => Len(Code(s)[j]) = Len(Code(s)[j - 1]) + 2
          /\ s[j] \notin Special => Len(Code(s)[j]) = Len(Code(s)[j - 1]) + 1
      BY CodeStep
    <3> QED
      BY <2>1, <3>1, Zenon
  <2>4. k + 1 \notin a
    BY DEF Specials
  <2> HIDE DEF x, y
  <2>5. CASE s[k + 1] \in Special
    <3>1. \A h : h \in b <=> h \in a \cup {k + 1}
      BY <2>2, <2>5 DEF Specials
    <3> HIDE DEF a, b
    <3>2. b = a \cup {k + 1}
      BY <3>1
    <3>3. IsFiniteSet(b) /\ Cardinality(b) = Cardinality(a) + 1
      BY <2>2, <2>4, <3>2, FS_AddElement
    <3>4. y = (k + 1) + Cardinality(b)
      BY <2>2, <2>3, <2>5, <3>3
    <3>5. Right(k + 1)
      BY <3>3, <3>4 DEF b, y
    <3> QED
      BY <1>1, <3>5
  <2>6. CASE s[k + 1] \notin Special
    <3>1. \A h : h \in b <=> h \in a
      BY <2>2, <2>6 DEF Specials
    <3> HIDE DEF a, b
    <3>2. b = a
      BY <3>1
    <3>3. IsFiniteSet(b) /\ Cardinality(b) = Cardinality(a)
      BY <2>2, <3>2
    <3>4. y = (k + 1) + Cardinality(b)
      BY <2>2, <2>3, <2>6, <3>3
    <3>5. Right(k + 1)
      BY <3>3, <3>4 DEF b, y
    <3> QED
      BY <1>1, <3>5
  <2> QED
    BY <2>5, <2>6
<1>4. Right(n)
  <2>1. 0 .. n \subseteq S
    <3> HIDE DEF S
    <3> QED
      BY <1>1, <1>2, <1>3, Induction
  <2>2. n \in 0 .. n
    BY <1>1
  <2> HIDE DEF Right
  <2> QED
    BY <2>1, <2>2
<1>5. Specials(s, n) = {k \in DOMAIN s : s[k] \in Special}
  <2>1. \A h : h \in Specials(s, n) <=> h \in {k \in DOMAIN s : s[k] \in Special}
    BY <1>1 DEF Specials
  <2> QED
    BY <2>1
<1> QED
  BY <1>4, <1>5, Zenon

(***************************************************************************)
(* The whole message.                                                      *)
(***************************************************************************)

Texts(r) == <<r.file, r.expression, r.expected, r.got, r.line>>

\* The message after the kind and k texts.
LEMMA Formatting ==
  ASSUME NEW r \in FailureReports
  PROVE  \E w \in [0 .. 4 -> Text] :
            /\ w[0] = AppendLiteral(<<r.kind>>, <<Bar>>)
            /\ \A k \in 1 .. 4 : w[k] = AppendLiteral(AppendEscaped(w[k - 1], Texts(r)[k]), <<Bar>>)
            /\ Format(r) = AppendLiteral(AppendLiteral(w[4], r.line), <<Bar>>)
<1> DEFINE texts == <<r.file, r.expression, r.expected, r.got>>
           next(w, k) == AppendLiteral(AppendEscaped(w, texts[k]), <<Bar>>)
           a == AppendLiteral(<<r.kind>>, <<Bar>>)
           step == [k \in 1 .. 4 |-> [w \in Text |-> next(w, k)]]
           Solves(t) == t = [k \in 0 .. 4 |-> IF k = 0 THEN AppendLiteral(<<r.kind>>, <<Bar>>)
                                             ELSE AppendLiteral(AppendEscaped(t[k - 1], texts[k]), <<Bar>>)]
           fields == CHOOSE t : Solves(t)
<1>1. \A k \in 1 .. 4 : texts[k] \in Text /\ texts[k] = Texts(r)[k]
  <2>1. r.file \in Text /\ r.expression \in Text /\ r.expected \in Text /\ r.got \in Text
    BY DEF FailureReports
  <2>2. texts[1] \in Text /\ texts[2] \in Text /\ texts[3] \in Text /\ texts[4] \in Text
    BY <2>1
  <2>3. /\ texts[1] = Texts(r)[1] /\ texts[2] = Texts(r)[2]
        /\ texts[3] = Texts(r)[3] /\ texts[4] = Texts(r)[4]
    BY DEF Texts
  <2>4. \A k \in 1 .. 4 : k = 1 \/ k = 2 \/ k = 3 \/ k = 4
    OBVIOUS
  <2> QED
    BY <2>2, <2>3, <2>4, Zenon
<1> HIDE DEF texts
<1>2. <<Bar>> \in Text /\ <<r.kind>> \in Text
  <2>1. Bar \in Character /\ r.kind \in Character
    BY LiteralsAssumption DEF Special, FailureReports
  <2> QED
    BY <2>1, Single DEF Text
<1>3. a \in Text
  BY <1>2, Literal
<1>4. \A k \in 1 .. 4, w \in Text : next(w, k) \in Text
  <2>1. ASSUME NEW k \in 1 .. 4, NEW w \in Text PROVE next(w, k) \in Text
    <3>1. AppendEscaped(w, texts[k]) \in Text
      BY <1>1, EscapedType
    <3> QED
      BY <1>2, <3>1, Literal
  <2> QED
    BY <2>1
<1>5. step \in [1 .. 4 -> [Text -> Text]]
  <2> HIDE DEF next
  <2> QED
    BY <1>4
<1>6. \A k \in 1 .. 4, w \in Text : step[k][w] = next(w, k)
  OBVIOUS
<1>7. PICK f : Iterates(f, 4, Text, a, step)
  <2> HIDE DEF a, step
  <2> QED
    BY <1>3, <1>5, Recursion
<1> HIDE DEF step
<1>8. f \in [0 .. 4 -> Text] /\ f[0] = a /\ \A k \in 1 .. 4 : f[k] = next(f[k - 1], k)
  <2>1. /\ f \in [0 .. 4 -> Text] /\ f[0] = a
        /\ \A k \in 1 .. 4 : f[k] = step[k][f[k - 1]]
    BY <1>7 DEF Iterates
  <2>2. ASSUME NEW k \in 1 .. 4 PROVE f[k] = next(f[k - 1], k)
    <3>1. f[k - 1] \in Text
      BY <2>1
    <3> QED
      BY <1>6, <2>1, <3>1
  <2> QED
    BY <2>1, <2>2
<1>9. Solves(f)
  <2>1. f = [k \in 0 .. 4 |-> f[k]]
    BY <1>8
  <2>2. ASSUME NEW k \in 0 .. 4 PROVE f[k] = IF k = 0 THEN a ELSE next(f[k - 1], k)
    BY <1>8
  <2> HIDE DEF a, next
  <2>3. f = [k \in 0 .. 4 |-> IF k = 0 THEN a ELSE next(f[k - 1], k)]
    BY <2>1, <2>2
  <2> QED
    BY <2>3 DEF a, next
<1>10. Solves(fields)
  <2> HIDE DEF Solves
  <2> QED
    BY <1>9, Zenon
<1>11. Format(r) = AppendLiteral(AppendLiteral(fields[4], r.line), <<Bar>>)
  BY DEF Format, texts
<1> HIDE DEF fields
<1>12. /\ DOMAIN fields = 0 .. 4 /\ fields[0] = a
       /\ \A k \in 1 .. 4 : fields[k] = next(fields[k - 1], k)
  <2>1. fields = [k \in 0 .. 4 |-> IF k = 0 THEN a ELSE next(fields[k - 1], k)]
    BY <1>10
  <2> HIDE DEF a, next
  <2> QED
    BY <2>1
<1>13. 0 .. 4 \subseteq {k \in 0 .. 4 : fields[k] \in Text}
  <2> DEFINE S == {k \in 0 .. 4 : fields[k] \in Text}
  <2>1. 0 \in S
    BY <1>3, <1>12
  <2>2. ASSUME NEW k \in 0 .. 4 - 1, k \in S PROVE k + 1 \in S
    <3>1. k + 1 \in 1 .. 4 /\ (k + 1) - 1 = k
      OBVIOUS
    <3> HIDE DEF next
    <3>2. fields[k + 1] = next(fields[k], k + 1)
      BY <1>12, <3>1
    <3>3. fields[k + 1] \in Text
      BY <1>4, <2>2, <3>1, <3>2
    <3> QED
      BY <3>1, <3>3
  <2> HIDE DEF S
  <2> QED
    BY <2>1, <2>2, Induction DEF S
<1>14. fields \in [0 .. 4 -> Text]
  <2>1. fields = [k \in 0 .. 4 |-> fields[k]]
    BY <1>10
  <2> QED
    BY <1>13, <2>1
<1>15. \A k \in 1 .. 4 : fields[k] = AppendLiteral(AppendEscaped(fields[k - 1], Texts(r)[k]), <<Bar>>)
  BY <1>1, <1>12
<1> QED
  BY <1>11, <1>12, <1>14, <1>15

LEMMA TextsType ==
  ASSUME NEW r \in FailureReports
  PROVE  /\ \A h \in 1 .. 5 : Texts(r)[h] \in Text
         /\ Texts(r)[1] = r.file /\ Texts(r)[2] = r.expression /\ Texts(r)[3] = r.expected
         /\ Texts(r)[4] = r.got /\ Texts(r)[5] = r.line /\ Plain(r.line)
<1>1. /\ r.file \in Text /\ r.expression \in Text /\ r.expected \in Text /\ r.got \in Text
      /\ r.line \in Seq(Character \ Special)
  BY DEF FailureReports
<1>2. r.line \in Text /\ Plain(r.line)
  BY <1>1 DEF Text, Plain
<1>3. /\ Texts(r)[1] = r.file /\ Texts(r)[2] = r.expression /\ Texts(r)[3] = r.expected
      /\ Texts(r)[4] = r.got /\ Texts(r)[5] = r.line
  BY DEF Texts
<1>4. \A h \in 1 .. 5 : h = 1 \/ h = 2 \/ h = 3 \/ h = 4 \/ h = 5
  OBVIOUS
<1>5. \A h \in 1 .. 5 : Texts(r)[h] \in Text
  BY <1>1, <1>2, <1>3, <1>4, Zenon
<1> QED
  BY <1>2, <1>3, <1>5

\* The kind, which is one character of the message, and its bar.
LEMMA KindSent ==
  ASSUME NEW kind \in FailureKinds, NEW texts
  PROVE  LET w == AppendLiteral(<<kind>>, <<Bar>>)
             F == <<<<kind>>>>
         IN  w \in Text /\ Exact(F, kind, texts) /\ Len(F) = 1 /\ Begun(w, F, 2, kind, texts)
<1> DEFINE v == <<kind>>
           w == AppendLiteral(v, <<Bar>>)
           F == <<<<kind>>>>
<1>1. kind \in Character /\ Bar \in Character /\ kind \notin Special
  BY LiteralsAssumption DEF Special, FailureKinds, Bar, Backslash
<1>2. /\ v \in Text /\ Len(v) = 1 /\ <<Bar>> \in Text /\ <<>> \in Text
      /\ v = Append(<<>>, kind)
  BY <1>1, Single DEF Text
<1>3. F \in Seq(Text) /\ Len(F) = 1 /\ F[1] = v /\ <<>> \in Seq(Text) /\ F = Append(<<>>, v)
  BY <1>2, Single
<1>4. Exact(F, kind, texts) /\ Fits(F, kind, texts)
  <2>1. Len(F) \in 1 .. 6 /\ \A h \in 2 .. Len(F) : FALSE
    BY <1>3
  <2> QED
    BY <1>3, <2>1, Zenon DEF Exact, Fits
<1>5. w \in Text
  BY <1>2, Literal
<1>6. Reads(v, Open(<<>>, v))
  <2>1. Unread = Open(<<>>, <<>>)
    BY DEF Unread, Open
  <2>2. ScanStep(Unread, kind, FALSE) = Open(<<>>, v)
    BY <1>1, <1>2, <1>3, <2>1, StepPlain, Zenon
  <2> QED
    BY <1>1, <1>2, <2>2, ReadsNothing, ReadsOneMore, Zenon
<1>7. MaxMessage = 1 \/ MaxMessage > 1
  BY MessageAssumption
<1> HIDE DEF v
<1>8. CASE MaxMessage = 1
  <2>1. w = v
    BY <1>2, <1>8, LiteralFull
  <2>2. Open(<<>>, v).fields = F
    BY <1>3, OpenFields, Zenon
  <2>3. Len(w) = MaxMessage /\ 2 > MaxMessage
    BY <1>2, <1>8, <2>1
  <2>4. Begun(w, F, 2, kind, texts)
    BY <1>4, <1>6, <2>1, <2>2, <2>3, Zenon DEF Begun
  <2> QED
    BY <1>3, <1>4, <1>5, <2>4 DEF v
<1>9. CASE MaxMessage > 1
  <2>1. w = Append(v, Bar)
    BY <1>1, <1>2, <1>9, LiteralOne
  <2>2. Len(w) = 2 /\ 2 <= MaxMessage
    <3>1. Len(w) = Len(v) + 1
      BY <1>1, <1>2, <2>1, AppendedItem DEF Text
    <3> QED
      BY <1>2, <1>9, <3>1, MessageAssumption
  <2>3. ScanStep(Open(<<>>, v), Bar, FALSE) = Open(F, <<>>)
    <3>1. Len(<<>>) # 5
      OBVIOUS
    <3> QED
      BY <1>2, <1>3, <3>1, StepBar, Zenon
  <2>4. Reads(w, Open(F, <<>>))
    BY <1>1, <1>2, <1>6, <2>1, <2>3, ReadsOneMore, Zenon
  <2>5. Begun(w, F, 2, kind, texts)
    BY <2>2, <2>4, Zenon DEF Begun
  <2> QED
    BY <1>3, <1>4, <1>5, <2>5 DEF v
<1> QED
  BY <1>7, <1>8, <1>9

\* Four texts, each with its bar.
LEMMA TextsSent ==
  ASSUME NEW r \in FailureReports
  PROVE  LET l(k) == Len(Code(Texts(r)[k])[Len(Texts(r)[k])])
             n == 2 + (l(1) + 1) + (l(2) + 1) + (l(3) + 1) + (l(4) + 1)
         IN  /\ \A k \in 1 .. 5 : l(k) \in Nat
             /\ \E w \in Text, F \in Seq(Text) :
                   /\ Exact(F, r.kind, Texts(r)) /\ Len(F) = 5
                   /\ Begun(w, F, n, r.kind, Texts(r))
                   /\ Format(r) = AppendLiteral(AppendLiteral(w, r.line), <<Bar>>)
<1> DEFINE texts == Texts(r)
           l(k) == Len(Code(texts[k])[Len(texts[k])])
<1>1. \A h \in 1 .. 5 : texts[h] \in Text
  BY TextsType
<1>2. Plain(texts[5]) /\ r.kind \in FailureKinds
  BY TextsType DEF FailureReports
<1>3. \A k \in 1 .. 5 : l(k) \in Nat
  BY <1>1, WholeIsGood DEF Text
<1>4. PICK w \in [0 .. 4 -> Text] :
            /\ w[0] = AppendLiteral(<<r.kind>>, <<Bar>>)
            /\ \A k \in 1 .. 4 : w[k] = AppendLiteral(AppendEscaped(w[k - 1], texts[k]), <<Bar>>)
            /\ Format(r) = AppendLiteral(AppendLiteral(w[4], r.line), <<Bar>>)
  BY Formatting
<1> HIDE DEF texts, l
<1> DEFINE Stage(k, n) == \E F : /\ Exact(F, r.kind, texts) /\ Len(F) = k + 1
                                 /\ Begun(w[k], F, n, r.kind, texts)
<1>5. Stage(0, 2)
  <2> DEFINE F == <<<<r.kind>>>>
  <2>1. /\ Exact(F, r.kind, texts) /\ Len(F) = 1
        /\ Begun(AppendLiteral(<<r.kind>>, <<Bar>>), F, 2, r.kind, texts)
    BY <1>2, KindSent
  <2> HIDE DEF F
  <2>2. Len(F) = 0 + 1
    BY <2>1
  <2> QED
    BY <1>4, <2>1, <2>2
<1>6. ASSUME NEW k \in 1 .. 4, NEW n \in Nat, Stage(k - 1, n)
      PROVE  Stage(k, n + l(k) + 1)
  <2>1. k - 1 \in 0 .. 4 /\ k \in 1 .. 5 /\ (k - 1) + 1 = k /\ k # 5 /\ k <= 5
    OBVIOUS
  <2>2. PICK F : /\ Exact(F, r.kind, texts) /\ Len(F) = k
                 /\ Begun(w[k - 1], F, n, r.kind, texts)
    BY <1>6, <2>1, Zenon
  <2>3. w[k - 1] \in Text
    BY <2>1
  <2> DEFINE s == texts[Len(F)]
             G == Append(F, Code(s)[Len(s)])
             v == AppendLiteral(AppendEscaped(w[k - 1], s), <<Bar>>)
  <2>4. Len(F) <= 5 /\ Len(F) # 5
    BY <2>1, <2>2, Zenon
  <2>5. Exact(G, r.kind, texts) /\ Begun(v, G, n + Len(Code(s)[Len(s)]) + 1, r.kind, texts)
    BY <1>1, <1>2, <2>2, <2>3, <2>4, TextAdded
  <2>6. Len(G) = k + 1
    <3>1. F \in Seq(Text) /\ texts[k] \in Text
      BY <1>1, <2>1, <2>2, Zenon DEF Exact
    <3>2. Code(s)[Len(s)] \in Text
      BY <2>2, <3>1, WholeIsGood, Zenon
    <3>3. Len(G) = Len(F) + 1
      BY <3>1, <3>2, AppendedItem, Zenon
    <3> QED
      BY <2>2, <3>3, Zenon
  <2>7. v = w[k]
    BY <1>4, <2>2, Zenon
  <2>8. Len(Code(s)[Len(s)]) = l(k)
    BY <2>2, Zenon DEF l
  <2> QED
    BY <2>5, <2>6, <2>7, <2>8, Zenon
<1> HIDE DEF Stage
<1> DEFINE n1 == 2 + l(1) + 1
           n2 == n1 + l(2) + 1
           n3 == n2 + l(3) + 1
           n4 == n3 + l(4) + 1
<1>7. l(1) \in Nat /\ l(2) \in Nat /\ l(3) \in Nat /\ l(4) \in Nat
  BY <1>3
<1>8. n1 \in Nat /\ n2 \in Nat /\ n3 \in Nat /\ n4 \in Nat
  BY <1>7
<1>9. n4 = 2 + (l(1) + 1) + (l(2) + 1) + (l(3) + 1) + (l(4) + 1)
  BY <1>7
<1>10. \A k \in 1 .. 4, n \in Nat : Stage(k - 1, n) => Stage(k, n + l(k) + 1)
  BY <1>6
<1>11. Stage(4, n4)
  <2>1. /\ 1 - 1 = 0 /\ 2 - 1 = 1 /\ 3 - 1 = 2 /\ 4 - 1 = 3 /\ 2 \in Nat
        /\ 1 \in 1 .. 4 /\ 2 \in 1 .. 4 /\ 3 \in 1 .. 4 /\ 4 \in 1 .. 4
    OBVIOUS
  <2>2. Stage(1, n1)
    BY <1>5, <1>10, <2>1, Zenon
  <2> HIDE DEF n1
  <2>3. Stage(2, n2)
    BY <1>8, <1>10, <2>1, <2>2, Zenon
  <2> HIDE DEF n2
  <2>4. Stage(3, n3)
    BY <1>8, <1>10, <2>1, <2>3, Zenon
  <2> HIDE DEF n3
  <2> QED
    BY <1>8, <1>10, <2>1, <2>4, Zenon
<1> HIDE DEF n4
<1>12. PICK F : Exact(F, r.kind, texts) /\ Len(F) = 4 + 1 /\ Begun(w[4], F, n4, r.kind, texts)
  BY <1>11 DEF Stage
<1>13. Len(F) = 5 /\ w[4] \in Text /\ F \in Seq(Text)
  BY <1>12 DEF Exact
<1> QED
  BY <1>3, <1>4, <1>9, <1>12, <1>13, Zenon DEF l, texts

LEMMA Total ==
  ASSUME NEW a \in Nat, NEW b \in Nat, NEW c \in Nat, NEW d \in Nat, NEW e \in Nat,
         NEW m \in Nat, 7 + a + b + c + d + e <= m
  PROVE  (2 + (a + 1) + (b + 1) + (c + 1) + (d + 1)) + e + 1 <= m
OBVIOUS

LEMMA Delivered ==
  ASSUME NEW r \in FailureReports
  PROVE  LET m == Format(r)
         IN  /\ m # <<>> /\ Len(m) <= MaxMessage
             /\ Fits(Split(m), r.kind, Texts(r))
             /\ Whole(r) => Exact(Split(m), r.kind, Texts(r)) /\ Len(Split(m)) = 6
<1> DEFINE texts == Texts(r)
           l(k) == Len(Code(texts[k])[Len(texts[k])])
           n == 2 + (l(1) + 1) + (l(2) + 1) + (l(3) + 1) + (l(4) + 1)
<1>1. /\ \A h \in 1 .. 5 : texts[h] \in Text
      /\ Plain(texts[5]) /\ texts[5] = r.line /\ r.line \in Text
  BY TextsType
<1>2. \A k \in 1 .. 5 : l(k) \in Nat
  BY TextsSent
<1>3. PICK w \in Text, F \in Seq(Text) : /\ Exact(F, r.kind, texts) /\ Len(F) = 5
                           /\ Begun(w, F, n, r.kind, texts)
                           /\ Format(r) = AppendLiteral(AppendLiteral(w, r.line), <<Bar>>)
  BY TextsSent
<1>4. n \in Nat
  <2>1. l(1) \in Nat /\ l(2) \in Nat /\ l(3) \in Nat /\ l(4) \in Nat
    BY <1>2
  <2> HIDE DEF l
  <2> QED
    BY <2>1
<1>5. Len(w) <= MaxMessage
  <2>1. (Len(w) = n /\ n <= MaxMessage) \/ Len(w) = MaxMessage
    BY <1>3, Zenon DEF Begun
  <2> HIDE DEF n
  <2>2. MaxMessage <= MaxMessage
    BY MessageAssumption
  <2> QED
    BY <2>1, <2>2, Zenon
<1>6. AppendLiteral(w, r.line) = AppendEscaped(w, texts[5])
  BY <1>1, <1>5, LiteralIsEscaped, Zenon
<1> DEFINE u == AppendLiteral(w, r.line)
           m == Format(r)
           x == Code(texts[5])[Len(texts[5])]
<1>7. u \in Text /\ <<Bar>> \in Text /\ Len(<<Bar>>) = 1
  <2>1. u \in Text
    BY <1>1, Literal
  <2>2. Bar \in Character
    BY LiteralsAssumption DEF Special
  <2> QED
    BY <2>1, <2>2, Single DEF Text
<1>8. m # <<>> /\ Len(m) <= MaxMessage
  <2>1. m = AppendLiteral(u, <<Bar>>)
    BY <1>3
  <2> HIDE DEF u, m
  <2>2. /\ m \in Text /\ Len(u) + Len(<<Bar>>) \in Nat
        /\ Len(m) = IF Len(u) + Len(<<Bar>>) < MaxMessage THEN Len(u) + Len(<<Bar>>) ELSE MaxMessage
    BY <1>7, <2>1, Literal
  <2>3. Len(u) \in Nat
    BY <1>7 DEF Text
  <2>4. Len(m) >= 1 /\ Len(m) <= MaxMessage
    BY <1>7, <2>2, <2>3, MessageAssumption
  <2> QED
    BY <2>4
<1> HIDE DEF texts, l, n, u, m
<1>9. /\ Fits(Split(m), r.kind, texts)
      /\ n + Len(x) + 1 <= MaxMessage => Split(m) = Append(F, x)
      /\ Exact(Append(F, x), r.kind, texts)
  <2> DEFINE s == texts[Len(F)]
             G == Append(F, Code(s)[Len(s)])
             v == AppendLiteral(AppendEscaped(w, s), <<Bar>>)
  <2>1. Len(F) <= 5
    BY <1>3
  <2>2. /\ Exact(G, r.kind, texts)
        /\ Fits(Split(v), r.kind, texts)
        /\ n + Len(Code(s)[Len(s)]) + 1 <= MaxMessage => Split(v) = G
    BY <1>1, <1>3, <1>4, <2>1, TextAdded
  <2>3. v = m /\ s = texts[5]
    BY <1>3, <1>6, Zenon DEF m
  <2> QED
    BY <2>2, <2>3, Zenon
<1>10. Len(Append(F, x)) = 6
  <2>1. F \in Seq(Text) /\ x \in Text
    BY <1>1, <1>3, WholeIsGood, Zenon DEF Exact
  <2>2. Len(Append(F, x)) = Len(F) + 1
    BY <2>1, AppendedItem, Zenon
  <2> QED
    BY <1>3, <2>2
<1>11. ASSUME Whole(r) PROVE n + Len(x) + 1 <= MaxMessage
  <2> DEFINE e(s) == Len(s) + Cardinality({k \in DOMAIN s : s[k] \in Special})
  <2>1. /\ l(1) = e(r.file) /\ l(2) = e(r.expression) /\ l(3) = e(r.expected) /\ l(4) = e(r.got)
    <3>1. /\ texts[1] = r.file /\ texts[2] = r.expression /\ texts[3] = r.expected /\ texts[4] = r.got
          /\ r.file \in Text /\ r.expression \in Text /\ r.expected \in Text /\ r.got \in Text
      BY TextsType DEF texts, FailureReports
    <3> HIDE DEF e
    <3>2. \A s \in Text : Len(Code(s)[Len(s)]) = e(s)
      BY CodeLength DEF e
    <3> QED
      BY <3>1, <3>2, Zenon DEF l
  <2>2. Len(x) = Len(r.line)
    <3>1. Len(r.line) \in 0 .. Len(r.line)
      <4>1. Len(r.line) \in Nat
        BY <1>1 DEF Text
      <4> QED
        BY <4>1
    <3>2. x = SubSeq(r.line, 1, Len(r.line))
      BY <1>1, <3>1, CodePlain, Zenon
    <3>3. Len(SubSeq(r.line, 1, Len(r.line))) = Len(r.line)
      BY <1>1, <3>1, PartOf, Zenon
    <3> QED
      BY <3>2, <3>3, Zenon
  <2>3. 7 + e(r.file) + e(r.expression) + e(r.expected) + e(r.got) + Len(r.line) <= MaxMessage
    BY <1>11 DEF Whole
  <2>4. /\ l(1) \in Nat /\ l(2) \in Nat /\ l(3) \in Nat /\ l(4) \in Nat /\ Len(r.line) \in Nat
        /\ MaxMessage \in Nat
    BY <1>1, <1>2, MessageAssumption DEF Text
  <2> HIDE DEF e, x
  <2>5. 7 + l(1) + l(2) + l(3) + l(4) + Len(r.line) <= MaxMessage
    BY <2>1, <2>3, Zenon
  <2>6. n + Len(x) + 1 <= MaxMessage
    <3>1. (2 + (l(1) + 1) + (l(2) + 1) + (l(3) + 1) + (l(4) + 1)) + Len(r.line) + 1 <= MaxMessage
      BY <2>4, <2>5, Total
    <3> QED
      BY <2>2, <3>1, Zenon DEF n
  <2> QED
    BY <2>6
<1> HIDE DEF x
<1>12. ASSUME Whole(r) PROVE Exact(Split(m), r.kind, texts) /\ Len(Split(m)) = 6
  BY <1>9, <1>10, <1>11, <1>12, Zenon
<1> QED
  BY <1>8, <1>9, <1>12 DEF m, texts

(***************************************************************************)
(* What is read of a field.                                                *)
(***************************************************************************)

LEMMA GoodRead ==
  ASSUME NEW s \in Text, NEW x, Good(x, s)
  PROVE  /\ \E h \in 0 .. Len(s) : Unescape(x) = SubSeq(s, 1, h)
         /\ Plain(s) => \E h \in 0 .. Len(s) : x = SubSeq(s, 1, h)
<1>1. s \in Seq(Character) /\ Len(s) \in Nat
  BY DEF Text
<1>2. PICK j \in 0 .. Len(s) :
         \/ x = Code(s)[j]
         \/ j < Len(s) /\ s[j + 1] = Backslash /\ x = Append(Code(s)[j], Backslash)
  BY DEF Good
<1>3. Code(s)[j] \in Seq(Character) /\ SubSeq(s, 1, j) \in Seq(Character) /\ Backslash \in Character
  <2>1. Code(s)[j] \in Seq(Character)
    BY CodeDef DEF Text
  <2>2. SubSeq(s, 1, j) \in Seq(Character)
    BY <1>1
  <2>3. Backslash \in Character
    BY LiteralsAssumption DEF Special
  <2> QED
    BY <2>1, <2>2, <2>3
<1>4. CASE x = Code(s)[j]
  <2>1. Code(s)[j] \o <<>> = Code(s)[j] /\ SubSeq(s, 1, j) \o <<>> = SubSeq(s, 1, j)
    BY <1>3
  <2>2. Unescape(Code(s)[j] \o <<>>) = SubSeq(s, 1, j) \o <<>>
    BY Undone
  <2>3. Unescape(x) = SubSeq(s, 1, j)
    BY <1>4, <2>1, <2>2, Zenon
  <2>4. Plain(s) => x = SubSeq(s, 1, j)
    BY <1>4, CodePlain
  <2> QED
    BY <2>3, <2>4
<1>5. CASE j < Len(s) /\ s[j + 1] = Backslash /\ x = Append(Code(s)[j], Backslash)
  <2>1. j \in 0 .. Len(s) - 1 /\ j + 1 \in 0 .. Len(s) /\ j + 1 \in 1 .. Len(s)
    BY <1>1, <1>5
  <2>2. /\ Append(Code(s)[j], Backslash) = Code(s)[j] \o <<Backslash>>
        /\ Append(SubSeq(s, 1, j), Backslash) = SubSeq(s, 1, j) \o <<Backslash>>
    BY <1>3, AppendIsConcat, Zenon
  <2>3. Unescape(Code(s)[j] \o <<Backslash>>) = SubSeq(s, 1, j) \o <<Backslash>>
    BY Undone
  <2>4. Append(SubSeq(s, 1, j), s[j + 1]) = SubSeq(s, 1, j + 1)
    BY <2>1, Grown
  <2>5. Unescape(x) = SubSeq(s, 1, j + 1)
    BY <1>5, <2>2, <2>3, <2>4, Zenon
  <2>6. ~Plain(s)
    BY <1>5, <2>1 DEF Plain, Special
  <2> QED
    BY <2>1, <2>5, <2>6
<1> QED
  BY <1>2, <1>4, <1>5

LEMMA WholeRead ==
  ASSUME NEW s \in Text, NEW x, x = Code(s)[Len(s)]
  PROVE  Unescape(x) = s /\ (Plain(s) => x = s)
<1>1. s \in Seq(Character) /\ Len(s) \in 0 .. Len(s)
  <2>1. s \in Seq(Character) /\ Len(s) \in Nat
    BY DEF Text
  <2> QED
    BY <2>1
<1>2. Code(s)[Len(s)] \in Seq(Character) /\ SubSeq(s, 1, Len(s)) = s
  <2>1. Code(s)[Len(s)] \in Seq(Character)
    BY <1>1, CodeDef DEF Text
  <2>2. SubSeq(s, 1, Len(s)) = s
    BY <1>1
  <2> QED
    BY <2>1, <2>2
<1>3. x \o <<>> = x /\ s \o <<>> = s
  BY <1>1, <1>2
<1>4. Unescape(x \o <<>>) = SubSeq(s, 1, Len(s)) \o <<>>
  BY <1>1, Undone
<1>5. Plain(s) => x = SubSeq(s, 1, Len(s))
  BY <1>1, CodePlain
<1> QED
  BY <1>2, <1>3, <1>4, <1>5, Zenon

\* A first part of a text is a prefix of it, and so is what is kept of it.
LEMMA PartIsPrefix ==
  ASSUME NEW s \in Text, NEW h \in 0 .. Len(s)
  PROVE  /\ SubSeq(s, 1, h) \in Text /\ IsPrefix(SubSeq(s, 1, h), s)
         /\ Cut(SubSeq(s, 1, h)) \in Text /\ IsPrefix(Cut(SubSeq(s, 1, h)), s)
<1>1. s \in Seq(Character) /\ Len(s) \in Nat /\ MaxField \in Nat
  BY MessageAssumption DEF Text
<1>2. ASSUME NEW j \in 0 .. Len(s) PROVE SubSeq(s, 1, j) \in Text /\ IsPrefix(SubSeq(s, 1, j), s)
  <2>1. SubSeq(s, 1, j) \in Text /\ Len(SubSeq(s, 1, j)) = j /\ j \in Nat /\ j <= Len(s)
    BY <1>1, PartOf
  <2>2. SubSeq(SubSeq(s, 1, j), 1, j) = SubSeq(s, 1, j)
    BY <1>1, <2>1 DEF Text
  <2> QED
    BY <2>1, <2>2 DEF IsPrefix
<1>3. PICK j \in 0 .. Len(s) : Cut(SubSeq(s, 1, h)) = SubSeq(s, 1, j)
  <2>1. Len(SubSeq(s, 1, h)) = h /\ h \in Nat
    BY <1>1, PartOf
  <2> DEFINE j == IF h < MaxField THEN h ELSE MaxField
  <2>2. j \in 0 .. h /\ j \in 0 .. Len(s)
    BY <1>1, <2>1
  <2>3. Cut(SubSeq(s, 1, h)) = SubSeq(SubSeq(s, 1, h), 1, j)
    BY <2>1 DEF Cut
  <2> HIDE DEF j
  <2>4. SubSeq(SubSeq(s, 1, h), 1, j) = SubSeq(s, 1, j)
    BY <1>1, <2>1, <2>2
  <2> QED
    BY <2>2, <2>3, <2>4
<1> QED
  BY <1>2, <1>3

\* A field of the message, when it was sent as text.
LEMMA FieldRead ==
  ASSUME NEW kind, NEW texts, \A h \in 1 .. 5 : texts[h] \in Text,
         NEW X, Fits(X, kind, texts), NEW k \in 2 .. 6
  PROVE  LET s == texts[k - 1]
             t == Cut(Unescape(Field(X, k)))
         IN  /\ t \in Text /\ IsPrefix(t, s)
             /\ Plain(s) => Field(X, k) \in Text /\ IsPrefix(Field(X, k), s)
             /\ Exact(X, kind, texts) /\ Len(X) = 6 =>
                   t = Cut(s) /\ (Plain(s) => Field(X, k) = s)
<1> DEFINE s == texts[k - 1]
           x == Field(X, k)
<1>1. s \in Text /\ k - 1 \in 1 .. 5
  BY TRUE
<1>2. Good(x, s)
  <2>1. Len(X) \in Nat /\ \A h \in 2 .. Len(X) : Good(X[h], texts[h - 1])
    BY DEF Fits
  <2>2. CASE Len(X) >= k
    <3>1. k \in 2 .. Len(X)
      BY <2>1, <2>2
    <3> QED
      BY <2>1, <2>2, <3>1, Zenon DEF Field
  <2>3. CASE ~(Len(X) >= k)
    <3>1. x = <<>>
      BY <2>3, Zenon DEF Field
    <3> QED
      BY <1>1, <3>1, WholeIsGood, Zenon
  <2> QED
    BY <2>2, <2>3, Zenon
<1>3. Exact(X, kind, texts) /\ Len(X) = 6 => x = Code(s)[Len(s)]
  <2> SUFFICES ASSUME Exact(X, kind, texts), Len(X) = 6 PROVE x = Code(s)[Len(s)]
    OBVIOUS
  <2>1. k \in 2 .. Len(X) /\ Len(X) >= k
    OBVIOUS
  <2> QED
    BY <2>1, Zenon DEF Exact, Field
<1> HIDE DEF s, x
<1>4. PICK h \in 0 .. Len(s) : Unescape(x) = SubSeq(s, 1, h)
  BY <1>1, <1>2, GoodRead
<1>5. Cut(Unescape(x)) \in Text /\ IsPrefix(Cut(Unescape(x)), s)
  BY <1>1, <1>4, PartIsPrefix
<1>6. ASSUME Plain(s) PROVE x \in Text /\ IsPrefix(x, s)
  <2>1. PICK j \in 0 .. Len(s) : x = SubSeq(s, 1, j)
    BY <1>1, <1>2, <1>6, GoodRead
  <2> QED
    BY <1>1, <2>1, PartIsPrefix
<1>7. ASSUME x = Code(s)[Len(s)] PROVE Cut(Unescape(x)) = Cut(s) /\ (Plain(s) => x = s)
  <2>1. Unescape(x) = s /\ (Plain(s) => x = s)
    BY <1>1, <1>7, WholeRead
  <2> QED
    BY <2>1, Zenon
<1> QED
  BY <1>3, <1>5, <1>6, <1>7, Zenon DEF s, x

(***************************************************************************)
(* What is read of a message is what was sent, or a part of it.            *)
(***************************************************************************)

\* For every report, whatever its texts and however small the message and the
\* fields are, the runner reads the kind that the failing test wrote, and every
\* text it passes on is the test's, up to where the message was cut; none of it
\* is cut but by the field's own size when the message holds the whole report
\* (ty_test.h: _ty_test_write_failure_to_pipe, _ty_read_failure_from_pipe).
THEOREM ReportConveyed ==
  ASSUME NEW r \in FailureReports
  PROVE  /\ Format(r) # <<>> /\ Len(Format(r)) <= MaxMessage
         /\ Parse(Format(r)).kind = r.kind
         /\ Parse(Format(r)).text \in ReportTexts
         /\ Conveys(r, Parse(Format(r)).text)
<1> DEFINE m == Format(r)
           fields == Split(m)
           text(k) == Cut(Unescape(Field(fields, k)))
           f == text(2)
           l == Field(fields, 6)
           base == [Nothing EXCEPT !.file = f, !.line = l]
           kind == fields[1][1]
           parsed == CASE kind = "FAIL_ASSERT" -> [base EXCEPT !.expression = text(3)]
                       [] kind \in {"FAIL_STRING", "FAIL_NUMBER"} ->
                            [base EXCEPT !.expression = text(3), !.expected = text(4), !.got = text(5)]
                       [] kind = "FAIL_MEMORY" -> [base EXCEPT !.expression = <<"timeout">>]
<1>1. Parse(m) = [kind |-> kind, text |-> parsed]
  BY DEF Parse
<1>2. /\ m # <<>> /\ Len(m) <= MaxMessage
      /\ Fits(fields, r.kind, Texts(r))
      /\ Whole(r) => Exact(fields, r.kind, Texts(r)) /\ Len(fields) = 6
  BY Delivered
<1>3. /\ \A h \in 1 .. 5 : Texts(r)[h] \in Text
      /\ Texts(r)[1] = r.file /\ Texts(r)[2] = r.expression /\ Texts(r)[3] = r.expected
      /\ Texts(r)[4] = r.got /\ Texts(r)[5] = r.line /\ Plain(r.line)
  BY TextsType
<1>4. kind = r.kind
  <2>1. fields[1] = <<r.kind>>
    BY <1>2, Zenon DEF Fits
  <2> QED
    BY <2>1
<1>5. ASSUME NEW k \in 2 .. 5
      PROVE  /\ text(k) \in Text /\ IsPrefix(text(k), Texts(r)[k - 1])
             /\ Whole(r) => text(k) = Cut(Texts(r)[k - 1])
  <2>1. k \in 2 .. 6
    OBVIOUS
  <2> HIDE DEF fields
  <2> QED
    BY <1>2, <1>3, <2>1, FieldRead
<1>6. l \in Text /\ IsPrefix(l, r.line) /\ (Whole(r) => l = r.line)
  <2>1. 6 \in 2 .. 6 /\ 6 - 1 = 5
    OBVIOUS
  <2>2. Plain(Texts(r)[6 - 1])
    BY <1>3, <2>1, Zenon
  <2> HIDE DEF fields
  <2>3. /\ l \in Text /\ IsPrefix(l, Texts(r)[6 - 1])
        /\ Whole(r) => l = Texts(r)[6 - 1]
    BY <1>2, <1>3, <2>1, <2>2, FieldRead
  <2> QED
    BY <1>3, <2>1, <2>3, Zenon
<1> HIDE DEF fields, m
<1>7. /\ text(2) \in Text /\ IsPrefix(text(2), r.file) /\ (Whole(r) => text(2) = Cut(r.file))
      /\ text(3) \in Text /\ IsPrefix(text(3), r.expression) /\ (Whole(r) => text(3) = Cut(r.expression))
      /\ text(4) \in Text /\ IsPrefix(text(4), r.expected) /\ (Whole(r) => text(4) = Cut(r.expected))
      /\ text(5) \in Text /\ IsPrefix(text(5), r.got) /\ (Whole(r) => text(5) = Cut(r.got))
  <2> HIDE DEF text
  <2>1. /\ 2 \in 2 .. 5 /\ 3 \in 2 .. 5 /\ 4 \in 2 .. 5 /\ 5 \in 2 .. 5
        /\ 2 - 1 = 1 /\ 3 - 1 = 2 /\ 4 - 1 = 3 /\ 5 - 1 = 4
    OBVIOUS
  <2>2. \A k \in 2 .. 5 : /\ text(k) \in Text /\ IsPrefix(text(k), Texts(r)[k - 1])
                          /\ Whole(r) => text(k) = Cut(Texts(r)[k - 1])
    BY <1>5
  <2>3. text(2) \in Text /\ IsPrefix(text(2), r.file) /\ (Whole(r) => text(2) = Cut(r.file))
    BY <1>3, <2>1, <2>2, Zenon
  <2>4. text(3) \in Text /\ IsPrefix(text(3), r.expression) /\ (Whole(r) => text(3) = Cut(r.expression))
    BY <1>3, <2>1, <2>2, Zenon
  <2>5. text(4) \in Text /\ IsPrefix(text(4), r.expected) /\ (Whole(r) => text(4) = Cut(r.expected))
    BY <1>3, <2>1, <2>2, Zenon
  <2>6. text(5) \in Text /\ IsPrefix(text(5), r.got) /\ (Whole(r) => text(5) = Cut(r.got))
    BY <1>3, <2>1, <2>2, Zenon
  <2> QED
    BY <2>3, <2>4, <2>5, <2>6
<1> DEFINE e == text(3)
           x == text(4)
           g == text(5)
<1> HIDE DEF f, l, e, x, g
<1>8. /\ base.file = f /\ base.line = l
      /\ base \in [file : {f}, expression : {<<>>}, expected : {<<>>}, got : {<<>>}, line : {l}]
  BY DEF Nothing
<1> HIDE DEF base
<1>9. /\ r.kind \in FailureKinds /\ <<"timeout">> \in Text /\ <<>> \in Text
  <2>1. "timeout" \in Character
    BY LiteralsAssumption
  <2> QED
    BY <2>1, Single DEF FailureReports, Text
<1>10. CASE r.kind = "FAIL_ASSERT"
  <2>1. parsed = [base EXCEPT !.expression = e]
    BY <1>4, <1>10, Zenon DEF e
  <2>2. parsed \in [file : {f}, expression : {e}, expected : {<<>>}, got : {<<>>}, line : {l}]
    BY <1>8, <2>1
  <2> HIDE DEF parsed
  <2>3. parsed.file = f /\ parsed.line = l /\ parsed.expression = e
    BY <2>2
  <2>4. parsed \in ReportTexts
    BY <1>6, <1>7, <1>9, <2>2 DEF ReportTexts, f, e
  <2>5. Conveys(r, parsed)
    BY <1>6, <1>7, <1>10, <2>3 DEF Conveys, f, e
  <2> QED
    BY <1>1, <1>2, <1>4, <2>4, <2>5 DEF m
<1>11. CASE r.kind \in {"FAIL_STRING", "FAIL_NUMBER"}
  <2>1. parsed = [base EXCEPT !.expression = e, !.expected = x, !.got = g]
    BY <1>4, <1>11, Zenon DEF e, x, g
  <2>2. parsed \in [file : {f}, expression : {e}, expected : {x}, got : {g}, line : {l}]
    BY <1>8, <2>1
  <2> HIDE DEF parsed
  <2>3. /\ parsed.file = f /\ parsed.line = l /\ parsed.expression = e
        /\ parsed.expected = x /\ parsed.got = g
    BY <2>2
  <2>4. parsed \in ReportTexts
    BY <1>6, <1>7, <2>2 DEF ReportTexts, f, e, x, g
  <2>5. Conveys(r, parsed)
    BY <1>6, <1>7, <1>11, <2>3 DEF Conveys, f, e, x, g
  <2> QED
    BY <1>1, <1>2, <1>4, <2>4, <2>5 DEF m
<1>12. CASE r.kind = "FAIL_MEMORY"
  <2>1. parsed = [base EXCEPT !.expression = <<"timeout">>]
    BY <1>4, <1>12, Zenon
  <2>2. parsed \in [file : {f}, expression : {<<"timeout">>}, expected : {<<>>}, got : {<<>>}, line : {l}]
    BY <1>8, <2>1
  <2> HIDE DEF parsed
  <2>3. parsed.file = f /\ parsed.line = l
    BY <2>2
  <2>4. parsed \in ReportTexts
    BY <1>6, <1>7, <1>9, <2>2 DEF ReportTexts, f
  <2>5. Conveys(r, parsed)
    BY <1>6, <1>7, <1>12, <2>3 DEF Conveys, f
  <2> QED
    BY <1>1, <1>2, <1>4, <2>4, <2>5 DEF m
<1> QED
  BY <1>9, <1>10, <1>11, <1>12 DEF FailureKinds

-----------------------------------------------------------------------------
(* Part two: the runner.                                                    *)

(***************************************************************************)
(* The inductive invariant.                                                *)
(***************************************************************************)

Waiting == pc \in {"poll", "kill"}          \* for the child
Judged  == pc \in {"stdout", "stderr", "count"}
InTest  == Waiting \/ pc = "judge" \/ Judged

\* The current test is one of the table's.
InTable == /\ Len(tests) <= asked
           /\ pc # "idle" => i <= Len(tests) + 1
           /\ InTest => i <= Len(tests)

\* The report of the assertion that the test failed is in the pipe.
Reported == /\ child.step \in DOMAIN Test.body
            /\ Failing.op = "fail"
            /\ failure = Message[Failing.report]

\* What a test may have done, and how its child then ends.
Deeds == {"nothing", "began", "finished", "quit", "failed", "exited", "crashed"}
Ended(deed) == CASE deed \in {"finished", "quit"} -> "exit0"
                 [] deed \in {"failed", "exited"} -> "exit1"
                 [] deed = "crashed" -> "signal"
                 [] OTHER -> "running"

\* The child's state is that of what the test did, until it is reaped; and the
\* pipe holds a report if and only if an assertion failed.
Course ==
    /\ did \in Deeds
    /\ ~Waiting => child.state = "none"
    /\ Waiting => \/ child.state = Ended(did)
                  \/ child.state = "reported" /\ did = "failed"
    /\ Waiting \/ pc = "judge" => /\ did # "nothing" /\ result = NoResult
                                  /\ IF did = "failed" THEN Reported ELSE failure = <<>>
    /\ pc = "kill" => Late(wait_counter)
    /\ pc = "judge" => \/ status = Ended(did)
                       \/ status = "exit0" /\ Late(wait_counter)

\* From the moment a test is judged its result fits it, and holds its report.
Verdicts ==
    Judged => /\ VerdictFits
              /\ did = "nothing" => pc = "count"
              /\ did = "failed" => /\ child.step \in DOMAIN Test.body /\ Failing.op = "fail"
                                   /\ Conveys(Failing.report, result.text)

\* What a test printed is in the pipes and in the buffer, after what the runner's
\* stdout had waiting; and what was read of the pipes is what they hold.
Outputs ==
    options.capture /\ InTest /\ did # "nothing" =>
        /\ stream.out \o child.buffer = Unwritten \o printed.out
        /\ Len(child.buffer) <= Capacity
        /\ stream.err = printed.err
        /\ pc \in {"stderr", "count"} => result.stdout = Kept(stream.out)
        /\ pc = "count" => result.stderr = Kept(stream.err)

\* Descriptors that the current test holds open.
Held == CASE Waiting \/ pc = "judge" -> IF options.capture THEN 4 ELSE 2
          [] pc = "stdout" -> 3
          [] pc = "stderr" -> 2
          [] pc = "count"  -> 1
          [] OTHER         -> 0

NoErrors == \A k \in DOMAIN log : log[k].kind # "ERROR"
Started  == {k \in DOMAIN log : log[k].kind # "SKIP"}

\* Every descriptor that is open is held by the current test, or by one that
\* was started before it in the first run.
Costs ==
    /\ pc \in {"poll", "kill", "judge", "stdout", "stderr"} => Held <= fds
    /\ pc \in {"stdout", "stderr"} => options.capture
    /\ runs = 0 => pc = "idle" /\ fds = 0
    /\ pc # "idle" /\ runs = 1 /\ NoErrors /\ (pc = "count" => did # "nothing")
          => fds = Cardinality(Started) + Held

Counted(as) == {k \in DOMAIN log : log[k].counted = as}

\* The log has the tests of the suite up to the current one, which is of the
\* suite too, in order, and the counts are its.
Counts ==
    pc # "idle" =>
        /\ InTest => Selected(Test)
        /\ {log[k].test : k \in DOMAIN log} = {n \in 1 .. i - 1 : Selected(tests[n])}
        /\ \A j, k \in DOMAIN log : j < k => log[j].test < log[k].test
        /\ counts.passed = Cardinality(Counted("passed"))
        /\ counts.failed = Cardinality(Counted("failed"))
        /\ counts.skipped = Cardinality(Counted("skipped"))

Entries == [test : Nat \ {0}, kind : Kinds \cup {"SKIP"}, did : Deeds,
            counted : {"passed", "failed", "skipped"}]

\* Each test of the log was counted by the verdict on what it did.
Tallied ==
    /\ log \in Seq(Entries) /\ printed \in [out : Seq(Lines), err : Seq(Lines)]
    /\ pc # "idle" => \A k \in DOMAIN log : log[k].kind # "SKIP" =>
          /\ log[k].counted = CountedAs(log[k].kind, tests[log[k].test].should_fail)
          /\ log[k].kind = "PASS" => log[k].did \in {"finished", "quit"}
          /\ log[k].did \in {"finished", "quit"} => log[k].kind \in {"PASS", "FAIL_TIMEOUT"}

\* Nothing is counted as an error, and what was skipped as nothing else.
NoneAmiss ==
    /\ counts.errors = 0
    /\ \A k \in DOMAIN log : log[k].kind = "SKIP" => log[k].counted = "skipped"

IInv == /\ TypeOK /\ InTable /\ Course /\ Verdicts /\ Outputs
        /\ Costs /\ Counts /\ Tallied /\ NoneAmiss

-----------------------------------------------------------------------------
(* Reports and tests.                                                      *)

\* The report of a step that fails an assertion is one of the tabulated ones,
\* and so is what is read of its message.
LEMMA Tabulated ==
  ASSUME NEW t \in Tests, NEW k \in DOMAIN t.body, t.body[k].op = "fail"
  PROVE  LET r == t.body[k].report
         IN  /\ r \in FailureReports
             /\ Message[r] # <<>> /\ Len(Message[r]) <= MaxMessage
             /\ Read[Message[r]].kind = r.kind /\ r.kind \in FailureKinds
             /\ Read[Message[r]].text \in ReportTexts
             /\ Conveys(r, Read[Message[r]].text)
<1> DEFINE r == t.body[k].report
<1>1. t.body \in Seq(Steps)
  BY TestsAssumption
<1>2. t.body[k] \in Steps
  BY <1>1
<1>3. r \in FailureReports
  BY <1>2 DEF Steps
<1>4. r \in Reports
  <2>1. k \in {j \in DOMAIN t.body : t.body[j].op = "fail"}
    OBVIOUS
  <2> QED
    BY <2>1 DEF Reports
<1> HIDE DEF r
<1>5. Message[r] = Format(r)
  BY <1>4 DEF Message
<1>6. Read[Message[r]] = Parse(Format(r))
  BY <1>4, <1>5 DEF Read
<1>7. r.kind \in FailureKinds
  BY <1>3 DEF FailureReports
<1> QED
  BY <1>3, <1>5, <1>6, <1>7, ReportConveyed DEF r

\* The current test has the fields of a test.
LEMMA TestType ==
  ASSUME TypeOK, InTable, InTest
  PROVE  /\ Test \in Tests /\ i \in DOMAIN tests
         /\ Test.body \in Seq(Steps)
         /\ Limit(Test) \in Int
         /\ Test.should_fail \in BOOLEAN
<1>1. pc # "idle"
  BY DEF InTest, Waiting, Judged
<1>2. i \in 1 .. Len(tests) /\ tests \in Seq(Tests)
  BY <1>1 DEF InTable, TypeOK
<1>3. tests[i] \in Tests
  BY <1>2
<1>4. /\ tests[i].body \in Seq(Steps) /\ tests[i].timeout \in Int
      /\ tests[i].should_fail \in BOOLEAN
  BY <1>3, TestsAssumption
<1>5. options.default_timeout \in Int
  <2>1. options.default_timeout \in Timeouts \cup {0}
    BY DEF TypeOK
  <2>2. Timeouts \subseteq Nat
    BY TestRunnerAssumption
  <2>3. CASE options.default_timeout = 0
    BY <2>3
  <2>4. CASE options.default_timeout \in Timeouts
    <3>1. options.default_timeout \in Nat
      BY <2>2, <2>4
    <3> QED
      BY <3>1
  <2> QED
    BY <2>1, <2>3, <2>4
<1> QED
  BY <1>2, <1>3, <1>4, <1>5 DEF Test, Limit

-----------------------------------------------------------------------------
(* The initial state.                                                      *)

LEMMA InitIInv ==
  ASSUME Init
  PROVE  IInv
<1> USE DEF Init
<1>1. TypeOK
  <2>1. /\ MaxTests \in Nat /\ MaxFds \in Nat /\ MaxRuns \in Nat
        /\ MaxMessage \in Nat /\ PipeLines \in Nat
    BY TestRunnerAssumption, FailureReportAssumption
  <2>2. Nothing \in ReportTexts
    BY DEF Nothing, ReportTexts, Text
  <2>3. /\ options \in [default_timeout : Timeouts \cup {0}, capture : BOOLEAN,
                        suite : Suites \cup {NoSuite}]
        /\ child \in [state : {"none", "running", "reported", "exit0", "exit1", "signal"},
                      step : Nat \ {0}, buffer : Seq(Lines)]
        /\ stream \in [out : Seq(Lines), err : Seq(Lines)]
        /\ stream.out = <<>> /\ stream.err = <<>>
        /\ result \in [kind : Kinds, text : ReportTexts, stdout : Seq(Lines), stderr : Seq(Lines)]
        /\ counts \in [passed : Nat, failed : Nat, skipped : Nat, errors : Nat]
    BY <2>2 DEF NoChild, NoStream, NoResult, NoCounts, Kinds
  <2>4. /\ tests \in Seq(Tests) /\ Len(tests) <= testsk /\ testsk \in Nat
        /\ {Len(stream.out), Len(stream.err)} \subseteq 0 .. PipeLines
        /\ Len(failure) <= MaxMessage
    BY <2>1, <2>3
  <2> HIDE DEF Init
  <2>5. /\ asked \in 0 .. MaxTests /\ i \in 1 .. MaxTests + 1 /\ fds \in 0 .. MaxFds
        /\ runs \in 0 .. MaxRuns /\ ret \in 0 .. 2 /\ wait_counter \in Nat
    BY <2>1 DEF Init
  <2>6. terminal \in BOOLEAN /\ left \in BOOLEAN /\ pc = "idle" /\ status = "exit0"
    BY DEF Init
  <2> QED
    BY <2>3, <2>4, <2>5, <2>6 DEF TypeOK
<1>2. /\ InTable /\ Course /\ Verdicts /\ Outputs /\ Costs /\ Counts /\ Tallied
      /\ NoneAmiss
  BY DEF InTable, Course, Verdicts, Outputs, Costs, Counts, Tallied, NoneAmiss, NoCounts, InTest, Waiting, Judged,
         Deeds, NoChild, NoStream
<1> QED
  BY <1>1, <1>2 DEF IInv

-----------------------------------------------------------------------------
(* The table and the types.                                                *)

\* The child's steps leave the runner's state alone.
LEMMA ChildFrame ==
  ASSUME Child \/ LeftEnds
  PROVE  /\ UNCHANGED <<table, config, pc, i, fds, status, wait_counter>>
         /\ UNCHANGED <<result, counts, ret, runs, log>>
BY DEF Child, LeftEnds, Puts, Flush, PutsError, Leave, Fail, FailExit, Die, Finish, ChildUnchanged

LEMMA InTableKept ==
  ASSUME IInv, [Next]_vars
  PROVE  InTable'
<1> USE DEF InTable, InTest, Waiting, Judged
<1>0. InTable /\ tests \in Seq(Tests) /\ asked \in Nat /\ i \in Nat /\ Len(tests) \in Nat
  <2>1. InTable /\ tests \in Seq(Tests) /\ asked \in 0 .. MaxTests /\ i \in 1 .. MaxTests + 1
    BY DEF IInv, TypeOK
  <2> QED
    BY <2>1
<1>1. ASSUME NEW t \in Tests, Register(t) PROVE InTable'
  BY <1>0, <1>1 DEF Register
<1>2. CASE RegisterFails
  BY <1>0, <1>2 DEF RegisterFails, config
<1>3. ASSUME NEW o \in Options, Run(o) PROVE InTable'
  BY <1>0, <1>3 DEF Run, table
<1>4. CASE Runner
  <2>1. CASE Return
    BY <1>0, <2>1 DEF Return
  <2>2. CASE Count \/ Skip \/ PassOver
    BY <1>0, <2>2 DEF Count, Skip, PassOver, table
  <2>3. CASE Start \/ StartFails
    BY <1>0, <2>3 DEF Start, StartFails, AtTest, table
  <2>4. CASE Reap \/ Tick \/ Kill \/ Judge \/ CaptureStdout \/ CaptureStderr
    BY <1>0, <2>4 DEF Reap, Tick, Kill, Judge, CaptureStdout, CaptureStderr, table
  <2> QED
    BY <1>4, <2>1, <2>2, <2>3, <2>4 DEF Runner
<1>5. CASE Child \/ LeftEnds
  BY <1>0, <1>5, ChildFrame DEF table
<1>6. CASE UNCHANGED vars
  BY <1>0, <1>6 DEF vars, table
<1> QED
  BY <1>1, <1>2, <1>3, <1>4, <1>5, <1>6 DEF Next, Over

\* While the runner has not judged a test, the message in the pipe is that of
\* the assertion that failed.
LEMMA ReportInPipe ==
  ASSUME TypeOK, InTable, Course, Waiting \/ pc = "judge"
  PROVE  /\ failure # <<>> <=> did = "failed"
         /\ failure # <<>> => LET r == Failing.report
                              IN  /\ Read[failure].kind = r.kind /\ r.kind \in FailureKinds
                                  /\ Read[failure].text \in ReportTexts
                                  /\ Conveys(r, Read[failure].text)
                                  /\ child.step \in DOMAIN Test.body /\ Failing.op = "fail"
<1>1. Test \in Tests
  BY TestType DEF InTest
<1>2. did = "failed" => Reported
  BY DEF Course
<1>3. did # "failed" => failure = <<>>
  BY DEF Course
<1>4. CASE did = "failed"
  <2>1. child.step \in DOMAIN Test.body /\ Test.body[child.step].op = "fail"
        /\ failure = Message[Test.body[child.step].report]
    BY <1>2, <1>4 DEF Reported, Failing
  <2> QED
    BY <1>1, <1>4, <2>1, Tabulated DEF Failing
<1> QED
  BY <1>3, <1>4

\* What the runner judges is a kind, and what it reads of a report are texts.
LEMMA Verdicted ==
  ASSUME TypeOK, InTable, Course, pc = "judge"
  PROVE  Verdict(failure) \in Kinds /\ Verdict(failure) # "ERROR"
<1>1. CASE failure # <<>>
  <2>1. Read[failure].kind \in FailureKinds
    BY <1>1, ReportInPipe
  <2> QED
    BY <1>1, <2>1 DEF Verdict, Kinds, FailureKinds
<1>2. CASE failure = <<>>
  BY <1>2 DEF Verdict, Kinds
<1> QED
  BY <1>1, <1>2

LEMMA KeptLines ==
  ASSUME NEW lines \in Seq(Lines)
  PROVE  Kept(lines) \in Seq(Lines)
BY TestRunnerAssumption DEF Kept

\* A line that is written where there is room.
LEMMA Written ==
  ASSUME NEW line \in Lines, NEW s \in {"out", "err"}, TypeOK, HasRoom(stream[s])
  PROVE  /\ Write(s, line) \in [out : Seq(Lines), err : Seq(Lines)]
         /\ Len(Write(s, line).out) \in 0 .. PipeLines
         /\ Len(Write(s, line).err) \in 0 .. PipeLines
<1>1. /\ stream \in [out : Seq(Lines), err : Seq(Lines)] /\ PipeLines \in Nat
      /\ Len(stream.out) \in 0 .. PipeLines /\ Len(stream.err) \in 0 .. PipeLines
  BY TestRunnerAssumption DEF TypeOK
<1>2. stream[s] \in Seq(Lines) /\ Len(stream[s]) \in 0 .. PipeLines
  BY <1>1
<1>3. CASE options.capture
  <2>1. Append(stream[s], line) \in Seq(Lines) /\ Len(Append(stream[s], line)) = Len(stream[s]) + 1
    BY <1>2
  <2>2. Len(Append(stream[s], line)) \in 0 .. PipeLines
    BY <1>1, <1>2, <1>3, <2>1 DEF HasRoom
  <2>3. Write(s, line) = [stream EXCEPT ![s] = Append(stream[s], line)]
    BY <1>3 DEF Write
  <2> QED
    BY <1>1, <2>1, <2>2, <2>3
<1> QED
  BY <1>1, <1>3 DEF Write

\* What the runner's stdout has waiting are lines.
LEMMA UnwrittenLines == Unwritten \in Seq(Lines)
<1>1. "runner" \in Lines
  BY TestRunnerAssumption
<1>2. \A line \in Lines : <<line>> \in Seq(Lines)
  OBVIOUS
<1>3. <<"runner">> \in Seq(Lines) /\ <<>> \in Seq(Lines)
  BY <1>1, <1>2
<1> QED
  BY <1>3 DEF Unwritten

\* A line of a test is one.
LEMMA LineOfTest ==
  ASSUME TypeOK, InTable, At("out") \/ At("err")
  PROVE  Step.line \in Lines
<1>1. Waiting /\ child.step <= Len(Test.body) /\ Step.op \in {"out", "err"}
  BY DEF At, Alive, Waiting
<1>2. Test.body \in Seq(Steps) /\ child.step \in Nat \ {0}
  BY <1>1, TestType DEF InTest, TypeOK
<1>3. Step \in Steps
  BY <1>1, <1>2 DEF Step
<1> QED
  BY <1>1, <1>3 DEF Steps

\* Types.
LEMMA TypeKept ==
  ASSUME IInv, [Next]_vars
  PROVE  TypeOK'
<1>0. TypeOK /\ InTable /\ InTable'
  BY InTableKept DEF IInv
<1> DEFINE Pcs == {"idle", "next", "poll", "kill", "judge", "stdout", "stderr", "count"}
           Children == [state : {"none", "running", "reported", "exit0", "exit1", "signal"},
                        step : Nat \ {0}, buffer : Seq(Lines)]
           Streams == [out : Seq(Lines), err : Seq(Lines)]
           Results == [kind : Kinds, text : ReportTexts, stdout : Seq(Lines), stderr : Seq(Lines)]
           AllOptions == [default_timeout : Timeouts \cup {0}, capture : BOOLEAN,
                          suite : Suites \cup {NoSuite}]
           AllCounts == [passed : Nat, failed : Nat, skipped : Nat, errors : Nat]
<1>1. /\ tests \in Seq(Tests) /\ testsk \in Nat /\ Len(tests) <= testsk /\ asked \in 0 .. MaxTests
      /\ terminal \in BOOLEAN /\ left \in BOOLEAN /\ options \in AllOptions /\ pc \in Pcs
      /\ i \in 1 .. MaxTests + 1 /\ fds \in 0 .. MaxFds
      /\ child \in Children /\ stream \in Streams
      /\ Len(stream.out) \in 0 .. PipeLines /\ Len(stream.err) \in 0 .. PipeLines
      /\ Len(failure) <= MaxMessage /\ status \in {"exit0", "exit1", "signal"}
      /\ wait_counter \in Nat /\ result \in Results /\ counts \in AllCounts
      /\ ret \in 0 .. 2 /\ runs \in 0 .. MaxRuns
      /\ Len(tests) \in Nat
  BY <1>0 DEF TypeOK
<1>2. MaxTests \in Nat /\ MaxFds \in Nat /\ MaxRuns \in Nat /\ MaxMessage \in Nat
      /\ PipeLines \in Nat /\ Growth \in Nat \ {0}
  BY TestRunnerAssumption, FailureReportAssumption
\* The table and the position in it.
<1>3. /\ tests' \in Seq(Tests) /\ testsk' \in Nat /\ Len(tests') <= testsk'
      /\ asked' \in 0 .. MaxTests /\ i' \in 1 .. MaxTests + 1
  <2>1. ASSUME NEW t \in Tests, Register(t)
        PROVE  tests' \in Seq(Tests) /\ testsk' \in Nat /\ Len(tests') <= testsk'
               /\ asked' \in 0 .. MaxTests /\ i' \in 1 .. MaxTests + 1
    <3>1. tests' \in Seq(Tests) /\ Len(tests') = Len(tests) + 1
      BY <1>1, <2>1 DEF Register
    <3>2. testsk' = IF Full THEN testsk + Growth ELSE testsk
      BY <2>1 DEF Register
    <3>3. testsk' \in Nat /\ Len(tests) + 1 <= testsk'
      BY <1>1, <1>2, <3>2 DEF Full
    <3>4. asked < MaxTests /\ asked' = asked + 1 /\ i' = i
      BY <2>1 DEF Register
    <3> QED
      BY <1>1, <1>2, <3>1, <3>3, <3>4
  <2>2. CASE RegisterFails
    <3>1. asked < MaxTests /\ asked' = asked + 1 /\ tests' = tests /\ testsk' = testsk /\ i' = i
      BY <2>2 DEF RegisterFails
    <3> QED
      BY <1>1, <1>2, <3>1
  <2>3. ASSUME NEW o \in Options, Run(o)
        PROVE  i' \in 1 .. MaxTests + 1 /\ UNCHANGED table
    <3>1. i' = 1 /\ UNCHANGED table
      BY <2>3 DEF Run
    <3> QED
      BY <1>2, <3>1
  <2>4. CASE PassOver \/ Skip \/ Count
    <3>1. i' = i + 1 /\ UNCHANGED table /\ i <= Len(tests)
      BY <1>0, <2>4 DEF PassOver, Skip, Count, InTable, InTest, Judged
    <3> QED
      BY <1>0, <1>1, <1>2, <3>1 DEF table, InTable
  <2>5. CASE Return
    BY <1>1, <2>5 DEF Return
  <2>6. CASE \/ Start \/ StartFails \/ Reap \/ Tick \/ Kill \/ Judge \/ CaptureStdout
             \/ CaptureStderr \/ Child \/ LeftEnds \/ UNCHANGED vars
    <3>1. UNCHANGED <<table, i>>
      <4>1. CASE Start \/ StartFails \/ Reap \/ Tick \/ Kill \/ Judge
        BY <4>1 DEF Start, StartFails, Reap, Tick, Kill, Judge
      <4>2. CASE CaptureStdout \/ CaptureStderr \/ UNCHANGED vars
        BY <4>2 DEF CaptureStdout, CaptureStderr, vars
      <4>3. CASE Child \/ LeftEnds
        BY <4>3, ChildFrame
      <4> QED
        BY <2>6, <4>1, <4>2, <4>3
    <3> QED
      BY <1>1, <3>1 DEF table
  <2>7. UNCHANGED table => tests' = tests /\ testsk' = testsk /\ asked' = asked
    BY DEF table
  <2> HIDE DEF AllOptions, AllCounts, Children, Streams, Results, Pcs
  <2> QED
    BY <1>1, <2>1, <2>2, <2>3, <2>4, <2>5, <2>6, <2>7 DEF Next, Runner, Over
\* Modes, clocks and numbers of runs.
<1>4. /\ terminal' \in BOOLEAN /\ options' \in AllOptions /\ pc' \in Pcs
      /\ ret' \in 0 .. 2 /\ runs' \in 0 .. MaxRuns /\ wait_counter' \in Nat
  <2>1. ASSUME NEW o \in Options, Run(o)
        PROVE  /\ terminal' = terminal /\ options' \in AllOptions /\ pc' = "next"
               /\ ret' = ret /\ runs' \in 0 .. MaxRuns /\ wait_counter' = wait_counter
    <3>1. /\ runs < MaxRuns /\ runs' = runs + 1 /\ options' = o /\ UNCHANGED terminal
          /\ pc' = "next" /\ UNCHANGED <<ret, wait_counter>>
      BY <2>1 DEF Run
    <3>2. o \in AllOptions
      BY DEF Options
    <3>3. runs' \in 0 .. MaxRuns
      BY <1>1, <1>2, <3>1
    <3> QED
      BY <3>1, <3>2, <3>3
  <2>2. CASE Return
    <3>1. ret' \in 0 .. 2
      BY <2>2 DEF Return
    <3>2. UNCHANGED <<config, runs, wait_counter>> /\ pc' = "idle"
      BY <2>2 DEF Return
    <3> QED
      BY <1>1, <3>1, <3>2 DEF config
  <2>3. CASE Tick
    <3>1. wait_counter' \in Nat
      BY <1>1, <2>3 DEF Tick
    <3>2. UNCHANGED <<config, runs, ret>> /\ pc' \in {"kill", "poll"}
      BY <2>3 DEF Tick
    <3> QED
      BY <1>1, <3>1, <3>2 DEF config
  <2>4. CASE Start
    <3>1. wait_counter' = 0 /\ UNCHANGED <<config, runs, ret>> /\ pc' = "poll"
      BY <2>4 DEF Start
    <3> QED
      BY <1>1, <3>1 DEF config
  <2>5. CASE \/ \E t \in Tests : Register(t)
             \/ RegisterFails \/ PassOver \/ Skip \/ StartFails \/ Reap \/ Kill \/ Judge
             \/ CaptureStdout \/ CaptureStderr \/ Count \/ Child \/ LeftEnds \/ UNCHANGED vars
    <3>1. UNCHANGED <<config, ret, runs, wait_counter>> /\ pc' \in Pcs
      <4>1. CASE (\E t \in Tests : Register(t)) \/ RegisterFails \/ PassOver \/ Skip \/ UNCHANGED vars
        BY <1>1, <4>1 DEF Register, RegisterFails, PassOver, Skip, vars
      <4>2. CASE StartFails \/ Reap \/ Kill \/ Judge \/ CaptureStdout \/ CaptureStderr \/ Count
        BY <1>1, <4>2 DEF StartFails, Reap, Kill, Judge, CaptureStdout, CaptureStderr, Count
      <4>3. CASE Child \/ LeftEnds
        BY <1>1, <4>3, ChildFrame
      <4> QED
        BY <2>5, <4>1, <4>2, <4>3
    <3> QED
      BY <1>1, <3>1 DEF config
  <2> HIDE DEF AllOptions
  <2> QED
    BY <1>1, <2>1, <2>2, <2>3, <2>4, <2>5 DEF Next, Runner, Over
\* Descriptors: those that are closed were open.
<1>5. fds' \in 0 .. MaxFds
  <2>0. fds \in Nat /\ MaxFds \in Nat /\ fds <= MaxFds /\ options.capture \in BOOLEAN
    BY <1>1, <1>2
  <2>1. CASE StartFails \/ Start
    <3> DEFINE free == (MaxFds - fds) \div 2
    <3>1. free \in Nat /\ 2 * free + fds <= MaxFds
      BY <2>0
    <3>2. Needed \in Nat /\ Needed >= 1
      BY DEF Needed
    <3>3. Opened \in Nat /\ Opened <= free
      BY <3>1, <3>2 DEF Opened
    <3>4. CASE StartFails
      <4>1. fds' = fds + 2 * Opened
        BY <3>4 DEF StartFails
      <4> HIDE DEF free
      <4> QED
        BY <2>0, <3>1, <3>3, <4>1
    <3>5. CASE Start
      <4>1. fds' = fds + 2 * Opened - (IF options.capture THEN 2 ELSE 0)
        BY <3>5 DEF Start
      <4>2. Opened >= 1
        BY <3>2, <3>5 DEF Start
      <4>3. fds' \in Int /\ fds' >= fds /\ fds' <= fds + 2 * Opened
        BY <2>0, <3>3, <4>1, <4>2
      <4> HIDE DEF free
      <4> QED
        BY <2>0, <3>1, <3>3, <4>3
    <3> QED
      BY <2>1, <3>4, <3>5
  <2>2. CASE Judge \/ CaptureStdout \/ CaptureStderr
    <3>1. fds' = fds - 1 /\ pc \in {"judge", "stdout", "stderr"}
      BY <2>2 DEF Judge, CaptureStdout, CaptureStderr
    <3>2. Held <= fds
      BY <3>1 DEF IInv, Costs
    <3>3. Held \in Nat /\ Held >= 1
      BY <3>1 DEF Held, Waiting
    <3> QED
      BY <2>0, <3>1, <3>2, <3>3
  <2>3. CASE \/ (\E t \in Tests : Register(t)) \/ RegisterFails \/ (\E o \in Options : Run(o))
             \/ PassOver \/ Skip \/ Return \/ Reap \/ Tick \/ Kill \/ Count \/ Child \/ LeftEnds
             \/ UNCHANGED vars
    <3>1. CASE \/ (\E t \in Tests : Register(t)) \/ RegisterFails \/ (\E o \in Options : Run(o))
               \/ PassOver \/ Skip \/ UNCHANGED vars
      BY <1>1, <3>1 DEF Register, RegisterFails, Run, PassOver, Skip, vars
    <3>2. CASE Return \/ Reap \/ Tick \/ Kill \/ Count
      BY <1>1, <3>2 DEF Return, Reap, Tick, Kill, Count
    <3>3. CASE Child \/ LeftEnds
      BY <1>1, <3>3, ChildFrame
    <3> QED
      BY <2>3, <3>1, <3>2, <3>3
  <2> QED
    BY <2>1, <2>2, <2>3 DEF Next, Runner, Over
\* The child and its pipes.
<1>6. /\ status' \in {"exit0", "exit1", "signal"} /\ child' \in Children
      /\ left' \in BOOLEAN /\ Len(failure') <= MaxMessage
      /\ stream' \in Streams
      /\ Len(stream'.out) \in 0 .. PipeLines /\ Len(stream'.err) \in 0 .. PipeLines
  <2>1. CASE Start
    <3>1. child' = [state |-> "running", step |-> 1,
                    buffer |-> Unwritten]
      BY <2>1 DEF Start
    <3>2. child' \in Children
      <4> QED
        BY <3>1, UnwrittenLines
    <3>3. stream' = NoStream /\ failure' = <<>> /\ left' = FALSE /\ status' = "exit0"
      BY <2>1 DEF Start
    <3>4. stream' \in Streams /\ Len(stream'.out) = 0 /\ Len(stream'.err) = 0
          /\ Len(failure') = 0
      BY <3>3 DEF NoStream
    <3>5. /\ Len(stream'.out) \in 0 .. PipeLines /\ Len(stream'.err) \in 0 .. PipeLines
          /\ Len(failure') <= MaxMessage
      BY <1>2, <3>4
    <3> QED
      BY <3>2, <3>3, <3>4, <3>5
  <2>2. CASE Reap \/ Kill
    <3>1. status' \in {"exit0", "exit1", "signal"}
      <4>1. CASE Reap
        <5>1. child.state \notin {"running", "reported"} /\ status' = child.state /\ Waiting
          BY <4>1 DEF Reap, Waiting
        <5>2. child.state = Ended(did) /\ did \in Deeds
          BY <5>1 DEF IInv, Course
        <5> QED
          BY <5>1, <5>2 DEF Ended, Deeds
      <4> QED
        BY <2>2, <4>1 DEF Kill
    <3>2. child' = [child EXCEPT !.state = "none"]
      BY <2>2 DEF Reap, Kill
    <3>3. child' \in Children
      BY <1>1, <3>2
    <3>4. UNCHANGED <<stream, failure, left>>
      BY <2>2 DEF Reap, Kill
    <3> QED
      BY <1>1, <3>1, <3>3, <3>4
  <2>3. CASE Judge
    <3>1. UNCHANGED <<child, stream, left, status>> /\ failure' = <<>>
      BY <2>3 DEF Judge
    <3> QED
      BY <1>1, <1>2, <3>1
  <2>4. CASE Child \/ LeftEnds
    <3>0. /\ child.step \in Nat /\ child.step >= 1 /\ child.step + 1 \in Nat \ {0}
          /\ child.buffer \in Seq(Lines)
      <4>1. child.step \in Nat \ {0} /\ child.buffer \in Seq(Lines)
        BY <1>1, ZenonT(30)
      <4> HIDE <1>1
      <4> QED
        BY <4>1, SMTT(30)
    <3>1. status' \in {"exit0", "exit1", "signal"}
      BY <1>1, <2>4, ChildFrame
    <3>2. CASE Puts
      <4> DEFINE buffer == Append(child.buffer, Step.line)
      <4>0. Step.line \in Lines
        BY <1>0, <3>2, LineOfTest DEF Puts
      <4>1. buffer \in Seq(Lines) /\ buffer # <<>>
        BY <3>0, <4>0
      <4>2. Tail(buffer) \in Seq(Lines) /\ Head(buffer) \in Lines
        BY <4>1
      <4>3. UNCHANGED <<failure, left>>
        BY <3>2 DEF Puts
      <4>4. CASE Len(buffer) <= Capacity
        <5>1. child' = [child EXCEPT !.step = child.step + 1, !.buffer = buffer] /\ UNCHANGED stream
          BY <3>2, <4>4 DEF Puts
        <5>2. child' \in Children
          BY <1>1, <3>0, <4>1, <5>1
        <5> QED
          BY <1>1, <3>1, <4>3, <5>1, <5>2
      <4>5. CASE ~(Len(buffer) <= Capacity)
        <5>1. /\ child' = [child EXCEPT !.step = child.step + 1, !.buffer = Tail(buffer)]
              /\ HasRoom(stream.out) /\ stream' = Write("out", Head(buffer))
          BY <3>2, <4>5 DEF Puts
        <5> HIDE DEF buffer
        <5>2. child' \in Children
          BY <1>1, <3>0, <4>2, <5>1
        <5> HIDE DEF Children
        <5> QED
          BY <1>0, <1>1, <3>1, <4>2, <4>3, <5>1, <5>2, Written
      <4> QED
        BY <4>4, <4>5
    <3>3. CASE Flush
      <4>1. UNCHANGED <<failure, left>>
        BY <3>3 DEF Flush
      <4>2. CASE child.buffer = <<>>
        <5>1. child' = [child EXCEPT !.step = child.step + 1] /\ UNCHANGED stream
          BY <3>3, <4>2 DEF Flush
        <5>2. child' \in Children
          BY <1>1, <3>0, <5>1
        <5> QED
          BY <1>1, <3>1, <4>1, <5>1, <5>2
      <4>3. CASE child.buffer # <<>>
        <5>1. /\ child' = [child EXCEPT !.buffer = Tail(child.buffer)]
              /\ HasRoom(stream.out) /\ stream' = Write("out", Head(child.buffer))
          BY <3>3, <4>3 DEF Flush
        <5>2. Tail(child.buffer) \in Seq(Lines) /\ Head(child.buffer) \in Lines
          BY <1>1, <4>3
        <5>3. child' \in Children
          BY <1>1, <3>0, <5>1, <5>2
        <5> HIDE DEF Children
        <5> QED
          BY <1>0, <1>1, <3>1, <4>1, <5>1, <5>2, <5>3, Written
      <4> QED
        BY <4>2, <4>3
    <3>4. CASE PutsError
      <4>1. /\ child' = [child EXCEPT !.step = child.step + 1] /\ UNCHANGED <<failure, left>>
            /\ HasRoom(stream.err) /\ stream' = Write("err", Step.line)
        BY <3>4 DEF PutsError
      <4>2. child' \in Children /\ Step.line \in Lines
        BY <1>0, <1>1, <3>0, <3>4, <4>1, LineOfTest DEF PutsError
      <4> HIDE DEF Children
      <4> QED
        BY <1>0, <1>1, <3>1, <4>1, <4>2, Written
    <3>5. CASE Leave \/ FailExit \/ Die \/ Finish \/ LeftEnds
      <4>1. UNCHANGED <<stream, failure>> /\ left' \in BOOLEAN
        BY <1>1, <3>5 DEF Leave, FailExit, Die, Finish, LeftEnds
      <4>2. \/ child' = child
            \/ child' = [child EXCEPT !.step = child.step + 1]
            \/ child' = [child EXCEPT !.state = "exit0"]
            \/ child' = [child EXCEPT !.state = "exit1"]
            \/ child' = [child EXCEPT !.state = "signal"]
        BY <3>5 DEF Leave, FailExit, Die, Finish, LeftEnds
      <4>3. child' \in Children
        BY <1>1, <3>0, <4>2
      <4> QED
        BY <1>1, <3>1, <4>1, <4>3
    <3>6. CASE Fail
      <4>1. /\ UNCHANGED <<stream, left>> /\ failure' = Message[Step.report]
            /\ child' = [child EXCEPT !.state = "reported"]
            /\ child.step <= Len(Test.body) /\ Step.op = "fail" /\ Waiting
        BY <3>6 DEF Fail, At, Alive, Waiting
      <4>2. Test \in Tests /\ Test.body \in Seq(Steps)
        BY <1>0, <4>1, TestType DEF InTest
      <4>3. child.step \in DOMAIN Test.body
        BY <3>0, <4>1, <4>2
      <4>4. Len(failure') <= MaxMessage
        BY <4>1, <4>2, <4>3, Tabulated DEF Step
      <4>5. child' \in Children
        BY <1>1, <3>0, <4>1
      <4> QED
        BY <1>1, <3>1, <4>1, <4>4, <4>5
    <3> HIDE DEF Children, Streams
    <3> QED
      BY <2>4, <3>2, <3>3, <3>4, <3>5, <3>6 DEF Child
  <2>5. CASE \/ (\E t \in Tests : Register(t)) \/ RegisterFails \/ (\E o \in Options : Run(o))
             \/ PassOver \/ Skip \/ Return \/ StartFails \/ Tick \/ CaptureStdout \/ CaptureStderr
             \/ Count \/ UNCHANGED vars
    <3>1. UNCHANGED <<process, status>>
      <4>1. CASE \/ (\E t \in Tests : Register(t)) \/ RegisterFails \/ (\E o \in Options : Run(o))
                 \/ PassOver \/ Skip \/ UNCHANGED vars
        BY <4>1 DEF Register, RegisterFails, Run, PassOver, Skip, vars
      <4>2. CASE Return \/ StartFails \/ Tick \/ CaptureStdout \/ CaptureStderr \/ Count
        BY <4>2 DEF Return, StartFails, Tick, CaptureStdout, CaptureStderr, Count
      <4> QED
        BY <2>5, <4>1, <4>2
    <3> QED
      BY <1>1, <3>1 DEF process
  <2> HIDE DEF Children, Streams
  <2> QED
    BY <2>1, <2>2, <2>3, <2>4, <2>5 DEF Next, Runner, Over
\* What is found of a test.
<1>7. result' \in Results
  <2>0. Nothing \in ReportTexts
    BY DEF Nothing, ReportTexts, Text
  <2>1. CASE Start \/ StartFails
    <3>1. NoResult \in Results
      BY <2>0 DEF NoResult, Kinds
    <3>2. result' = NoResult \/ result' = [NoResult EXCEPT !.kind = "ERROR"]
      BY <2>1 DEF Start, StartFails
    <3>3. "ERROR" \in Kinds
      BY DEF Kinds
    <3> QED
      BY <3>1, <3>2, <3>3
  <2>2. CASE Judge
    <3>1. pc = "judge" /\ Course
      BY <2>2 DEF Judge, IInv
    <3>2. Verdict(failure) \in Kinds
      BY <1>0, <3>1, Verdicted
    <3>3. failure # <<>> => Read[failure].text \in ReportTexts
      BY <1>0, <3>1, ReportInPipe
    <3>4. result' = [result EXCEPT !.kind = Verdict(failure),
                                   !.text = IF failure # <<>> THEN Read[failure].text
                                            ELSE result.text]
      BY <2>2 DEF Judge
    <3> QED
      BY <1>1, <3>2, <3>3, <3>4
  <2>3. CASE CaptureStdout \/ CaptureStderr
    <3>1. \/ result' = [result EXCEPT !.stdout = Kept(stream.out)]
          \/ result' = [result EXCEPT !.stderr = Kept(stream.err)]
      BY <2>3 DEF CaptureStdout, CaptureStderr
    <3>2. Kept(stream.out) \in Seq(Lines) /\ Kept(stream.err) \in Seq(Lines)
      BY <1>1, KeptLines
    <3> QED
      BY <1>1, <3>1, <3>2
  <2>4. CASE \/ (\E t \in Tests : Register(t)) \/ RegisterFails \/ (\E o \in Options : Run(o))
             \/ PassOver \/ Skip \/ Return \/ Reap \/ Tick \/ Kill \/ Count \/ Child \/ LeftEnds
             \/ UNCHANGED vars
    <3>1. CASE \/ (\E t \in Tests : Register(t)) \/ RegisterFails \/ (\E o \in Options : Run(o))
               \/ PassOver \/ Skip \/ UNCHANGED vars
      BY <1>1, <3>1 DEF Register, RegisterFails, Run, PassOver, Skip, vars
    <3>2. CASE Return \/ Reap \/ Tick \/ Kill \/ Count
      BY <1>1, <3>2 DEF Return, Reap, Tick, Kill, Count
    <3>3. CASE Child \/ LeftEnds
      BY <1>1, <3>3, ChildFrame
    <3> QED
      BY <2>4, <3>1, <3>2, <3>3
  <2> HIDE DEF Results
  <2> QED
    BY <2>1, <2>2, <2>3, <2>4 DEF Next, Runner, Over
<1>8. counts' \in AllCounts
  <2>1. ASSUME NEW as \in {"passed", "failed", "skipped"}, counts' = [counts EXCEPT ![as] = @ + 1]
        PROVE  counts' \in AllCounts
    <3>1. counts.passed + 1 \in Nat /\ counts.failed + 1 \in Nat /\ counts.skipped + 1 \in Nat
      <4>1. counts.passed \in Nat /\ counts.failed \in Nat /\ counts.skipped \in Nat
        BY <1>1
      <4> HIDE DEF AllCounts
      <4> QED
        BY <4>1
    <3>2. CASE as = "passed"
      BY <1>1, <2>1, <3>1, <3>2
    <3>3. CASE as = "failed"
      BY <1>1, <2>1, <3>1, <3>3
    <3>4. CASE as = "skipped"
      BY <1>1, <2>1, <3>1, <3>4
    <3> QED
      BY <3>2, <3>3, <3>4
  <2>2. CASE Skip
    <3>1. counts' = [counts EXCEPT !["skipped"] = @ + 1]
      BY <2>2 DEF Skip
    <3> QED
      BY <2>1, <3>1
  <2>3. CASE Count
    <3>1. counts' = [counts EXCEPT ![CountedAs(result.kind, Test.should_fail)] = @ + 1]
      BY <2>3 DEF Count
    <3>2. CountedAs(result.kind, Test.should_fail) \in {"passed", "failed", "skipped"}
      BY DEF CountedAs
    <3> QED
      BY <2>1, <3>1, <3>2
  <2>4. ASSUME NEW o \in Options, Run(o)
        PROVE  counts' \in AllCounts
    BY <2>4 DEF Run, NoCounts
  <2>5. CASE \/ (\E t \in Tests : Register(t)) \/ RegisterFails \/ PassOver \/ Return \/ Start
             \/ StartFails \/ Reap \/ Tick \/ Kill \/ Judge \/ CaptureStdout \/ CaptureStderr
             \/ Child \/ LeftEnds \/ UNCHANGED vars
    <3>1. CASE \/ (\E t \in Tests : Register(t)) \/ RegisterFails \/ PassOver \/ UNCHANGED vars
      BY <1>1, <3>1 DEF Register, RegisterFails, PassOver, vars
    <3>2. CASE \/ Return \/ Start \/ StartFails \/ Reap \/ Tick \/ Kill \/ Judge
               \/ CaptureStdout \/ CaptureStderr
      BY <1>1, <3>2 DEF Return, Start, StartFails, Reap, Tick, Kill, Judge, CaptureStdout,
                        CaptureStderr
    <3>3. CASE Child \/ LeftEnds
      BY <1>1, <3>3, ChildFrame
    <3> QED
      BY <2>5, <3>1, <3>2, <3>3
  <2> HIDE DEF AllCounts
  <2> QED
    BY <2>2, <2>3, <2>4, <2>5 DEF Next, Runner, Over
<1> QED
  <2>1. {Len(stream'.out), Len(stream'.err)} \subseteq 0 .. PipeLines
    BY <1>6
  <2> QED
    BY <1>3, <1>4, <1>5, <1>6, <1>7, <1>8, <2>1 DEF TypeOK

-----------------------------------------------------------------------------
(* What a test does, how its child ends, and what the runner makes of it.  *)

LEMMA SameTest ==
  ASSUME UNCHANGED <<table, config, i>>
  PROVE  /\ tests' = tests /\ options' = options /\ terminal' = terminal
         /\ Test' = Test /\ Limit(Test)' = Limit(Test)
BY DEF table, config, Test, Limit

LEMMA CourseKept ==
  ASSUME IInv, [Next]_vars
  PROVE  Course'
<1>0. Course /\ TypeOK /\ InTable
  BY DEF IInv
<1>1. CASE \/ (\E t \in Tests : Register(t)) \/ RegisterFails \/ (\E o \in Options : Run(o))
           \/ PassOver \/ Skip \/ Return \/ CaptureStdout \/ CaptureStderr \/ Count \/ StartFails
  <2>1. /\ pc \in {"idle", "next", "stdout", "stderr", "count"}
        /\ pc' \in {"idle", "next", "stderr", "count"}
        /\ child' = child /\ did' \in {did, "nothing"}
    <3>1. CASE \/ (\E t \in Tests : Register(t)) \/ RegisterFails \/ (\E o \in Options : Run(o))
               \/ PassOver \/ Skip
      BY <3>1 DEF Register, RegisterFails, Run, PassOver, Skip, history, process
    <3>2. CASE Return \/ CaptureStdout \/ CaptureStderr \/ Count \/ StartFails
      BY <3>2 DEF Return, CaptureStdout, CaptureStderr, Count, StartFails, AtTest, history, process
    <3> QED
      BY <1>1, <3>1, <3>2
  <2> QED
    BY <1>0, <2>1 DEF Course, Waiting, Deeds
<1>2. CASE Start
  <2>1. /\ pc' = "poll" /\ child'.state = "running" /\ did' = "began" /\ result' = NoResult
        /\ failure' = <<>>
    BY <1>2 DEF Start
  <2>2. NoResult' = NoResult
    BY DEF NoResult
  <2> QED
    BY <2>1, <2>2 DEF Course, Waiting, Deeds, Ended
<1>3. CASE Reap
  <2>1. /\ pc = "poll" /\ pc' = "judge" /\ status' = child.state /\ child.state # "reported"
        /\ UNCHANGED <<table, config, i, did, result, failure>>
        /\ child' = [child EXCEPT !.state = "none"]
    BY <1>3 DEF Reap, history
  <2>2. child'.state = "none" /\ child'.step = child.step
    BY <1>0, <2>1 DEF TypeOK
  <2>3. status' = Ended(did)
    BY <1>0, <2>1 DEF Course, Waiting
  <2>4. Reported => Reported'
    BY <2>1, <2>2, SameTest DEF Reported, Failing
  <2> QED
    BY <1>0, <2>1, <2>2, <2>3, <2>4 DEF Course, Waiting, Ended, NoResult
<1>4. CASE Kill
  <2>1. /\ pc = "kill" /\ pc' = "judge" /\ status' = "exit0"
        /\ UNCHANGED <<table, config, i, did, result, failure, wait_counter>>
        /\ child' = [child EXCEPT !.state = "none"]
    BY <1>4 DEF Kill, history
  <2>2. child'.state = "none" /\ child'.step = child.step
    BY <1>0, <2>1 DEF TypeOK
  <2>3. Late(wait_counter)'
    BY <1>0, <2>1, SameTest DEF Course, Late
  <2>4. Reported => Reported'
    BY <2>1, <2>2, SameTest DEF Reported, Failing
  <2> QED
    BY <1>0, <2>1, <2>2, <2>3, <2>4 DEF Course, Waiting, NoResult
<1>5. CASE Tick
  <2>1. /\ pc = "poll" /\ pc' = (IF Late(wait_counter + 1) THEN "kill" ELSE "poll")
        /\ wait_counter' = IF Limit(Test) > 0 THEN wait_counter + 1 ELSE wait_counter
        /\ UNCHANGED <<table, config, i, did, result, failure, child>>
    BY <1>5 DEF Tick, history, process
  <2>2. pc' = "kill" => Late(wait_counter)'
    BY <2>1, SameTest DEF Late
  <2>3. Reported => Reported'
    BY <2>1, SameTest DEF Reported, Failing
  <2> QED
    BY <1>0, <2>1, <2>2, <2>3 DEF Course, Waiting, NoResult
<1>6. CASE Judge
  <2>1. pc = "judge" /\ pc' \in {"stdout", "count"} /\ UNCHANGED <<child, did>>
    BY <1>6 DEF Judge, history
  <2> QED
    BY <1>0, <2>1 DEF Course, Waiting
<1>7. CASE Child
  <2>1. /\ UNCHANGED <<table, config, pc, i, wait_counter, result>> /\ Waiting
    BY <1>7, ChildFrame DEF Child, Puts, Flush, PutsError, Leave, Fail, FailExit, Die, Finish,
                            At, Alive, Waiting
  <2>2. (pc = "kill" => Late(wait_counter))' /\ Waiting' /\ (pc # "judge")' /\ result' = NoResult'
    BY <1>0, <2>1, SameTest DEF Course, Late, Waiting, NoResult
  <2>3. CASE Puts \/ Flush \/ PutsError \/ Leave \/ Die \/ Finish
    <3>1. /\ child.state = "running" /\ UNCHANGED failure
          /\ child'.state = Ended(did') /\ did' \in Deeds /\ did' \notin {"nothing", "failed"}
      <4>1. child.state = "running" /\ UNCHANGED failure
        BY <2>3 DEF Puts, Flush, PutsError, Leave, Die, Finish, At, Alive
      <4>2. did = "began"
        BY <1>0, <2>1, <4>1 DEF Course, Deeds, Ended
      <4>3. CASE Puts \/ Flush \/ PutsError \/ Leave
        <5>1. child'.state = child.state /\ did' = did
          BY <1>0, <4>3 DEF Puts, Flush, PutsError, Leave, TypeOK
        <5> QED
          BY <4>1, <4>2, <5>1 DEF Ended, Deeds
      <4>4. CASE Die \/ Finish
        <5>1. \/ child'.state = "exit1" /\ did' = "exited"
              \/ child'.state = "signal" /\ did' = "crashed"
              \/ child'.state = "exit0" /\ did' \in {"finished", "quit"}
          BY <1>0, <4>4 DEF Die, Finish, TypeOK
        <5> QED
          BY <4>1, <5>1 DEF Ended, Deeds
      <4> QED
        BY <2>3, <4>3, <4>4
    <3>2. did # "failed"
      BY <1>0, <2>1, <3>1 DEF Course, Ended, Deeds
    <3> QED
      BY <1>0, <2>1, <2>2, <3>1, <3>2 DEF Course
  <2>4. CASE Fail
    <3>1. /\ did' = "failed" /\ child' = [child EXCEPT !.state = "reported"]
          /\ failure' = Message[Step.report] /\ Step.op = "fail" /\ child.step <= Len(Test.body)
      BY <2>4 DEF Fail, At
    <3>2. child'.state = "reported" /\ child'.step = child.step /\ child.step \in Nat \ {0}
      BY <1>0, <3>1 DEF TypeOK
    <3>3. child.step \in DOMAIN Test.body
      <4>1. Test.body \in Seq(Steps)
        BY <1>0, <2>1, TestType DEF InTest
      <4> QED
        BY <3>1, <3>2, <4>1
    <3>4. Reported'
      BY <2>1, <3>1, <3>2, <3>3, SameTest DEF Reported, Failing, Step
    <3> QED
      BY <2>2, <3>1, <3>2, <3>4 DEF Course, Deeds
  <2>5. CASE FailExit
    <3>1. /\ UNCHANGED <<failure, did>> /\ child.state = "reported"
          /\ child' = [child EXCEPT !.state = "exit1"]
      BY <2>5 DEF FailExit
    <3>2. child'.state = "exit1" /\ child'.step = child.step
      BY <1>0, <3>1 DEF TypeOK
    <3>3. did = "failed" /\ Reported
      BY <1>0, <2>1, <3>1 DEF Course, Ended, Deeds
    <3>4. Reported'
      BY <2>1, <3>1, <3>2, <3>3, SameTest DEF Reported, Failing
    <3> QED
      BY <2>2, <3>1, <3>2, <3>3, <3>4 DEF Course, Deeds, Ended
  <2> QED
    BY <1>7, <2>3, <2>4, <2>5 DEF Child
<1>8. CASE LeftEnds \/ UNCHANGED vars
  <2>1. UNCHANGED <<table, config, i, pc, child, did, result, failure, wait_counter, status>>
    <3>1. CASE LeftEnds
      BY <3>1, ChildFrame DEF LeftEnds
    <3> QED
      BY <1>8, <3>1 DEF vars, process, history
  <2>2. (Reported => Reported') /\ (Late(wait_counter) => Late(wait_counter)')
    BY <2>1, SameTest DEF Reported, Failing, Late
  <2> QED
    BY <1>0, <2>1, <2>2 DEF Course, Waiting, NoResult
<1> QED
  BY <1>1, <1>2, <1>3, <1>4, <1>5, <1>6, <1>7, <1>8 DEF Next, Runner, Over

LEMMA VerdictsKept ==
  ASSUME IInv, [Next]_vars
  PROVE  Verdicts'
<1>0. TypeOK /\ InTable /\ Course /\ Verdicts
  BY DEF IInv
<1>1. CASE Judge
  <2>1. /\ pc = "judge" /\ UNCHANGED <<table, config, i, did, child>>
        /\ result' = [result EXCEPT !.kind = Verdict(failure),
                                    !.text = IF failure # <<>> THEN Read[failure].text
                                             ELSE result.text]
    BY <1>1 DEF Judge, history
  <2>2. /\ result'.kind = Verdict(failure)
        /\ failure # <<>> => result'.text = Read[failure].text
    BY <1>0, <2>1 DEF TypeOK
  <2>3. /\ did \in Deeds \ {"nothing"}
        /\ status \in {"exit0", "exit1", "signal"}
        /\ failure # <<>> <=> did = "failed"
        /\ \/ status = Ended(did)
           \/ status = "exit0" /\ Late(wait_counter)
    BY <1>0, <2>1, ReportInPipe DEF Course, TypeOK
  <2>4. CASE did = "failed"
    <3>1. /\ Read[failure].kind = Failing.report.kind
          /\ child.step \in DOMAIN Test.body /\ Failing.op = "fail"
          /\ Conveys(Failing.report, Read[failure].text)
      BY <1>0, <2>1, <2>3, <2>4, ReportInPipe
    <3>2. Verdict(failure) = Read[failure].kind
      BY <2>3, <2>4 DEF Verdict, Ended
    <3>3. Failing' = Failing /\ Test' = Test /\ did' = did /\ child' = child
      BY <2>1, SameTest DEF Failing
    <3> QED
      BY <2>2, <2>3, <2>4, <3>1, <3>2, <3>3 DEF Verdicts, VerdictFits
  <2>5. CASE did # "failed"
    <3>1. failure = <<>>
      BY <2>3, <2>5
    <3>2. Late(wait_counter) => Limit(Test) > 0
      BY DEF Late
    <3>3. LET kind  == Verdict(failure)
              late  == Limit(Test) > 0 /\ kind = "FAIL_TIMEOUT"
          IN  CASE did = "began" -> late
                [] did \in {"finished", "quit"} -> kind = "PASS" \/ late
                [] did = "exited" -> kind = "FAIL" \/ late
                [] did = "crashed" -> kind = "FAIL" \/ late
                [] OTHER -> FALSE
      BY <2>3, <2>5, <3>1, <3>2 DEF Verdict, Ended, Deeds
    <3>4. Limit(Test)' = Limit(Test) /\ did' = did
      BY <2>1, SameTest
    <3> QED
      BY <2>2, <2>3, <2>5, <3>3, <3>4 DEF Verdicts, VerdictFits, Deeds
  <2> QED
    BY <2>4, <2>5
<1>2. CASE StartFails
  <2>1. did' = "nothing" /\ pc' = "count" /\ result' = [NoResult EXCEPT !.kind = "ERROR"]
    BY <1>2 DEF StartFails
  <2>2. result'.kind = "ERROR"
    BY <2>1 DEF NoResult
  <2> QED
    BY <2>1, <2>2 DEF Verdicts, VerdictFits
<1>3. CASE CaptureStdout \/ CaptureStderr \/ LeftEnds \/ UNCHANGED vars
  <2>1. /\ UNCHANGED <<table, config, i, child, did>>
        /\ result'.kind = result.kind /\ result'.text = result.text
    <3>1. CASE CaptureStdout \/ CaptureStderr
      BY <1>0, <3>1 DEF CaptureStdout, CaptureStderr, process, history, TypeOK
    <3>2. CASE LeftEnds \/ UNCHANGED vars
      BY <3>2, ChildFrame DEF LeftEnds, vars, process, history
    <3> QED
      BY <1>3, <3>1, <3>2
  <2>2. /\ Judged' => Judged
        /\ pc' = pc \/ pc = "stdout" \/ pc = "stderr"
    BY <1>3, ChildFrame DEF CaptureStdout, CaptureStderr, vars, Judged
  <2>3. Test' = Test /\ Failing' = Failing /\ Limit(Test)' = Limit(Test)
    BY <2>1, SameTest DEF Failing
  <2>4. Judged => VerdictFits'
    BY <1>0, <2>1, <2>3 DEF Verdicts, VerdictFits
  <2>5. did = "nothing" /\ Judged => pc = "count" /\ pc' = "count"
    BY <1>0, <2>2 DEF Verdicts
  <2> QED
    BY <1>0, <2>1, <2>2, <2>3, <2>4, <2>5 DEF Verdicts
<1>4. CASE \/ (\E t \in Tests : Register(t)) \/ RegisterFails \/ (\E o \in Options : Run(o))
           \/ PassOver \/ Skip \/ Return \/ Start \/ Reap \/ Tick \/ Kill \/ Count \/ Child
  <2>1. ~Judged'
    <3>1. CASE \/ (\E t \in Tests : Register(t)) \/ RegisterFails \/ (\E o \in Options : Run(o))
               \/ PassOver \/ Skip \/ Return
      BY <3>1 DEF Register, RegisterFails, Run, PassOver, Skip, Return, Judged
    <3>2. CASE Start \/ Reap \/ Tick \/ Kill \/ Count
      BY <3>2 DEF Start, Reap, Tick, Kill, Count, Judged
    <3>3. CASE Child
      <4>1. pc' = pc /\ Waiting
        BY <3>3, ChildFrame DEF Child, Puts, Flush, PutsError, Leave, Fail, FailExit, Die, Finish,
                                At, Alive, Waiting
      <4> QED
        BY <4>1 DEF Waiting, Judged
    <3> QED
      BY <1>4, <3>1, <3>2, <3>3
  <2> QED
    BY <2>1 DEF Verdicts
<1> QED
  BY <1>1, <1>2, <1>3, <1>4 DEF Next, Runner, Over

\* What a test printed are lines: a step adds one that is a line of the test.
LEMMA PrintedKept ==
  ASSUME IInv, [Next]_vars
  PROVE  printed' \in [out : Seq(Lines), err : Seq(Lines)]
<1> DEFINE Streams == [out : Seq(Lines), err : Seq(Lines)]
<1>0. TypeOK /\ InTable /\ printed \in Streams
  BY DEF IInv, Tallied
<1>1. CASE Puts
  <2>1. Step.line \in Lines /\ printed' = [printed EXCEPT !["out"] = Append(printed.out, Step.line)]
    BY <1>0, <1>1, LineOfTest DEF Puts, Prints
  <2>2. Append(printed.out, Step.line) \in Seq(Lines)
    BY <1>0, <2>1
  <2> QED
    BY <1>0, <2>1, <2>2
<1>2. CASE PutsError
  <2>1. Step.line \in Lines /\ printed' = [printed EXCEPT !["err"] = Append(printed.err, Step.line)]
    BY <1>0, <1>2, LineOfTest DEF PutsError, Prints
  <2>2. Append(printed.err, Step.line) \in Seq(Lines)
    BY <1>0, <2>1
  <2> QED
    BY <1>0, <2>1, <2>2
<1>3. CASE Start \/ StartFails
  <2>1. printed' = NoStream
    BY <1>3 DEF Start, StartFails
  <2> QED
    BY <2>1 DEF NoStream
<1>4. CASE \/ (\E t \in Tests : Register(t)) \/ RegisterFails \/ (\E o \in Options : Run(o))
           \/ PassOver \/ Skip \/ Return \/ UNCHANGED vars
  BY <1>0, <1>4 DEF Register, RegisterFails, Run, PassOver, Skip, Return, vars, history
<1>5. CASE Reap \/ Tick \/ Kill \/ Judge \/ CaptureStdout \/ CaptureStderr \/ Count
  BY <1>0, <1>5 DEF Reap, Tick, Kill, Judge, CaptureStdout, CaptureStderr, Count, history
<1>6. CASE Flush \/ Leave \/ Fail \/ FailExit \/ Die \/ Finish \/ LeftEnds
  BY <1>0, <1>6 DEF Flush, Leave, Fail, FailExit, Die, Finish, LeftEnds
<1> QED
  BY <1>1, <1>2, <1>3, <1>4, <1>5, <1>6 DEF Next, Runner, Over, Child

\* A line that is put after a text.
LEMMA LineAdded ==
  ASSUME NEW s \in Seq(Lines), NEW b \in Seq(Lines), NEW line \in Lines
  PROVE  s \o Append(b, line) = Append(s \o b, line)
BY SMTT(30)

\* A line that moves from a buffer to a pipe.
LEMMA LineMoves ==
  ASSUME NEW s \in Seq(Lines), NEW b \in Seq(Lines), b # <<>>
  PROVE  Append(s, Head(b)) \o Tail(b) = s \o b
<1> DEFINE one == <<Head(b)>>
<1>1. Head(b) \in Lines /\ Tail(b) \in Seq(Lines) /\ one \o Tail(b) = b
  BY HeadTailProperties
<1>2. one \in Seq(Lines)
  BY <1>1
<1>3. Append(s, Head(b)) = s \o one
  BY <1>1
<1> HIDE DEF one
<1>4. (s \o one) \o Tail(b) = s \o (one \o Tail(b))
  <2>1. ASSUME NEW u \in Seq(Lines), NEW v \in Seq(Lines), NEW w \in Seq(Lines)
        PROVE  (u \o v) \o w = u \o (v \o w)
    BY ConcatAssociative
  <2> QED
    BY <1>1, <1>2, <2>1, Zenon
<1> QED
  BY <1>1, <1>3, <1>4, Zenon

\* What is in the pipe comes before what is in the buffer.
LEMMA LineFirst ==
  ASSUME NEW s \in Seq(Lines), NEW b \in Seq(Lines)
  PROVE  SubSeq(s \o b, 1, Len(s)) = s
<1>1. /\ Len(s) \in Nat /\ Len(b) \in Nat
      /\ s \o b \in Seq(Lines) /\ Len(s \o b) = Len(s) + Len(b)
  BY ConcatProperties
<1>2. \A k \in 1 .. Len(s) : (s \o b)[k] = s[k]
  BY <1>1
<1> DEFINE t == SubSeq(s \o b, 1, Len(s))
<1>3. t \in Seq(Lines) /\ Len(t) = Len(s) /\ \A k \in 1 .. Len(s) : t[k] = s[k]
  BY <1>1, <1>2
<1> HIDE DEF t
<1>4. t = s
  BY <1>3, SeqEqual
<1> QED
  BY <1>4 DEF t

LEMMA LostAtMost ==
  ASSUME NEW whole, NEW a \in Nat, NEW b \in Nat, NEW c \in Nat, whole = a + b, b <= c
  PROVE  a \in whole - c .. whole
OBVIOUS

LEMMA OutputsKept ==
  ASSUME IInv, [Next]_vars
  PROVE  Outputs'
<1>0. /\ TypeOK /\ InTable /\ Course /\ Outputs
      /\ printed \in [out : Seq(Lines), err : Seq(Lines)]
  BY DEF IInv, Tallied
<1>1. CASE Start
  <2>1. /\ pc' = "poll" /\ UNCHANGED config /\ stream' = NoStream /\ printed' = NoStream
        /\ child' = [state |-> "running", step |-> 1, buffer |-> Unwritten]
    BY <1>1 DEF Start
  <2>2. Unwritten \in Seq(Lines) /\ Unwritten' = Unwritten /\ Capacity' = Capacity
    BY <2>1, UnwrittenLines DEF Unwritten, config, Capacity
  <2>3. Len(Unwritten) <= Capacity
    <3>1. Len(<<>>) = 0 /\ Len(<<"runner">>) = 1
      OBVIOUS
    <3>2. BufferLines \in Nat \ {0}
      BY TestRunnerAssumption
    <3>3. terminal \in BOOLEAN
      BY <1>0 DEF TypeOK
    <3> QED
      BY <3>1, <3>2, <3>3 DEF Unwritten, Capacity
  <2>4. <<>> \o Unwritten = Unwritten /\ Unwritten \o <<>> = Unwritten
    BY <2>2, ConcatEmptySeq
  <2>5. /\ child'.buffer = Unwritten /\ stream'.out = <<>> /\ stream'.err = <<>>
        /\ printed'.out = <<>> /\ printed'.err = <<>>
    BY <2>1 DEF NoStream
  <2> QED
    BY <2>1, <2>2, <2>3, <2>4, <2>5 DEF Outputs
<1>2. CASE StartFails
  <2>1. did' = "nothing"
    BY <1>2 DEF StartFails
  <2> QED
    BY <2>1 DEF Outputs
<1>3. CASE Reap \/ Tick \/ Kill \/ Judge \/ CaptureStdout \/ CaptureStderr
  <2>1. UNCHANGED <<config, stream, printed, did>> /\ child'.buffer = child.buffer /\ InTest
    BY <1>0, <1>3 DEF Reap, Tick, Kill, Judge, CaptureStdout, CaptureStderr, process, history,
                      TypeOK, InTest, Waiting, Judged
  <2>2. UNCHANGED <<Unwritten, Capacity, options>>
    BY <2>1 DEF Unwritten, Capacity, config
  <2>3. CASE Reap \/ Tick \/ Kill
    <3>1. pc' \in {"poll", "kill", "judge"}
      BY <2>3 DEF Reap, Tick, Kill
    <3> QED
      BY <1>0, <2>1, <2>2, <3>1 DEF Outputs
  <2>4. CASE Judge
    <3>1. pc' = IF options.capture THEN "stdout" ELSE "count"
      BY <2>4 DEF Judge
    <3> QED
      BY <1>0, <2>1, <2>2, <3>1 DEF Outputs
  <2>5. CASE CaptureStdout
    <3>1. pc' = "stderr" /\ result' = [result EXCEPT !.stdout = Kept(stream.out)]
      BY <2>5 DEF CaptureStdout
    <3>2. result'.stdout = Kept(stream.out)
      BY <1>0, <3>1 DEF TypeOK
    <3> QED
      BY <1>0, <2>1, <2>2, <3>1, <3>2 DEF Outputs, Kept
  <2>6. CASE CaptureStderr
    <3>1. /\ pc = "stderr" /\ pc' = "count"
          /\ result' = [result EXCEPT !.stderr = Kept(stream.err)]
      BY <2>6 DEF CaptureStderr
    <3>2. result'.stderr = Kept(stream.err) /\ result'.stdout = result.stdout
      BY <1>0, <3>1 DEF TypeOK
    <3> QED
      BY <1>0, <2>1, <2>2, <3>1, <3>2 DEF Outputs, Kept
  <2> QED
    BY <1>3, <2>3, <2>4, <2>5, <2>6
<1>4. CASE Child
  <2>1. UNCHANGED <<config, pc, result>> /\ Waiting
    BY <1>4, ChildFrame DEF Child, Puts, Flush, PutsError, Leave, Fail, FailExit, Die, Finish,
                            At, Alive, Waiting
  <2>2. UNCHANGED <<Unwritten, Capacity, options>> /\ InTest /\ did # "nothing"
        /\ ~(pc' \in {"stderr", "count"})
    BY <1>0, <2>1 DEF Unwritten, Capacity, config, InTest, Waiting, Course
  <2>3. SUFFICES ASSUME options.capture
                 PROVE  /\ stream'.out \o child'.buffer = Unwritten \o printed'.out
                        /\ Len(child'.buffer) <= Capacity
                        /\ stream'.err = printed'.err
    BY <2>2 DEF Outputs
  <2> DEFINE out == stream.out
             buffer == child.buffer
             all == Unwritten \o printed.out
  <2>4. /\ out \o buffer = all /\ Len(buffer) <= Capacity
        /\ stream.err = printed.err
    BY <1>0, <2>2, <2>3 DEF Outputs
  <2>5. /\ out \in Seq(Lines) /\ buffer \in Seq(Lines) /\ Unwritten \in Seq(Lines)
        /\ printed.out \in Seq(Lines) /\ Capacity \in Nat
    BY <1>0, TestRunnerAssumption, UnwrittenLines DEF TypeOK, Capacity
  <2>6. CASE Puts
    <3> DEFINE line == Step.line
               longer == Append(buffer, line)
    <3>1. /\ line \in Lines /\ printed'.out = Append(printed.out, line)
          /\ printed'.err = printed.err
      BY <1>0, <2>6, LineOfTest DEF Puts, Prints
    <3> HIDE DEF line
    <3>2. Unwritten \o printed'.out = Append(all, line)
      BY <2>5, <3>1, LineAdded
    <3>3. out \o longer = Append(all, line)
      <4> HIDE DEF out, buffer, all
      <4>1. out \o longer = Append(out \o buffer, line)
        BY <2>5, <3>1, LineAdded
      <4> QED
        BY <2>4, <4>1
    <3>4. longer \in Seq(Lines) /\ longer # <<>> /\ Len(longer) = Len(buffer) + 1
          /\ Len(Tail(longer)) = Len(buffer)
      <4> HIDE DEF buffer
      <4>1. Len(buffer) \in Nat
        BY <2>5
      <4>2. longer \in Seq(Lines) /\ longer # <<>> /\ Len(longer) = Len(buffer) + 1
        BY <2>5, <3>1, <4>1
      <4> HIDE DEF longer
      <4>3. Len(Tail(longer)) = Len(longer) - 1
        BY <4>2, HeadTailProperties
      <4> QED
        BY <4>1, <4>2, <4>3
    <3>5. CASE Len(longer) <= Capacity
      <4>1. child' = [child EXCEPT !.step = @ + 1, !.buffer = longer] /\ stream' = stream
        BY <2>6, <3>5 DEF Puts, line
      <4>2. child'.buffer = longer
        BY <1>0, <4>1 DEF TypeOK
      <4> HIDE DEF longer, out, all
      <4> QED
        BY <2>4, <3>1, <3>2, <3>3, <3>5, <4>1, <4>2 DEF out
    <3>6. CASE ~(Len(longer) <= Capacity)
      <4>1. /\ child' = [child EXCEPT !.step = @ + 1, !.buffer = Tail(longer)]
            /\ stream' = Write("out", Head(longer))
        BY <2>6, <3>6 DEF Puts, line
      <4>2. child'.buffer = Tail(longer)
        BY <1>0, <4>1 DEF TypeOK
      <4>3. stream'.out = Append(out, Head(longer)) /\ stream'.err = stream.err
        BY <1>0, <2>3, <4>1 DEF TypeOK, Write
      <4> HIDE DEF longer, out, all, buffer
      <4>4. Append(out, Head(longer)) \o Tail(longer) = out \o longer
        BY <2>5, <3>4, LineMoves
      <4> QED
        BY <2>4, <3>1, <3>2, <3>3, <3>4, <4>2, <4>3, <4>4
    <3> QED
      BY <3>5, <3>6
  <2>7. CASE Flush
    <3>1. printed' = printed
      BY <2>7 DEF Flush
    <3>2. CASE buffer = <<>>
      <4>1. child'.buffer = child.buffer /\ stream' = stream
        BY <1>0, <2>7, <3>2 DEF Flush, TypeOK
      <4> QED
        BY <2>4, <3>1, <4>1
    <3>3. CASE buffer # <<>>
      <4>1. /\ child' = [child EXCEPT !.buffer = Tail(@)]
            /\ stream' = Write("out", Head(buffer))
        BY <2>7, <3>3 DEF Flush
      <4>2. child'.buffer = Tail(buffer)
        BY <1>0, <4>1 DEF TypeOK
      <4>3. stream'.out = Append(out, Head(buffer)) /\ stream'.err = stream.err
        BY <1>0, <2>3, <4>1 DEF TypeOK, Write
      <4>4. Len(Tail(buffer)) = Len(buffer) - 1 /\ Len(buffer) \in Nat
        BY <2>5, <3>3
      <4> HIDE DEF out, all, buffer
      <4>5. Append(out, Head(buffer)) \o Tail(buffer) = out \o buffer
        BY <2>5, <3>3, LineMoves
      <4>6. Len(Tail(buffer)) <= Capacity
        BY <2>4, <2>5, <4>4
      <4> QED
        BY <2>4, <3>1, <4>2, <4>3, <4>5, <4>6 DEF all
    <3> QED
      BY <3>2, <3>3
  <2>8. CASE PutsError
    <3>1. /\ stream' = Write("err", Step.line) /\ Prints("err")
          /\ child' = [child EXCEPT !.step = @ + 1]
      BY <2>8 DEF PutsError
    <3>2. stream'.out = stream.out /\ stream'.err = Append(stream.err, Step.line)
      BY <1>0, <2>3, <3>1 DEF TypeOK, Write
    <3>3. printed'.out = printed.out /\ printed'.err = Append(printed.err, Step.line)
      BY <1>0, <3>1 DEF Prints
    <3>4. child'.buffer = child.buffer
      BY <1>0, <3>1 DEF TypeOK
    <3> QED
      BY <2>4, <3>2, <3>3, <3>4
  <2>9. CASE Leave \/ Fail \/ FailExit \/ Die \/ Finish
    <3>1. child'.buffer = child.buffer /\ stream' = stream /\ printed' = printed
      BY <1>0, <2>9 DEF Leave, Fail, FailExit, Die, Finish, TypeOK
    <3> QED
      BY <2>4, <3>1
  <2> QED
    BY <1>4, <2>6, <2>7, <2>8, <2>9 DEF Child
<1>5. CASE LeftEnds \/ UNCHANGED vars
  <2>1. UNCHANGED <<config, pc, child, stream, printed, did, result>>
    BY <1>5, ChildFrame DEF LeftEnds, vars, process, history
  <2> QED
    BY <1>0, <2>1 DEF Outputs, InTest, Waiting, Judged, config, Unwritten, Capacity, Kept
<1>6. CASE \/ (\E t \in Tests : Register(t)) \/ RegisterFails \/ (\E o \in Options : Run(o))
           \/ PassOver \/ Skip \/ Return \/ Count
  <2>1. pc' \in {"idle", "next"}
    BY <1>6 DEF Register, RegisterFails, Run, PassOver, Skip, Return, Count
  <2> QED
    BY <2>1 DEF Outputs, InTest, Waiting, Judged
<1> QED
  BY <1>1, <1>2, <1>3, <1>4, <1>5, <1>6 DEF Next, Runner, Over

-----------------------------------------------------------------------------
(* Counting.                                                               *)

LEMMA OneMore ==
  ASSUME NEW n \in Nat, NEW S, S \subseteq 1 .. n
  PROVE  /\ Cardinality(S) \in Nat
         /\ Cardinality(S \cup {n + 1}) = Cardinality(S) + 1
<1>1. IsFiniteSet(S)
  <2>1. IsFiniteSet(1 .. n)
    BY FS_Interval
  <2> QED
    BY <2>1, FS_Subset
<1>2. n + 1 \notin S
  OBVIOUS
<1> QED
  BY <1>1, <1>2, FS_AddElement, FS_CardinalityType

LEMMA EmptyCount ==
  ASSUME NEW l, l = <<>>
  PROVE  DOMAIN l = {} /\ Cardinality({}) = 0
BY FS_EmptySet

\* An entry of the log is added to those of the tests that were started, to
\* those counted the same way, or to neither.
LEMMA LogGrows ==
  ASSUME log \in Seq(Entries), NEW e \in Entries, log' = Append(log, e)
  PROVE  /\ Cardinality(Started) \in Nat
         /\ Cardinality(Started)' = Cardinality(Started) + (IF e.kind = "SKIP" THEN 0 ELSE 1)
         /\ \A as \in {"passed", "failed", "skipped"} :
               /\ Cardinality(Counted(as)) \in Nat
               /\ Cardinality(Counted(as))'
                    = Cardinality(Counted(as)) + (IF e.counted = as THEN 1 ELSE 0)
         /\ DOMAIN log' = 1 .. Len(log) + 1 /\ DOMAIN log = 1 .. Len(log) /\ Len(log) \in Nat
         /\ log'[Len(log) + 1] = e /\ \A k \in DOMAIN log : log'[k] = log[k]
         /\ log' \in Seq(Entries)
         /\ NoErrors' <=> NoErrors /\ e.kind # "ERROR"
<1>1. /\ DOMAIN log' = 1 .. Len(log) + 1 /\ DOMAIN log = 1 .. Len(log) /\ Len(log) \in Nat
      /\ log'[Len(log) + 1] = e /\ \A k \in DOMAIN log : log'[k] = log[k]
      /\ log' \in Seq(Entries)
  OBVIOUS
<1>2. /\ \A k \in DOMAIN log : log[k] \in Entries
      /\ \A k \in DOMAIN log' : log'[k] \in Entries
  BY <1>1
<1> DEFINE n == Len(log)
<1>3. /\ Cardinality(Started) \in Nat
      /\ Cardinality(Started)' = Cardinality(Started) + (IF e.kind = "SKIP" THEN 0 ELSE 1)
  <2>1. Started \subseteq 1 .. n
    BY <1>1 DEF Started
  <2>2. CASE e.kind = "SKIP"
    <3>1. \A k : k \in Started' <=> k \in Started
      BY <1>1, <2>2 DEF Started
    <3>2. Started' = Started
      BY <3>1
    <3>3. Cardinality(Started) \in Nat
      BY <1>1, <2>1, OneMore
    <3>4. Cardinality(Started)' = Cardinality(Started)
      BY <3>2
    <3> QED
      BY <2>2, <3>3, <3>4
  <2>3. CASE e.kind # "SKIP"
    <3>1. \A k : k \in Started' <=> k \in Started \cup {n + 1}
      BY <1>1, <2>3 DEF Started
    <3>2. Started' = Started \cup {n + 1}
      BY <3>1
    <3> QED
      BY <1>1, <2>1, <2>3, <3>2, OneMore
  <2> QED
    BY <2>2, <2>3
<1>4. ASSUME NEW as \in {"passed", "failed", "skipped"}
      PROVE  /\ Cardinality(Counted(as)) \in Nat
             /\ Cardinality(Counted(as))'
                  = Cardinality(Counted(as)) + (IF e.counted = as THEN 1 ELSE 0)
  <2> DEFINE C == {k \in DOMAIN log : log[k].counted = as}
         D == {k \in DOMAIN log' : log'[k].counted = as}
  <2>0. Counted(as) = C /\ Counted(as)' = D
    BY DEF Counted
  <2>1. C \subseteq 1 .. n
    BY <1>1
  <2>2. CASE e.counted # as
    <3>1. \A k : k \in D <=> k \in C
      <4>1. ASSUME NEW k \in C PROVE k \in D
        <5>1. k \in DOMAIN log /\ log[k].counted = as
          OBVIOUS
        <5>2. k \in DOMAIN log' /\ log'[k] = log[k]
          BY <1>1, <5>1
        <5> QED
          BY <5>1, <5>2
      <4>2. ASSUME NEW k \in D PROVE k \in C
        <5>1. k \in 1 .. n + 1 /\ log'[k].counted = as
          BY <1>1
        <5>2. k # n + 1
          BY <1>1, <2>2, <5>1
        <5>3. k \in DOMAIN log
          BY <1>1, <5>1, <5>2
        <5> QED
          BY <1>1, <5>1, <5>3
      <4> QED
        BY <4>1, <4>2
    <3>2. D = C
      BY <3>1
    <3>3. Cardinality(C) \in Nat
      BY <1>1, <2>1, OneMore
    <3> HIDE DEF C, D
    <3>4. Cardinality(Counted(as)) = Cardinality(C) /\ Cardinality(Counted(as))' = Cardinality(C)
      BY <2>0, <3>2, Zenon
    <3> QED
      BY <2>2, <3>3, <3>4
  <2>3. CASE e.counted = as
    <3>1. \A k : k \in D <=> k \in C \cup {n + 1}
      <4>1. ASSUME NEW k \in C PROVE k \in D
        <5>1. k \in DOMAIN log /\ log[k].counted = as
          OBVIOUS
        <5>2. k \in DOMAIN log' /\ log'[k] = log[k]
          BY <1>1, <5>1
        <5> QED
          BY <5>1, <5>2
      <4>2. n + 1 \in D
        <5>1. n + 1 \in DOMAIN log' /\ log'[n + 1] = e
          BY <1>1
        <5>2. log'[n + 1].counted = as
          BY <2>3, <5>1
        <5> QED
          BY <5>1, <5>2
      <4>3. ASSUME NEW k \in D, k # n + 1 PROVE k \in C
        <5>1. k \in 1 .. n + 1 /\ log'[k].counted = as
          BY <1>1
        <5>2. k \in DOMAIN log
          BY <1>1, <4>3, <5>1
        <5> QED
          BY <1>1, <5>1, <5>2
      <4> QED
        BY <4>1, <4>2, <4>3
    <3>2. D = C \cup {n + 1}
      BY <3>1
    <3>3. Cardinality(C) \in Nat /\ Cardinality(C \cup {n + 1}) = Cardinality(C) + 1
      BY <1>1, <2>1, OneMore
    <3> HIDE DEF C, D
    <3>4. /\ Cardinality(Counted(as)) = Cardinality(C)
          /\ Cardinality(Counted(as))' = Cardinality(C \cup {n + 1})
      BY <2>0, <3>2, Zenon
    <3> QED
      BY <2>3, <3>3, <3>4
  <2> QED
    BY <2>2, <2>3
<1>5. NoErrors' <=> NoErrors /\ e.kind # "ERROR"
  BY <1>1 DEF NoErrors
<1> QED
  BY <1>1, <1>3, <1>4, <1>5

\* What a step that counts a test adds to the log.
LEMMA Counting ==
  ASSUME IInv, Count \/ Skip
  PROVE  \E e \in Entries :
            /\ log' = Append(log, e) /\ e.test = i
            /\ counts' = [counts EXCEPT ![e.counted] = @ + 1]
            /\ \/ e.kind = "SKIP" /\ e.counted = "skipped" /\ pc = "next"
               \/ /\ pc = "count" /\ e.kind = result.kind /\ e.kind # "SKIP" /\ e.did = did
                  /\ e.counted = CountedAs(e.kind, Test.should_fail)
            /\ UNCHANGED <<table, config, fds, runs>> /\ pc' = "next"
            /\ i' = i + 1 /\ i <= Len(tests) /\ Selected(Test)
<1>0. TypeOK /\ InTable /\ Course /\ Counts
  BY DEF IInv
<1>1. i \in Nat \ {0}
  BY <1>0 DEF TypeOK
<1>2. CASE Skip
  <2> DEFINE e == Entry("SKIP", "nothing", "skipped")
  <2>1. e \in Entries /\ e.test = i /\ e.kind = "SKIP" /\ e.counted = "skipped"
    BY <1>1 DEF Entry, Entries, Deeds
  <2>2. /\ log' = Append(log, e) /\ counts' = [counts EXCEPT !["skipped"] = @ + 1]
        /\ UNCHANGED <<table, config, fds, runs>> /\ pc' = "next" /\ pc = "next"
        /\ i' = i + 1 /\ i <= Len(tests) /\ Selected(Test)
    BY <1>2 DEF Skip
  <2> HIDE DEF e
  <2> QED
    BY <2>1, <2>2
<1>3. CASE Count
  <2> DEFINE as == CountedAs(result.kind, Test.should_fail)
             e == Entry(result.kind, did, as)
  <2>1. result.kind \in Kinds /\ did \in Deeds
    BY <1>0 DEF TypeOK, Course
  <2>2. as \in {"passed", "failed"} /\ result.kind # "SKIP"
    BY <2>1 DEF CountedAs, Kinds
  <2>3. /\ e \in Entries /\ e.test = i /\ e.kind = result.kind /\ e.did = did /\ e.counted = as
    BY <1>1, <2>1, <2>2 DEF Entry, Entries
  <2>4. /\ log' = Append(log, e) /\ counts' = [counts EXCEPT ![as] = @ + 1]
        /\ UNCHANGED <<table, config, fds, runs>> /\ pc' = "next" /\ pc = "count"
        /\ i' = i + 1
    BY <1>3 DEF Count
  <2>5. i <= Len(tests) /\ Selected(Test)
    BY <1>0, <2>4 DEF InTable, Counts, InTest, Judged
  <2> HIDE DEF e
  <2> QED
    BY <2>2, <2>3, <2>4, <2>5
<1> QED
  BY <1>2, <1>3

LEMMA LogStays ==
  ASSUME log \in Seq(Entries)
  PROVE  /\ Cardinality(Started) \in Nat
         /\ log' = log => /\ Cardinality(Started)' = Cardinality(Started)
                          /\ NoErrors' <=> NoErrors
<1>1. Len(log) \in Nat /\ Started \subseteq 1 .. Len(log)
  BY DEF Started
<1>2. Cardinality(Started) \in Nat
  BY <1>1, OneMore
<1> QED
  BY <1>2 DEF Started, NoErrors

LEMMA CostsKept ==
  ASSUME IInv, [Next]_vars
  PROVE  Costs'
<1>0. TypeOK /\ InTable /\ Course /\ Verdicts /\ Costs /\ log \in Seq(Entries)
  BY DEF IInv, Tallied
<1>1. fds \in Nat /\ runs \in Nat
  BY <1>0 DEF TypeOK
<1>2. /\ Cardinality(Started) \in Nat
      /\ log' = log => Cardinality(Started)' = Cardinality(Started) /\ (NoErrors' <=> NoErrors)
  BY <1>0, LogStays
<1>3. CASE StartFails
  <2>1. pc' = "count" /\ did' = "nothing" /\ runs' = runs /\ pc = "next"
    BY <1>3 DEF StartFails, AtTest
  <2> QED
    BY <1>0, <2>1 DEF Costs
<1>4. CASE Start
  <2>1. /\ pc' = "poll" /\ UNCHANGED <<runs, log, config>> /\ pc = "next"
        /\ fds' = fds + 2 * Needed - (IF options.capture THEN 2 ELSE 0)
    BY <1>4 DEF Start, AtTest
  <2>2. Held = 0 /\ Held' = (IF options.capture THEN 4 ELSE 2)
    BY <2>1 DEF Held, Waiting, config
  <2>3. fds' = fds + Held'
    BY <1>1, <2>1, <2>2 DEF Needed
  <2> QED
    BY <1>0, <1>1, <2>1, <2>2, <2>3, <1>2 DEF Costs
<1>5. CASE Reap \/ Tick \/ Kill \/ Child
  <2>1. /\ UNCHANGED <<fds, runs, log, config>> /\ pc \in {"poll", "kill"}
        /\ pc' \in {"poll", "kill", "judge"}
    <3>1. CASE Reap \/ Tick \/ Kill
      BY <3>1 DEF Reap, Tick, Kill, history
    <3>2. CASE Child
      BY <3>2, ChildFrame DEF Child, Puts, Flush, PutsError, Leave, Fail, FailExit, Die, Finish,
                              At, Alive
    <3> QED
      BY <1>5, <3>1, <3>2
  <2>2. Held' = Held
    BY <2>1 DEF Held, Waiting, config
  <2> QED
    BY <1>0, <1>1, <1>2, <2>1, <2>2 DEF Costs
<1>6. CASE LeftEnds \/ UNCHANGED vars
  <2>1. UNCHANGED <<fds, runs, log, config, pc, did>>
    BY <1>6, ChildFrame DEF LeftEnds, vars, history
  <2>2. Held' = Held
    BY <2>1 DEF Held, Waiting, config
  <2> QED
    BY <1>0, <1>1, <1>2, <2>1, <2>2 DEF Costs, config
<1>7. CASE Judge \/ CaptureStdout \/ CaptureStderr
  <2>1. /\ UNCHANGED <<runs, log, config, did>> /\ fds' = fds - 1
        /\ \/ pc = "judge" /\ pc' = IF options.capture THEN "stdout" ELSE "count"
           \/ pc = "stdout" /\ pc' = "stderr"
           \/ pc = "stderr" /\ pc' = "count"
    BY <1>7 DEF Judge, CaptureStdout, CaptureStderr, history
  <2>2. pc \in {"stdout", "stderr"} => options.capture
    BY <1>0 DEF Costs
  <2>3. Held' = Held - 1 /\ Held \in Nat
    BY <2>1, <2>2 DEF Held, Waiting, config
  <2>4. Held <= fds
    BY <1>0, <2>1 DEF Costs
  <2>5. pc' \in {"stdout", "stderr"} => options'.capture
    BY <2>1, <2>2 DEF config
  <2> QED
    BY <1>0, <1>1, <1>2, <2>1, <2>3, <2>4, <2>5 DEF Costs
<1>8. CASE Count \/ Skip
  <2>1. PICK e \in Entries :
            /\ log' = Append(log, e)
            /\ \/ e.kind = "SKIP" /\ pc = "next"
               \/ pc = "count" /\ e.kind = result.kind /\ e.kind # "SKIP"
            /\ UNCHANGED <<config, fds, runs>> /\ pc' = "next"
    BY <1>8, Counting
  <2>2. /\ Cardinality(Started)' = Cardinality(Started) + (IF e.kind = "SKIP" THEN 0 ELSE 1)
        /\ NoErrors' <=> NoErrors /\ e.kind # "ERROR"
    BY <1>0, <2>1, LogGrows
  <2>3. Held' = 0 /\ Held = (IF e.kind = "SKIP" THEN 0 ELSE 1)
    BY <2>1 DEF Held, Waiting
  <2>4. pc = "count" /\ NoErrors' => did # "nothing"
    BY <1>0, <2>1, <2>2 DEF Verdicts, VerdictFits, Judged
  <2> QED
    BY <1>0, <1>1, <1>2, <2>1, <2>2, <2>3, <2>4 DEF Costs
<1>9. CASE PassOver \/ Return
  <2>1. /\ UNCHANGED <<fds, runs, log, config>> /\ pc = "next" /\ pc' \in {"next", "idle"}
    BY <1>9 DEF PassOver, Return, history
  <2>2. Held' = 0 /\ Held = 0
    BY <2>1 DEF Held, Waiting
  <2> QED
    BY <1>0, <1>1, <1>2, <2>1, <2>2 DEF Costs
<1>10. CASE (\E t \in Tests : Register(t)) \/ RegisterFails
  <2>1. UNCHANGED <<fds, runs>> /\ pc = "idle" /\ pc' = "idle"
    BY <1>10 DEF Register, RegisterFails
  <2> QED
    BY <1>0, <2>1 DEF Costs
<1>11. ASSUME NEW o \in Options, Run(o)
       PROVE  Costs'
  <2>1. UNCHANGED fds /\ runs' = runs + 1 /\ pc' = "next" /\ log' = <<>>
    BY <1>11 DEF Run
  <2>2. Started' = {} /\ Held' = 0
    BY <2>1 DEF Started, Held, Waiting
  <2>3. Cardinality({}) = 0
    BY FS_EmptySet
  <2>4. Cardinality(Started)' = 0
    BY <2>2, <2>3
  <2> QED
    BY <1>0, <1>1, <2>1, <2>2, <2>4 DEF Costs
<1> QED
  BY <1>3, <1>4, <1>5, <1>6, <1>7, <1>8, <1>9, <1>10, <1>11 DEF Next, Runner, Over

LEMMA CountsKept ==
  ASSUME IInv, [Next]_vars
  PROVE  Counts'
<1>0. TypeOK /\ InTable /\ Costs /\ Counts /\ log \in Seq(Entries) /\ i \in Nat \ {0}
  <2>1. TypeOK /\ InTable /\ Costs /\ Counts /\ log \in Seq(Entries)
    BY DEF IInv, Tallied
  <2> QED
    BY <2>1 DEF TypeOK
<1>1. CASE (\E t \in Tests : Register(t)) \/ RegisterFails \/ Return
  <2>1. pc' = "idle"
    BY <1>1 DEF Register, RegisterFails, Return
  <2> QED
    BY <2>1 DEF Counts
<1>2. ASSUME NEW o \in Options, Run(o)
      PROVE  Counts'
  <2>1. /\ log' = <<>> /\ i' = 1 /\ counts' = NoCounts /\ pc' = "next"
    BY <1>2 DEF Run
  <2>2. DOMAIN log' = {} /\ 1 .. i' - 1 = {}
    BY <2>1
  <2>3. Cardinality({}) = 0
    BY FS_EmptySet
  <2>5. /\ Counted("passed")' = {} /\ Counted("failed")' = {} /\ Counted("skipped")' = {}
    BY <2>2 DEF Counted
  <2>6. /\ counts'.passed = Cardinality(Counted("passed"))'
        /\ counts'.failed = Cardinality(Counted("failed"))'
        /\ counts'.skipped = Cardinality(Counted("skipped"))'
    BY <2>1, <2>3, <2>5 DEF NoCounts
  <2>7. ~InTest'
    BY <2>1 DEF InTest, Waiting, Judged
  <2>8. {log[k].test : k \in DOMAIN log}' = {n \in 1 .. i - 1 : Selected(tests[n])}'
    BY <2>2
  <2> QED
    BY <2>2, <2>6, <2>7, <2>8 DEF Counts
<1>3. CASE PassOver
  <2>1. /\ UNCHANGED <<log, counts, table, config>> /\ i' = i + 1 /\ pc = "next" /\ pc' = "next"
        /\ ~Selected(Test)
    BY <1>3 DEF PassOver, history
  <2>2. \A x : x \in {n \in 1 .. i - 1 : Selected(tests[n])}'
                 <=> x \in {n \in 1 .. i - 1 : Selected(tests[n])}
    BY <1>0, <2>1 DEF table, config, Selected, Test
  <2>3. ~InTest'
    BY <2>1 DEF InTest, Waiting, Judged
  <2>4. /\ Counted("passed")' = Counted("passed") /\ Counted("failed")' = Counted("failed")
        /\ Counted("skipped")' = Counted("skipped")
    BY <2>1 DEF Counted
  <2>5. {log[k].test : k \in DOMAIN log}' = {n \in 1 .. i - 1 : Selected(tests[n])}'
    BY <1>0, <2>1, <2>2 DEF Counts
  <2> QED
    BY <1>0, <2>1, <2>3, <2>4, <2>5 DEF Counts
<1>4. CASE Start \/ StartFails \/ Reap \/ Tick \/ Kill \/ Judge \/ CaptureStdout \/ CaptureStderr
           \/ Child \/ LeftEnds \/ UNCHANGED vars
  <2>1. /\ UNCHANGED <<log, counts, table, config, i>>
        /\ pc' = "idle" <=> pc = "idle"
        /\ InTest' => InTest \/ Selected(Test)
    <3>1. CASE Start \/ StartFails
      BY <3>1 DEF Start, StartFails, AtTest
    <3>2. CASE Reap \/ Tick \/ Kill \/ Judge \/ CaptureStdout \/ CaptureStderr
      BY <3>2 DEF Reap, Tick, Kill, Judge, CaptureStdout, CaptureStderr, history, InTest, Waiting,
                  Judged
    <3>3. CASE Child \/ LeftEnds \/ UNCHANGED vars
      BY <3>3, ChildFrame DEF vars, history, InTest, Waiting, Judged
    <3> QED
      BY <1>4, <3>1, <3>2, <3>3
  <2>2. CASE pc = "idle"
    BY <2>1, <2>2 DEF Counts
  <2>3. CASE pc # "idle"
    <3>1. Selected(Test)' <=> Selected(Test)
      BY <2>1, SameTest DEF Selected
    <3>2. {n \in 1 .. i - 1 : Selected(tests[n])}' = {n \in 1 .. i - 1 : Selected(tests[n])}
      BY <2>1, SameTest DEF Selected
    <3>3. /\ Counted("passed")' = Counted("passed") /\ Counted("failed")' = Counted("failed")
          /\ Counted("skipped")' = Counted("skipped")
      BY <2>1 DEF Counted
    <3> QED
      BY <1>0, <2>1, <2>3, <3>1, <3>2, <3>3 DEF Counts
  <2> QED
    BY <2>2, <2>3
<1>5. CASE Count \/ Skip
  <2>1. PICK e \in Entries :
            /\ log' = Append(log, e) /\ e.test = i
            /\ counts' = [counts EXCEPT ![e.counted] = @ + 1]
            /\ UNCHANGED <<table, config>> /\ pc' = "next" /\ pc # "idle"
            /\ i' = i + 1 /\ i <= Len(tests) /\ Selected(Test)
    BY <1>5, Counting DEF Count, Skip
  <2>2. /\ \A as \in {"passed", "failed", "skipped"} :
               /\ Cardinality(Counted(as)) \in Nat
               /\ Cardinality(Counted(as))'
                    = Cardinality(Counted(as)) + (IF e.counted = as THEN 1 ELSE 0)
        /\ DOMAIN log' = 1 .. Len(log) + 1 /\ DOMAIN log = 1 .. Len(log) /\ Len(log) \in Nat
        /\ log'[Len(log) + 1] = e /\ \A k \in DOMAIN log : log'[k] = log[k]
    BY <1>0, <2>1, LogGrows
  <2>3. /\ {log[k].test : k \in DOMAIN log} = {n \in 1 .. i - 1 : Selected(tests[n])}
        /\ \A j, k \in DOMAIN log : j < k => log[j].test < log[k].test
        /\ counts.passed = Cardinality(Counted("passed"))
        /\ counts.failed = Cardinality(Counted("failed"))
        /\ counts.skipped = Cardinality(Counted("skipped"))
    BY <1>0, <2>1 DEF Counts
  <2>4. \A n : Selected(tests[n])' <=> Selected(tests[n])
    BY <2>1 DEF Selected, table, config
  <2>5. {log[k].test : k \in DOMAIN log}' = {n \in 1 .. i - 1 : Selected(tests[n])}'
    <3> DEFINE old == {log[k].test : k \in DOMAIN log}
               new == {log'[k].test : k \in DOMAIN log'}
    <3>1. new = old \cup {i}
      <4>1. ASSUME NEW x \in new PROVE x \in old \cup {i}
        <5>1. PICK k \in DOMAIN log' : log'[k].test = x
          OBVIOUS
        <5>2. CASE k = Len(log) + 1
          BY <2>1, <2>2, <5>1, <5>2
        <5>3. CASE k # Len(log) + 1
          <6>1. k \in DOMAIN log /\ log'[k] = log[k]
            BY <2>2, <5>3
          <6> QED
            BY <5>1, <6>1
        <5> QED
          BY <5>2, <5>3
      <4>2. ASSUME NEW x \in old PROVE x \in new
        <5>1. PICK k \in DOMAIN log : log[k].test = x
          OBVIOUS
        <5>2. k \in DOMAIN log' /\ log'[k] = log[k]
          BY <2>2, <5>1
        <5> QED
          BY <5>1, <5>2
      <4>3. i \in new
        <5>1. Len(log) + 1 \in DOMAIN log' /\ log'[Len(log) + 1].test = i
          BY <2>1, <2>2
        <5> QED
          BY <5>1
      <4> QED
        BY <4>1, <4>2, <4>3
    <3>2. {n \in 1 .. i - 1 : Selected(tests[n])}' = {n \in 1 .. i : Selected(tests[n])}
      BY <1>0, <2>1, <2>4
    <3>3. {n \in 1 .. i : Selected(tests[n])} = {n \in 1 .. i - 1 : Selected(tests[n])} \cup {i}
      BY <1>0, <2>1 DEF Test
    <3> QED
      BY <2>3, <3>1, <3>2, <3>3
  <2>6. \A j, k \in DOMAIN log' : j < k => log'[j].test < log'[k].test
    <3>1. SUFFICES ASSUME NEW j \in 1 .. Len(log) + 1, NEW k \in 1 .. Len(log) + 1, j < k
                   PROVE  log'[j].test < log'[k].test
      BY <2>2
    <3>2. j \in DOMAIN log /\ log'[j] = log[j]
      BY <2>2, <3>1
    <3>3. CASE k \in DOMAIN log
      BY <2>2, <2>3, <3>1, <3>2, <3>3
    <3>4. CASE k = Len(log) + 1
      <4>1. log[j].test \in 1 .. i - 1
        BY <2>3, <3>2
      <4>2. log'[k].test = i
        BY <2>1, <2>2, <3>4
      <4> QED
        BY <1>0, <3>2, <4>1, <4>2
    <3> QED
      BY <2>2, <3>3, <3>4
  <2>7. /\ counts'.passed = Cardinality(Counted("passed"))'
        /\ counts'.failed = Cardinality(Counted("failed"))'
        /\ counts'.skipped = Cardinality(Counted("skipped"))'
    <3>1. e.counted \in {"passed", "failed", "skipped"}
      BY DEF Entries
    <3>2. counts \in [passed : Nat, failed : Nat, skipped : Nat, errors : Nat]
      BY <1>0 DEF TypeOK
    <3>3. \A as \in {"passed", "failed", "skipped"} :
             counts'[as] = counts[as] + (IF e.counted = as THEN 1 ELSE 0)
      <4>1. /\ counts.passed \in Nat /\ counts.failed \in Nat /\ counts.skipped \in Nat
            /\ DOMAIN counts = {"passed", "failed", "skipped", "errors"}
        BY <3>2
      <4>2. ASSUME NEW as \in {"passed", "failed", "skipped"}
            PROVE  counts'[as] = counts[as] + (IF e.counted = as THEN 1 ELSE 0)
        <5>1. counts[as] \in Nat /\ as \in DOMAIN counts
          BY <4>1
        <5>2. CASE e.counted = as
          <6>1. counts' = [counts EXCEPT ![as] = counts[as] + 1]
            BY <2>1, <5>2, Zenon
          <6>2. counts'[as] = counts[as] + 1
            BY <5>1, <6>1
          <6>3. (IF e.counted = as THEN 1 ELSE 0) = 1
            BY <5>2
          <6> QED
            BY <6>2, <6>3, Zenon
        <5>3. CASE e.counted # as
          <6>1. counts'[as] = counts[as]
            BY <2>1, <5>1, <5>3
          <6>2. (IF e.counted = as THEN 1 ELSE 0) = 0
            BY <5>3
          <6>3. counts[as] + 0 = counts[as]
            <7>1. \A n \in Nat : n + 0 = n
              OBVIOUS
            <7> QED
              BY <5>1, <7>1, Zenon
          <6> QED
            BY <6>1, <6>2, <6>3, Zenon
        <5> QED
          BY <5>2, <5>3
      <4> QED
        BY <4>2
    <3> QED
      BY <2>2, <2>3, <3>3
  <2>8. ~InTest'
    BY <2>1 DEF InTest, Waiting, Judged
  <2> QED
    BY <2>5, <2>6, <2>7, <2>8 DEF Counts
<1> QED
  BY <1>1, <1>2, <1>3, <1>4, <1>5 DEF Next, Runner, Over

LEMMA NoneAmissKept ==
  ASSUME IInv, [Next]_vars
  PROVE  NoneAmiss'
<1>0. NoneAmiss /\ log \in Seq(Entries)
  BY DEF IInv, Tallied
<1>1. counts \in [passed : Nat, failed : Nat, skipped : Nat, errors : Nat]
  BY DEF IInv, TypeOK
<1>2. CASE Count \/ Skip
  <2>1. PICK e \in Entries :
            /\ log' = Append(log, e)
            /\ e.kind = "SKIP" => e.counted = "skipped"
            /\ counts' = [counts EXCEPT ![e.counted] = @ + 1]
    BY <1>2, Counting DEF Count, Skip
  <2>2. /\ DOMAIN log' = 1 .. Len(log) + 1 /\ DOMAIN log = 1 .. Len(log) /\ Len(log) \in Nat
        /\ log'[Len(log) + 1] = e /\ \A k \in DOMAIN log : log'[k] = log[k]
    BY <1>0, <2>1, LogGrows
  <2>3. e.counted # "errors"
    BY DEF Entries
  <2>4. counts'.errors = counts.errors
    BY <1>1, <2>1, <2>3
  <2>5. ASSUME NEW k \in DOMAIN log', log'[k].kind = "SKIP"
        PROVE  log'[k].counted = "skipped"
    <3>1. CASE k \in DOMAIN log
      BY <1>0, <2>2, <2>5, <3>1 DEF NoneAmiss
    <3>2. CASE k \notin DOMAIN log
      BY <2>1, <2>2, <2>5, <3>2
    <3> QED
      BY <3>1, <3>2
  <2> QED
    BY <1>0, <2>4, <2>5 DEF NoneAmiss
<1>3. ASSUME NEW o \in Options, Run(o)
      PROVE  NoneAmiss'
  BY <1>3 DEF Run, NoCounts, NoneAmiss
<1>4. CASE \/ (\E t \in Tests : Register(t)) \/ RegisterFails \/ Return \/ PassOver \/ Start
           \/ StartFails \/ Reap \/ Tick \/ Kill \/ Judge \/ CaptureStdout \/ CaptureStderr
           \/ Child \/ LeftEnds \/ UNCHANGED vars
  <2>1. UNCHANGED <<log, counts>>
    <3>1. CASE (\E t \in Tests : Register(t)) \/ RegisterFails \/ Return \/ PassOver
      BY <3>1 DEF Register, RegisterFails, Return, PassOver, history
    <3>2. CASE Start \/ StartFails \/ Reap \/ Tick \/ Kill
      BY <3>2 DEF Start, StartFails, Reap, Tick, Kill, history
    <3>3. CASE Judge \/ CaptureStdout \/ CaptureStderr
      BY <3>3 DEF Judge, CaptureStdout, CaptureStderr, history
    <3>4. CASE Child \/ LeftEnds \/ UNCHANGED vars
      BY <3>4, ChildFrame DEF vars, history
    <3> QED
      BY <1>4, <3>1, <3>2, <3>3, <3>4
  <2> QED
    BY <1>0, <2>1 DEF NoneAmiss
<1> QED
  BY <1>2, <1>3, <1>4 DEF Next, Runner, Over

LEMMA TalliedKept ==
  ASSUME IInv, [Next]_vars
  PROVE  Tallied'
<1>0. TypeOK /\ InTable /\ Course /\ Verdicts /\ Counts /\ Tallied /\ log \in Seq(Entries)
  BY DEF IInv, Tallied
<1>1. printed' \in [out : Seq(Lines), err : Seq(Lines)]
  BY PrintedKept
<1>2. CASE Count \/ Skip
  <2>1. PICK e \in Entries :
            /\ log' = Append(log, e) /\ e.test = i
            /\ \/ e.kind = "SKIP" /\ pc = "next"
               \/ /\ pc = "count" /\ e.kind = result.kind /\ e.kind # "SKIP" /\ e.did = did
                  /\ e.counted = CountedAs(e.kind, Test.should_fail)
            /\ UNCHANGED table
    BY <1>2, Counting
  <2>2. /\ DOMAIN log' = 1 .. Len(log) + 1 /\ DOMAIN log = 1 .. Len(log) /\ Len(log) \in Nat
        /\ log'[Len(log) + 1] = e /\ \A k \in DOMAIN log : log'[k] = log[k]
        /\ log' \in Seq(Entries)
    BY <1>0, <2>1, LogGrows
  <2>3. e.kind # "SKIP" =>
          /\ e.counted = CountedAs(e.kind, tests[e.test].should_fail)
          /\ e.kind = "PASS" => e.did \in {"finished", "quit"}
          /\ e.did \in {"finished", "quit"} => e.kind \in {"PASS", "FAIL_TIMEOUT"}
    <3>1. SUFFICES ASSUME e.kind # "SKIP"
                   PROVE  /\ e.counted = CountedAs(e.kind, tests[e.test].should_fail)
                          /\ e.kind = "PASS" => e.did \in {"finished", "quit"}
                          /\ e.did \in {"finished", "quit"} => e.kind \in {"PASS", "FAIL_TIMEOUT"}
      OBVIOUS
    <3>2. /\ pc = "count" /\ e.kind = result.kind /\ e.did = did
          /\ e.counted = CountedAs(e.kind, Test.should_fail)
      BY <2>1, <3>1
    <3>3. did \in Deeds /\ VerdictFits
      BY <1>0, <3>2 DEF Course, Verdicts, Judged
    <3>4. did = "failed" => result.kind \in FailureKinds
      <4>1. SUFFICES ASSUME did = "failed" PROVE result.kind \in FailureKinds
        OBVIOUS
      <4>2. /\ child.step \in DOMAIN Test.body /\ Test.body[child.step].op = "fail"
            /\ Test \in Tests
        BY <1>0, <3>2, <4>1, TestType DEF Verdicts, Judged, InTest, Failing
      <4>3. Failing.report.kind = result.kind
        BY <3>3, <4>1 DEF VerdictFits
      <4> QED
        BY <4>2, <4>3, Tabulated DEF Failing
    <3>5. /\ result.kind = "PASS" => did \in {"finished", "quit"}
          /\ did \in {"finished", "quit"} => result.kind \in {"PASS", "FAIL_TIMEOUT"}
      BY <3>3, <3>4 DEF VerdictFits, Deeds, FailureKinds
    <3> QED
      BY <2>1, <3>2, <3>5 DEF Test
  <2>4. \A k \in DOMAIN log : log[k].kind # "SKIP" =>
          /\ log[k].counted = CountedAs(log[k].kind, tests[log[k].test].should_fail)
          /\ log[k].kind = "PASS" => log[k].did \in {"finished", "quit"}
          /\ log[k].did \in {"finished", "quit"} => log[k].kind \in {"PASS", "FAIL_TIMEOUT"}
    BY <1>0, <2>1 DEF Tallied
  <2>5. tests' = tests
    BY <2>1 DEF table
  <2>6. ASSUME NEW k \in DOMAIN log', log'[k].kind # "SKIP"
        PROVE  /\ log'[k].counted = CountedAs(log'[k].kind, tests'[log'[k].test].should_fail)
               /\ log'[k].kind = "PASS" => log'[k].did \in {"finished", "quit"}
               /\ log'[k].did \in {"finished", "quit"} => log'[k].kind \in {"PASS", "FAIL_TIMEOUT"}
    <3>1. CASE k \in DOMAIN log
      BY <2>2, <2>4, <2>5, <2>6, <3>1
    <3>2. CASE k \notin DOMAIN log
      <4>1. log'[k] = e
        BY <2>2, <3>2
      <4> QED
        BY <2>3, <2>5, <2>6, <4>1
    <3> QED
      BY <3>1, <3>2
  <2> QED
    BY <1>1, <2>2, <2>6 DEF Tallied
<1>3. ASSUME NEW o \in Options, Run(o)
      PROVE  Tallied'
  <2>1. log' = <<>>
    BY <1>3 DEF Run
  <2>2. log' \in Seq(Entries) /\ DOMAIN log' = {}
    BY <2>1
  <2> QED
    BY <1>1, <2>2 DEF Tallied
<1>4. CASE (\E t \in Tests : Register(t)) \/ RegisterFails \/ Return
  <2>1. log' = log /\ pc' = "idle"
    BY <1>4 DEF Register, RegisterFails, Return, history
  <2> QED
    BY <1>0, <1>1, <2>1 DEF Tallied
<1>5. CASE \/ PassOver \/ Start \/ StartFails \/ Reap \/ Tick \/ Kill \/ Judge \/ CaptureStdout
           \/ CaptureStderr \/ Child \/ LeftEnds \/ UNCHANGED vars
  <2>1. UNCHANGED <<log, tests>> /\ (pc' # "idle" => pc # "idle")
    <3>1. CASE PassOver \/ Start \/ StartFails
      BY <3>1 DEF PassOver, Start, StartFails, AtTest, table, history
    <3>2. CASE Reap \/ Tick \/ Kill \/ Judge \/ CaptureStdout \/ CaptureStderr
      BY <3>2 DEF Reap, Tick, Kill, Judge, CaptureStdout, CaptureStderr, table, history
    <3>3. CASE Child \/ LeftEnds \/ UNCHANGED vars
      BY <3>3, ChildFrame DEF vars, table, history
    <3> QED
      BY <1>5, <3>1, <3>2, <3>3
  <2> QED
    BY <1>0, <1>1, <2>1 DEF Tallied
<1> QED
  BY <1>2, <1>3, <1>4, <1>5 DEF Next, Runner, Over

-----------------------------------------------------------------------------
(* The theorems.                                                           *)

\* The invariant is inductive.
LEMMA Invariance == Spec => []IInv
<1>1. Init => IInv
  BY InitIInv
<1>2. IInv /\ [Next]_vars => IInv'
  <2> SUFFICES ASSUME IInv, [Next]_vars PROVE IInv'
    OBVIOUS
  <2>1. TypeOK' /\ InTable' /\ Course' /\ Verdicts'
    BY TypeKept, InTableKept, CourseKept, VerdictsKept
  <2>2. Outputs' /\ Costs' /\ Counts' /\ Tallied' /\ NoneAmiss'
    BY OutputsKept, CostsKept, CountsKept, TalliedKept, NoneAmissKept
  <2> QED
    BY <2>1, <2>2 DEF IInv
<1> QED
  BY <1>1, <1>2, PTL DEF Spec

\* The table never holds more tests than it has room for, the runner never has
\* more descriptors open than it may, a pipe never holds more than it can, and
\* a result is always of a known kind.  (_ty_test, _ty_run_test)
THEOREM TypeCorrect == Spec => []TypeOK
<1>1. IInv => TypeOK
  BY DEF IInv
<1> QED
  BY <1>1, Invariance, PTL

\* The verdict on a test is how its child ended, whatever the interleaving of
\* the child's end, its report and the runner's clock; PASS for a child that left
\* with the status 0 in time and without an assertion that failed, by returning
\* from the test function or otherwise.  (_ty_run_test)
THEOREM VerdictSound == Spec => []VerdictIsOfChild
<1>1. IInv => VerdictIsOfChild
  BY DEF IInv, Verdicts, Judged, VerdictIsOfChild
<1> QED
  BY <1>1, Invariance, PTL

\* What the runner prints of a failed assertion is what the test reported.
\* (_ty_test_write_failure_to_pipe, _ty_read_failure_from_pipe)
THEOREM ReportSound == Spec => []ReportIsConveyed
<1>1. IInv => ReportIsConveyed
  BY DEF IInv, Verdicts, Judged, ReportIsConveyed
<1> QED
  BY <1>1, Invariance, PTL

\* The captured output of a test is what it printed, in order and as much as the
\* runner keeps; where stdout is no terminal, what the runner's report had waiting
\* comes first, and at most what the buffer held at the end is lost.
\* (_ty_test_runInChild, _ty_test_capture_output)
THEOREM OutputSound == Spec => []OutputIsOfTest
<1>1. IInv => OutputIsOfTest
  <2> DEFINE all == Unwritten \o printed.out
  <2> SUFFICES ASSUME IInv, pc = "count", options.capture, result.kind # "ERROR"
               PROVE  /\ result.stderr = Kept(printed.err)
                      /\ Len(stream.out) \in Len(all) - Capacity .. Len(all)
                      /\ result.stdout = Kept(SubSeq(all, 1, Len(stream.out)))
    BY DEF OutputIsOfTest
  <2>1. did # "nothing"
    BY DEF IInv, Verdicts, Judged, VerdictFits
  <2>2. /\ stream.out \o child.buffer = all /\ Len(child.buffer) <= Capacity
        /\ stream.err = printed.err
        /\ result.stdout = Kept(stream.out) /\ result.stderr = Kept(stream.err)
    BY <2>1 DEF IInv, Outputs, InTest, Judged
  <2>3. stream.out \in Seq(Lines) /\ child.buffer \in Seq(Lines)
    BY DEF IInv, TypeOK
  <2> HIDE DEF all
  <2>4. /\ Len(all) = Len(stream.out) + Len(child.buffer)
        /\ Len(stream.out) \in Nat /\ Len(child.buffer) \in Nat
    <3>1. ASSUME NEW s \in Seq(Lines), NEW b \in Seq(Lines)
          PROVE  Len(s \o b) = Len(s) + Len(b) /\ Len(s) \in Nat /\ Len(b) \in Nat
      OBVIOUS
    <3> QED
      BY <2>2, <2>3, <3>1, Zenon
  <2>5. Capacity \in Nat
    BY TestRunnerAssumption DEF Capacity
  <2>6. Len(stream.out) \in Len(all) - Capacity .. Len(all)
    <3> DEFINE whole == Len(all)
               piped == Len(stream.out)
               kept  == Len(child.buffer)
    <3>1. /\ whole = piped + kept /\ piped \in Nat /\ kept \in Nat
          /\ kept <= Capacity /\ Capacity \in Nat
      BY <2>2, <2>4, <2>5
    <3> HIDE DEF whole, piped, kept
    <3>2. piped \in whole - Capacity .. whole
      BY <3>1, LostAtMost
    <3> QED
      BY <3>2 DEF whole, piped
  <2>7. SubSeq(all, 1, Len(stream.out)) = stream.out
    BY <2>2, <2>3, LineFirst
  <2> QED
    BY <2>2, <2>6, <2>7
<1> QED
  BY <1>1, Invariance, PTL

\* A run counts every test of the suite it was asked for once, and no other.
\* (_ty_test_run)
THEOREM CountSound == Spec => []CountedOnce
<1>1. IInv => CountedOnce
  BY DEF IInv, Counts, Counted, CountedOnce
<1> QED
  BY <1>1, Invariance, PTL

\* Between two tests no child is left, and a test has cost the runner one
\* descriptor.  (_ty_run_test)
THEOREM LeftoversSound == Spec => []NothingLeftButOne
<1>1. IInv => NothingLeftButOne
  <2> SUFFICES ASSUME IInv, pc = "next", runs = 1
               PROVE  /\ child.state = "none"
                      /\ NoErrors => fds = Cardinality(Started)
    BY DEF NothingLeftButOne, NoErrors, Started
  <2>1. child.state = "none"
    BY DEF IInv, Course, Waiting
  <2>2. Held = 0
    BY DEF Held, Waiting
  <2>3. NoErrors => fds = Cardinality(Started) + Held
    BY DEF IInv, Costs
  <2>4. Cardinality(Started) \in Nat
    BY LogStays DEF IInv, Tallied
  <2> QED
    BY <2>1, <2>2, <2>3, <2>4
<1> QED
  BY <1>1, Invariance, PTL

\* Nothing was counted as failed just if every test but those skipped was counted
\* as passed.
LEMMA NoneFailed ==
  ASSUME IInv, pc = "next"
  PROVE  counts.failed = 0
           <=> \A k \in DOMAIN log : log[k].kind = "SKIP" \/ log[k].counted = "passed"
<1>1. log \in Seq(Entries) /\ Len(log) \in Nat /\ DOMAIN log = 1 .. Len(log)
  BY DEF IInv, Tallied
<1>2. counts.failed = Cardinality(Counted("failed"))
  BY DEF IInv, Counts
<1>3. IsFiniteSet(Counted("failed"))
  <2>1. Counted("failed") \subseteq 1 .. Len(log)
    BY <1>1 DEF Counted
  <2>2. IsFiniteSet(1 .. Len(log))
    BY <1>1, FS_Interval
  <2> QED
    BY <2>1, <2>2, FS_Subset
<1>4. counts.failed = 0 <=> Counted("failed") = {}
  BY <1>2, <1>3, FS_EmptySet
<1>5. ASSUME NEW k \in DOMAIN log
      PROVE  log[k].counted = "failed" <=> ~(log[k].kind = "SKIP" \/ log[k].counted = "passed")
  <2>1. CASE log[k].kind = "SKIP"
    BY <2>1 DEF IInv, NoneAmiss
  <2>2. CASE log[k].kind # "SKIP"
    BY <2>2 DEF IInv, Tallied, CountedAs
  <2> QED
    BY <2>1, <2>2
<1> QED
  BY <1>4, <1>5 DEF Counted

\* A run returns 0 just when of the tests it started every one that was to pass
\* ended with the status 0, in time and without an assertion that failed, and none
\* that was to fail did so in time; and when every test that was to pass was
\* started.  (_ty_test_run, which counts no test as an error)
THEOREM ZeroSound == Spec => ZeroMeansAsExpected
<1> DEFINE well(k) == log[k].did \in {"finished", "quit"} /\ log[k].kind # "FAIL_TIMEOUT"
           Expected(k) == CASE log[k].kind = "SKIP"  -> TRUE
                            [] log[k].kind = "ERROR" -> tests[log[k].test].should_fail
                            [] OTHER                 -> well(k) # tests[log[k].test].should_fail
           Zero == pc = "next" /\ pc' = "idle" => (ret' = 0) = \A k \in DOMAIN log : Expected(k)
<1>1. IInv /\ [Next]_vars => [Zero]_vars
  <2> SUFFICES ASSUME IInv, [Next]_vars, pc = "next", pc' = "idle"
               PROVE  (ret' = 0) <=> \A k \in DOMAIN log : Expected(k)
    OBVIOUS
  <2>1. Return
    <3>1. CASE \/ (\E t \in Tests : Register(t)) \/ RegisterFails \/ (\E o \in Options : Run(o))
               \/ PassOver \/ Skip \/ Start \/ StartFails
      BY <3>1 DEF Register, RegisterFails, Run, PassOver, Skip, Start, StartFails
    <3>2. CASE Reap \/ Tick \/ Kill \/ Judge \/ CaptureStdout \/ CaptureStderr \/ Count
      BY <3>2 DEF Reap, Tick, Kill, Judge, CaptureStdout, CaptureStderr, Count
    <3>3. CASE Child \/ LeftEnds \/ UNCHANGED vars
      BY <3>3, ChildFrame DEF vars
    <3> QED
      BY <3>1, <3>2, <3>3 DEF Next, Runner, Over
  <2>2. ret' = 0 <=> counts.failed = 0
    <3>1. counts.failed \in Nat /\ counts.errors = 0
      BY DEF IInv, TypeOK, NoneAmiss
    <3> QED
      BY <2>1, <3>1 DEF Return
  <2>3. ASSUME NEW k \in DOMAIN log
        PROVE  Expected(k) <=> log[k].kind = "SKIP" \/ log[k].counted = "passed"
    <3>1. CASE log[k].kind = "SKIP"
      BY <3>1
    <3>2. CASE log[k].kind # "SKIP"
      <4>1. /\ log[k].counted = CountedAs(log[k].kind, tests[log[k].test].should_fail)
            /\ log[k].kind = "PASS" => log[k].did \in {"finished", "quit"}
            /\ log[k].did \in {"finished", "quit"} => log[k].kind \in {"PASS", "FAIL_TIMEOUT"}
        BY <3>2 DEF IInv, Tallied
      <4>2. tests[log[k].test].should_fail \in BOOLEAN
        <5>1. log[k].test \in {n \in 1 .. i - 1 : Selected(tests[n])}
          BY DEF IInv, Counts
        <5>2. /\ tests \in Seq(Tests) /\ Len(tests) \in Nat /\ i \in Nat
              /\ i <= Len(tests) + 1
          BY DEF IInv, TypeOK, InTable
        <5>3. log[k].test \in DOMAIN tests
          BY <5>1, <5>2
        <5> QED
          BY <5>2, <5>3, TestsAssumption
      <4>3. (log[k].kind = "PASS") <=> well(k)
        BY <4>1
      <4>4. log[k].counted = "passed"
              <=> ((log[k].kind = "PASS") # tests[log[k].test].should_fail)
        BY <4>1 DEF CountedAs
      <4>5. CASE log[k].kind = "ERROR"
        BY <4>2, <4>4, <4>5
      <4>6. CASE log[k].kind # "ERROR"
        <5>1. Expected(k) <=> (well(k) # tests[log[k].test].should_fail)
          BY <3>2, <4>6
        <5>2. well(k) \in BOOLEAN
          OBVIOUS
        <5> HIDE DEF well, Expected
        <5> QED
          BY <3>2, <4>2, <4>3, <4>4, <5>1, <5>2
      <4> QED
        BY <4>5, <4>6
    <3> QED
      BY <3>1, <3>2
  <2> HIDE DEF Expected
  <2> QED
    BY <2>2, <2>3, NoneFailed
<1>2. ZeroMeansAsExpected <=> [][Zero]_vars
  BY DEF ZeroMeansAsExpected
<1> QED
  BY <1>1, <1>2, Invariance, PTL DEF Spec
=============================================================================
