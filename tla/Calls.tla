-------------------------------- MODULE Calls --------------------------------
(***************************************************************************)
(* The components that are functions of their operands: big numbers but    *)
(* for division, slices and strings, the argument parser and the fly       *)
(* vector.  A behaviour is one call; its operands are all those of the     *)
(* bounded sets of Init.  What a call of a string or a vector leaves is    *)
(* the operand of a later one, and is among those sets but for its bound.  *)
(***************************************************************************)
EXTENDS BigNum, TyString, ArgParse, FlyVec

CONSTANTS Characters,   \* of texts; NUL among them
          TextLength,   \* longest text of a string or slice
          Letters,      \* of arguments; "-" among them
          Elements      \* sizes of an element of a fly vector

VARIABLES call, result  \* result is <<>> until the call returns

TextsUpTo(chars, n) == UNION {[1 .. k -> chars] : k \in 0 .. n}
Texts     == TextsUpTo(Characters, TextLength)
Arguments == TextsUpTo(Letters, 3)

\* The number of an integer.
IntNumber(n) == [i \in Index |-> Cut(n \div Base^i)]

Text(s) == SubSeq(s.buffer, 1, s.size)

\* Strings as the operations leave them: buffer as long as capacity says.
Strings == {NullString} \cup
           UNION {{[buffer |-> Sized(t, cap), size |-> Len(t), capacity |-> cap] :
                      cap \in Len(t) .. TextLength + 1} : t \in Texts}

\* A fly vector, which the client may resize, but to a power of two elements.
Vectors(size) == {[len |-> n, bytes |-> b] : n \in 0 .. 9, b \in {0} \cup {size * 2^k : k \in 0 .. 4}}

Init ==
    /\ result = <<>>
    /\ \/ \E op \in {"add", "sub", "and", "or", "xor", "mul"}, a, b \in Number :
             \E names \in {<<"a", "b", "c">>, <<"a", "b", "a">>, <<"a", "b", "b">>,
                           <<"a", "a", "c">>, <<"a", "a", "a">>} :
                /\ op = "mul" => names[3] = "c"
                /\ names[2] = "a" => b = Zero
                /\ call = [of |-> "number", op |-> op, a |-> a, b |-> b, names |-> names]
       \/ \E op \in {"inc", "dec", "shl", "shr", "str", "int", "pow", "cmp"}, a \in Number :
             \E n \in CASE op \in {"shl", "shr"} -> 0 .. Bits * (Words + 1)
                        [] op = "int"            -> 0 .. Base^2 - 1
                        [] op = "pow"            -> 0 .. 4
                        [] op = "cmp"            -> 0 .. Base^Words - 1
                        [] op = "str"            -> {2 * k : k \in 1 .. (Words * Digits) \div 2 + 1}
                        [] OTHER                 -> {0} :
                call = [of |-> "word", op |-> op, a |-> a, n |-> n]
       \/ \E s, t \in Texts : call = [of |-> "slices", s |-> s, t |-> t]
       \/ \E s \in Texts, c \in Characters, n \in 0 .. TextLength + 1 :
             call = [of |-> "slice", s |-> s, c |-> c, n |-> n]
       \/ \E op \in {"make", "slice", "copy", "move", "insert", "insert_slice",
                     "push", "push_slice", "pop", "remove"}, s \in Strings, t \in Texts,
             at \in 0 .. TextLength + 1 :
             /\ op \in {"insert", "push"} => Len(t) = 1
             /\ op \in {"make", "slice"} => s = EmptyString
             /\ op \in {"push_slice", "insert_slice"} => s # NullString
             /\ op \in {"pop", "remove"} => s # NullString /\ at < s.size
             /\ op \in {"make", "copy", "move", "pop", "remove"} => t = <<>>
             /\ op \notin {"make", "insert", "insert_slice", "remove"} => at = 0
             /\ call = [of |-> "string", op |-> op, s |-> s, t |-> t, at |-> at]
       \/ \E argv \in TextsUpTo(Arguments, 2) \cup [1 .. 3 -> Arguments] :
             call = [of |-> "arguments", argv |-> <<<<"program">>>> \o argv]
       \/ \E size \in Elements : \E vec \in Vectors(size) :
             /\ vec.bytes >= size * vec.len /\ vec.bytes < FlySizeT
             /\ call = [of |-> "vector", vec |-> vec, size |-> size]

-----------------------------------------------------------------------------
(* The calls.                                                              *)

Memory == [n \in {"a", "b", "c", "row", "tmp"} |->
              CASE n = "a" -> call.a [] n = "b" -> call.b [] OTHER -> Dec(Zero)]

CalculateInto ==
    /\ call.of = "number"
    /\ result' = LET x == call.names[1]  y == call.names[2]  z == call.names[3]
                 IN  <<CASE call.op = "add" -> AddInto(Memory, x, y, z)[z]
                         [] call.op = "sub" -> SubInto(Memory, x, y, z)[z]
                         [] call.op = "mul" -> MulInto(Memory, x, y, z)[z]
                         [] OTHER           -> BitsInto(Memory, call.op, x, y, z)[z]>>

Calculate ==
    /\ call.of = "word"
    /\ result' = <<CASE call.op = "inc" -> Inc(call.a)
                     [] call.op = "dec" -> Dec(call.a)
                     [] call.op = "shl" -> Shl(call.a, call.n)
                     [] call.op = "shr" -> Shr(call.a, call.n)
                     [] call.op = "pow" -> Pow(call.a, IntNumber(call.n))
                     [] call.op = "int" -> FromInt(call.n)
                     [] call.op = "cmp" -> <<Cmp(call.a, IntNumber(call.n)), IsZero(call.a), ToInt(call.a)>>
                     [] call.op = "str" -> ToStr(call.a, call.n)>>

CompareSlices ==
    /\ call.of = "slices"
    /\ result' = <<[cmp |-> SliceCmp(call.s, call.t), eq |-> SliceEq(call.s, call.t),
                    starts |-> StartsWith(call.s, call.t), ends |-> EndsWith(call.s, call.t)]>>

SearchSlice ==
    /\ call.of = "slice"
    /\ result' = LET s == call.s  c == call.c
                 IN  <<[has   |-> Found(s, c), count |-> CountOf(s, c),
                        first |-> IF Found(s, c) THEN FindIn(s, c) ELSE 0,
                        last  |-> IF Found(s, c) THEN RFindIn(s, c) ELSE 0,
                        split |-> SplitOff(s, c), split_n |-> SplitOffN(s, c, call.n)]>>

\* The string that is left, and the character that was taken from it.
Kept(outcomes) == {[char |-> 0, string |-> s] : s \in outcomes}

ChangeString ==
    /\ call.of = "string"
    /\ \E r \in LET s == call.s  t == call.t
                IN  CASE call.op = "make"         -> Kept(StringMake(call.at))
                      [] call.op = "slice"        -> Kept(StringSlice(t))
                      [] call.op = "copy"         -> Kept(StringCopy(s))
                      [] call.op = "move"         -> Kept({StringMove(s).to})
                      [] call.op = "insert"       -> Kept(StringInsert(s, call.at, t[1]))
                      [] call.op = "insert_slice" -> Kept(StringInsertSlice(s, call.at, t))
                      [] call.op = "push"         -> Kept(StringPush(s, t[1]))
                      [] call.op = "push_slice"   -> Kept(StringPushSlice(s, t))
                      [] call.op = "pop"          -> {StringPop(s)}
                      [] call.op = "remove"       -> {StringRemove(s, call.at)} :
          result' = <<r>>

ReadAll  == call.of = "arguments" /\ result' = <<ReadArguments(call.argv)>>
PushOnto == call.of = "vector" /\ \E r \in FlyPush(call.vec, call.size) : result' = <<r>>

Next == /\ result = <<>>
        /\ UNCHANGED call
        /\ CalculateInto \/ Calculate \/ CompareSlices \/ SearchSlice \/ ChangeString \/ ReadAll \/ PushOnto

Spec == Init /\ [][Next]_<<call, result>>

-----------------------------------------------------------------------------
(* What the calls return.                                                  *)

Returned(of) == result # <<>> /\ call.of = of


\* A shift to the right by n bits divides by 2^n (ty_bignum.h:116: c = a >> nbits).
ShiftsRight ==
    Returned("word") /\ call.op = "shr" => Value(result[1]) = Value(call.a) \div 2^call.n

\* A number is written into the characters there are, and no further
\* (ty_bignum.h:70: maxsize; test_ty_bignum.c:28 gives the size of its buffer).
StaysWithinBuffer ==
    Returned("word") /\ call.op = "str" => result[1].written <= call.n


\* Two slices compare as 0 if they are equal, and only then
\* (ty_string.h:56-59: 0 ? [s1] == [s2]).
ComparesEqual ==
    Returned("slices") => (result[1].cmp = 0) = (call.s = call.t)

\* A string never holds a character past its allocation, has the text that was
\* asked for whatever it grew from, and is given up for the null string only if
\* memory was needed or the place was not in it; a null string stays one
\* (ty_string.c:229-426).
TextsAreKept ==
    Returned("string") =>
        LET s    == call.s
            text == IF s = NullString THEN <<>> ELSE Text(s)
            got  == result[1].string
            at   == IF call.at < Len(text) THEN call.at ELSE Len(text)
            want == CASE call.op = "slice" -> call.t
                      [] call.op \in {"make", "copy", "move"} -> text
                      [] call.op \in {"push", "push_slice"} -> text \o call.t
                      [] call.op \in {"insert", "insert_slice"} ->
                             SubSeq(text, 1, at) \o call.t \o SubSeq(text, at + 1, Len(text))
                      [] call.op = "pop" -> SubSeq(text, 1, Len(text) - 1)
                      [] call.op = "remove" ->
                             SubSeq(text, 1, at) \o SubSeq(text, at + 2, Len(text))
        IN  /\ IF got = NullString
               THEN \/ s = NullString \/ call.op \in {"make", "slice", "copy"}
                    \/ Len(want) > s.capacity
                    \/ call.op \in {"insert", "insert_slice"} /\ call.at >= Len(text)
               ELSE s # NullString /\ Len(got.buffer) = got.capacity /\ Text(got) = want
            /\ call.op = "pop"    => result[1].char = text[Len(text)]
            /\ call.op = "remove" => result[1].char = text[call.at + 1]

\* Read argument by argument, and not letter by letter, the arguments say the
\* same: a value is the rest of its cluster or the next argument whatever that
\* looks like, and all is positional after "--" (ty_argparse.h:74-122).
ArgumentsMean ==
    Returned("arguments") =>
        LET argv == call.argv
            stops(tokens, why) == [read |-> tokens, on |-> why]
            then(token, after) == [after EXCEPT !.read = <<token>> \o @]
            valued(kind, name, value) == [kind |-> kind, text |-> name, value |-> value]
            \* From argument i on: TRUE if only positional ones are left.
            meaning[i \in 1 .. Len(argv) + 2, only \in BOOLEAN] ==
                IF i > Len(argv) THEN stops(<<>>, "done")
                ELSE LET arg   == argv[i]
                         name  == SubSeq(arg, 3, Len(arg))
                         \* letters of a cluster up to one that takes a value or is unknown
                         cut   == {k \in 2 .. Len(arg) : <<arg[k]>> \in WithValue \/ <<arg[k]>> \notin Known}
                         k     == IF cut = {} THEN Len(arg) + 1 ELSE CHOOSE k \in cut : \A j \in cut : k <= j
                         flags == [j \in 1 .. k - 2 |-> Token("short", <<arg[j + 1]>>)]
                         next  == IF i = Len(argv) THEN stops(<<>>, "error") ELSE meaning[i + 2, FALSE]
                         value == IF i = Len(argv) THEN NULL ELSE argv[i + 1]
                         more  == CASE cut = {} -> meaning[i + 1, FALSE]
                                    [] cut # {} /\ <<arg[k]>> \notin Known ->
                                           stops(<<Token("short", <<arg[k]>>)>>, "error")
                                    [] cut # {} /\ <<arg[k]>> \in Known /\ k < Len(arg) ->
                                           then(valued("short", <<arg[k]>>, SubSeq(arg, k + 1, Len(arg))),
                                                meaning[i + 1, FALSE])
                                    [] OTHER -> then(valued("short", <<arg[k]>>, value), next)
                     IN  CASE only \/ arg \in {<<>>, <<"-">>} \/ arg[1] # "-" ->
                                  then(Token("positional", arg), meaning[i + 1, only])
                           [] ~only /\ arg = <<"-", "-">> -> meaning[i + 1, TRUE]
                           [] ~only /\ Len(arg) > 2 /\ arg[1] = "-" /\ arg[2] = "-" ->
                                  CASE name \notin Known -> stops(<<Token("long", name)>>, "error")
                                    [] name \in WithValue -> then(valued("long", name, value), next)
                                    [] OTHER -> then(Token("long", name), meaning[i + 1, FALSE])
                           [] OTHER -> [more EXCEPT !.read = flags \o @]
            got == result[1]
        IN  [read |-> got.read, on |-> got.on] = meaning[2, FALSE]

\* A pushed element is inside the allocation, which is the bytes of a power of
\* two elements that did not wrap round; a push that fails leaves the vector
\* (ty_flyvec.h:23-47).
RoomForPushed ==
    Returned("vector") =>
        LET got == result[1]
        IN  IF ~got.ok THEN got.vec = call.vec
            ELSE /\ got.vec.len = call.vec.len + 1
                 /\ \E k \in 0 .. got.vec.len : got.vec.bytes = call.size * 2^k /\ 2^k >= got.vec.len
=============================================================================
