------------------------------- MODULE TyString -------------------------------
(***************************************************************************)
(* ty_string: slices, taken for the sequence of characters they point at,  *)
(* and growable strings.  An operation on a string returns the set of      *)
(* strings it may leave: the allocator may fail.                           *)
(***************************************************************************)
EXTENDS Integers, Sequences

CONSTANTS SizeT,                \* 2^64
          InitialCapacity,      \* TY_STRING_INITIAL_CAPACITY
          GrowthFactor,         \* TY_STRING_GROWTH_FACTOR
          MaxAlloc              \* what the allocator never gives more than

ASSUME TyStringAssumption == /\ MaxAlloc \in Nat /\ MaxAlloc * GrowthFactor < SizeT - 1
                             /\ InitialCapacity \in 1 .. MaxAlloc
                             /\ GrowthFactor \in Nat \ {0, 1}

NUL == 0                \* characters are numbers

-----------------------------------------------------------------------------
(* Slices.                                                                 *)

\* Positions before the first, and after the last, character c; or none.
Found(s, c) == \E i \in 1 .. Len(s) : s[i] = c

FindIn(s, c)  == CHOOSE i \in 0 .. Len(s) - 1 : s[i + 1] = c /\ \A j \in 1 .. i : s[j] # c
RFindIn(s, c) == CHOOSE i \in 0 .. Len(s) - 1 :
                    s[i + 1] = c /\ \A j \in i + 2 .. Len(s) : s[j] # c

CountOf(s, c) == LET count[i \in 0 .. Len(s)] ==
                        IF i = 0 THEN 0 ELSE count[i - 1] + IF s[i] = c THEN 1 ELSE 0
                 IN  count[Len(s)]

SplitAt(s, found, i) == [found |-> found,
                         pre   |-> SubSeq(s, 1, i),
                         post  |-> SubSeq(s, IF found THEN i + 2 ELSE Len(s) + 1, Len(s))]


SplitOff(s, delim) ==
    SplitAt(s, Found(s, delim), IF Found(s, delim) THEN FindIn(s, delim) ELSE Len(s))

\* slice_split_n looks at n characters at most.
SplitOffN(s, delim, n) ==
    LET head == SubSeq(s, 1, IF n < Len(s) THEN n ELSE Len(s))
    IN  IF Found(head, delim) THEN SplitAt(s, TRUE, FindIn(head, delim))
                              ELSE SplitAt(s, FALSE, Len(s))

StartsWith(s, p) == Len(p) <= Len(s) /\ \A i \in 1 .. Len(p) : p[i] = s[i]
EndsWith(s, p)   == Len(p) <= Len(s)
                    /\ \A j \in 1 .. Len(p) : s[Len(s) - Len(p) + j] = p[j]

\* strncmp: up to n characters, and not past a NUL.
StrNCmp(s, t, n) ==
    LET ends == {i \in 1 .. n : s[i] # t[i] \/ s[i] = NUL}
        i    == CHOOSE i \in ends : \A j \in ends : i <= j
    IN  IF ends = {} THEN 0 ELSE s[i] - t[i]

SliceCmp(s, t) == StrNCmp(s, t, IF Len(s) > Len(t) THEN Len(t) ELSE Len(s))
SliceEq(s, t)  == Len(s) = Len(t) /\ StrNCmp(s, t, Len(s)) = 0

-----------------------------------------------------------------------------
(* Strings.  A buffer is the characters of its allocation; no buffer is    *)
(* <<>>.  A write outside it would make it longer than its capacity.       *)

Junk == -1              \* what nothing was written to

NullString  == [buffer |-> <<>>, size |-> SizeT - 1, capacity |-> SizeT - 1]
EmptyString == [buffer |-> <<>>, size |-> 0, capacity |-> 0]

CharAt(buffer, i)    == IF i <= Len(buffer) THEN buffer[i] ELSE Junk
Sized(buffer, n)     == [i \in 1 .. n |-> CharAt(buffer, i)]
MoveTo(buffer, at, s) ==
    [i \in 1 .. IF at + Len(s) > Len(buffer) THEN at + Len(s) ELSE Len(buffer) |->
        IF i > at /\ i <= at + Len(s) THEN s[i - at] ELSE CharAt(buffer, i)]

\* malloc, and realloc of a buffer of the string: the allocator may fail.
Allocated(s, cap) ==
    {NullString} \cup
    IF cap <= MaxAlloc THEN {[s EXCEPT !.buffer = Sized(@, cap), !.capacity = cap]} ELSE {}

StringMake(cap)   == Allocated(EmptyString, cap)
StringSlice(text) == Allocated([EmptyString EXCEPT !.buffer = text, !.size = Len(text)], Len(text))
StringCopy(s)     == Allocated([s EXCEPT !.buffer = SubSeq(@, 1, s.size)], s.capacity)

Grow(s) == Allocated(s, IF s.capacity = 0 THEN InitialCapacity
                                          ELSE (s.capacity * GrowthFactor) % SizeT)

\* What comes of s once it has room for n more characters.
RoomFor(s, n) == IF (s.size + n) % SizeT > s.capacity THEN Allocated(s, (s.size + n) % SizeT) ELSE {s}

\* MUTANT of RoomForOne: the string that is full is noticed one character late.
RoomForOneLate(s) == IF s.size > s.capacity THEN Grow(s) ELSE {s}

RoomForOne(s) == IF s.size = s.capacity THEN Grow(s) ELSE {s}

Opened(s, idx, text) ==
    [s EXCEPT !.buffer = MoveTo(MoveTo(@, idx + Len(text), SubSeq(@, idx + 1, s.size)), idx, text),
              !.size   = @ + Len(text)]

\* At the end, and past it, the string is given up.
StringInsert(s, idx, c) ==
    IF idx >= s.size THEN {NullString}
    ELSE {IF t = NullString THEN t ELSE Opened(t, idx, <<c>>) : t \in RoomForOne(s)}
StringInsertSlice(s, idx, text) ==
    IF idx >= s.size THEN {NullString}
    ELSE {IF t = NullString THEN t ELSE Opened(t, idx, text) : t \in RoomFor(s, Len(text))}

StringPush(s, c) ==
    {IF t = NullString THEN t ELSE [t EXCEPT !.buffer = MoveTo(@, s.size, <<c>>), !.size = @ + 1] :
        t \in RoomForOne(s)}
\* Of a string that is not the null string, whose size would wrap round.
StringPushSlice(s, text) ==
    {IF t = NullString THEN t
     ELSE [t EXCEPT !.buffer = MoveTo(@, s.size, text), !.size = @ + Len(text)] :
        t \in RoomFor(s, Len(text))}

\* Both return the character, and are for one that is there.
StringPop(s)         == [char |-> s.buffer[s.size], string |-> [s EXCEPT !.size = @ - 1]]
StringRemove(s, idx) ==
    [char   |-> s.buffer[idx + 1],
     string |-> [s EXCEPT !.buffer = MoveTo(@, idx, SubSeq(@, idx + 2, s.size)), !.size = @ - 1]]

\* string_move and string_free leave the empty string behind.
StringMove(s) == [to |-> s, from |-> EmptyString]
=============================================================================
