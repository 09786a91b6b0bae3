-------------------------------- MODULE BigNum --------------------------------
(***************************************************************************)
(* ty_bignum: numbers of a fixed number of words, lowest first.  The       *)
(* operations work on a memory of named numbers and are given the names of *)
(* their operands, which may be the same; "row" and "tmp" are mul's own.   *)
(***************************************************************************)
EXTENDS Integers, Sequences, FiniteSets

CONSTANTS Bits,         \* bits of a word
          Words,        \* TY_BIGNUM_ARRAY_SIZE
          Digits,       \* digits a word is written with (hexadecimal ones)
          ShrTurns      \* TY_BIGNUM_WORD_SIZE - 1, bound of the loop of shr

ASSUME BigNumAssumption == /\ Bits \in Nat \ {0}
                           /\ Words \in Nat \ {0, 1}
                           /\ Digits \in 1 .. Bits /\ Bits % Digits = 0
                           /\ ShrTurns \in 0 .. Words - 1

Base   == 2^Bits
Index  == 0 .. Words - 1
Number == [Index -> 0 .. Base - 1]

\* The integer a number stands for.
Value(v) == LET f[i \in 0 .. Words] == IF i = 0 THEN 0 ELSE f[i - 1] + v[i - 1] * Base^(i - 1)
            IN  f[Words]

Zero == [i \in Index |-> 0]

\* The word a wider value is cut to, and the bits of a word.
Cut(n)    == n % Base
Bit(n, k) == (n \div 2^k) % 2

\* ty_bignum_from_int: the two halves of the wider type.
FromInt(n) == [i \in Index |-> IF i = 0 THEN Cut(n) ELSE IF i = 1 THEN Cut(n \div Base) ELSE 0]

\* ty_bignum_to_int, up to its conversion to int.
ToInt(v) == v[0]

-----------------------------------------------------------------------------
(* Loops that carry from word to word.  Word i of the result is written    *)
(* before word i + 1 of the operands is read.                              *)


AddInto(m, x, y, z) ==
    LET after[i \in 0 .. Words] ==
            IF i = 0 THEN [mem |-> m, carry |-> 0]
            ELSE LET was == after[i - 1]
                     tmp == was.mem[x][i - 1] + was.mem[y][i - 1] + was.carry
                 IN  [mem   |-> [was.mem EXCEPT ![z][i - 1] = Cut(tmp)],
                      carry |-> IF tmp > Base - 1 THEN 1 ELSE 0]
    IN  after[Words].mem

SubInto(m, x, y, z) ==
    LET after[i \in 0 .. Words] ==
            IF i = 0 THEN [mem |-> m, borrow |-> 0]
            ELSE LET was == after[i - 1]
                     res == was.mem[x][i - 1] + Base - (was.mem[y][i - 1] + was.borrow)
                 IN  [mem    |-> [was.mem EXCEPT ![z][i - 1] = Cut(res)],
                      borrow |-> IF res <= Base - 1 THEN 1 ELSE 0]
    IN  after[Words].mem

\* ty_bignum_inc and ty_bignum_dec leave at the first word that does not wrap.
Inc(v) ==
    LET after[i \in 0 .. Words] ==
            IF i = 0 THEN [num |-> v, on |-> TRUE]
            ELSE LET was == after[i - 1]
                     res == Cut(was.num[i - 1] + 1)
                 IN  IF ~was.on THEN was
                     ELSE [num |-> [was.num EXCEPT ![i - 1] = res], on |-> res <= was.num[i - 1]]
    IN  after[Words].num

Dec(v) ==
    LET after[i \in 0 .. Words] ==
            IF i = 0 THEN [num |-> v, on |-> TRUE]
            ELSE LET was == after[i - 1]
                     res == Cut(was.num[i - 1] + Base - 1)
                 IN  IF ~was.on THEN was
                     ELSE [num |-> [was.num EXCEPT ![i - 1] = res], on |-> res > was.num[i - 1]]
    IN  after[Words].num

-----------------------------------------------------------------------------
(* Words on their own, and shifts.                                         *)

\* The operators & | ^ on bits, and on words.
OfBits(op, p, q) == CASE op = "and" -> p * q
                      [] op = "or"  -> p + q - p * q
                      [] op = "xor" -> (p + q) % 2

WordWise(op, u, v) ==
    CHOOSE w \in 0 .. Base - 1 :
        \A k \in 0 .. Bits - 1 : Bit(w, k) = OfBits(op, Bit(u, k), Bit(v, k))

\* ty_bignum_and, or, xor
BitsInto(m, op, x, y, z) ==
    [m EXCEPT ![z] = [i \in Index |-> WordWise(op, m[x][i], m[y][i])]]

IsZero(v) == \A i \in Index : v[i] = 0

\* ty_bignum_cmp, from the highest word down.
Cmp(a, b) ==
    LET differ == {i \in Index : a[i] # b[i]}
        i      == CHOOSE i \in differ : \A j \in differ : j <= i
    IN  IF differ = {} THEN 0 ELSE IF a[i] > b[i] THEN 1 ELSE -1

ShlWord(v, n) == [i \in Index |-> IF i >= n THEN v[i - n] ELSE 0]
ShrWord(v, n) == [i \in Index |-> IF i + n < Words THEN v[i + n] ELSE 0]

Shl(v, n) ==
    LET w == ShlWord(v, n \div Bits)
        k == n % Bits
    IN  [i \in Index |-> Cut(w[i] * 2^k) + IF i = 0 THEN 0 ELSE w[i - 1] \div 2^(Bits - k)]

\* The loop of shr takes the bytes of a word for the number of words.
Shr(v, n) ==
    LET w == ShrWord(v, n \div Bits)
        k == n % Bits
    IN  [i \in Index |->
            IF k = 0 \/ i > ShrTurns THEN w[i]
            ELSE (w[i] \div 2^k) + IF i = ShrTurns THEN 0 ELSE Cut(w[i + 1] * 2^(Bits - k))]

-----------------------------------------------------------------------------
(* Multiplication, by rows; the result is cleared before it is read.       *)

\* Row i after the columns 0 .. j - 1.
RowTo(m, x, y, i, j) ==
    LET after[k \in 0 .. j] ==
            IF k = 0 THEN [m EXCEPT !["row"] = Zero]
            ELSE LET was  == after[k - 1]
                     term == FromInt(was[x][i] * was[y][k - 1])
                 IN  AddInto([was EXCEPT !["tmp"] = ShlWord(term, i + k - 1)], "tmp", "row", "row")
    IN  after[j]

MulInto(m, x, y, z) ==
    LET after[i \in 0 .. Words] ==
            IF i = 0 THEN [m EXCEPT ![z] = Zero]
            ELSE AddInto(RowTo(after[i - 1], x, y, i - 1, Words - i + 1), z, "row", z)
    IN  after[Words]

\* ty_bignum_pow into a number of its own, whose loop counts b down to 0.
Pow(a, b) ==
    LET times(v) == MulInto([n \in {"a", "v", "c", "row", "tmp"} |-> IF n = "a" THEN a ELSE v],
                            "v", "a", "c")["c"]
        after[i \in 0 .. Value(b)] ==
            IF i = 0 THEN [left |-> Dec(b), power |-> a]
            ELSE LET was == after[i - 1]
                 IN  IF IsZero(was.left) THEN was
                     ELSE [left |-> Dec(was.left), power |-> times(was.power)]
    IN  IF Cmp(b, Zero) = 0 THEN Inc(Zero) ELSE after[Value(b)].power

-----------------------------------------------------------------------------
(* Strings, as sequences of digits from the highest to the lowest.         *)

DigitBase == 2^(Bits \div Digits)

\* sprintf of a word with all its digits; sscanf of as many.
WordDigits(w)  == [k \in 1 .. Digits |-> (w \div DigitBase^(Digits - k)) % DigitBase]
DigitsWord(ds) == LET f[k \in 0 .. Digits] == IF k = 0 THEN 0 ELSE f[k - 1] * DigitBase + ds[k]
                  IN  f[Digits]

\* ty_bignum_to_str: the string without leading zeros, and how many characters of
\* str are written to.  Words are written from the highest, each with a NUL behind
\* it, while there is room for a digit; then nbytes - j characters are moved to the
\* front, and a NUL is put behind those, whatever is there.
ToStr(v, nbytes) ==
    LET turns == Cardinality({k \in Index : nbytes > Digits * k + 1})
        all   == [k \in 1 .. turns * Digits |->
                     WordDigits(v[Words - 1 - (k - 1) \div Digits])[((k - 1) % Digits) + 1]]
        j     == CHOOSE j \in 0 .. Len(all) : /\ \A k \in 1 .. j : all[k] = 0
                                              /\ j < Len(all) => all[j + 1] # 0
        moved == IF nbytes > j THEN nbytes - j ELSE 0
    IN  [text    |-> SubSeq(all, j + 1, IF nbytes < Len(all) THEN nbytes ELSE Len(all)),
         written |-> 1 + IF moved > Len(all) THEN moved ELSE Len(all)]

\* ty_bignum_from_str, of a multiple of Digits digits, from the end.
FromStr(s) ==
    [i \in Index |-> LET end == Len(s) - i * Digits
                     IN  IF end <= 0 THEN 0 ELSE DigitsWord(SubSeq(s, end - Digits + 1, end))]
=============================================================================
