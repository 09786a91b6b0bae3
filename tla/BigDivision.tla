----------------------------- MODULE BigDivision -----------------------------
(***************************************************************************)
(* ty_bignum_divmod, step by step.  Its shr_one takes the carry into each  *)
(* word from the word below, already shifted, instead of the one above;    *)
(* below the first word it reads memory before the array.                  *)
(***************************************************************************)
EXTENDS BigNum

CONSTANT Before         \* what the highest bit of that memory can be, of 0 and 1

VARIABLES mem,          \* a, b, the quotient c, the remainder d, and the locals
          phase         \* the loop it is in

vars == <<mem, phase>>

Names == {"a", "b", "c", "d", "current", "denom", "rest", "product", "row", "tmp"}

\* Division by zero does not end.
Init == \E a, b \in Number :
            /\ ~IsZero(b)
            /\ mem = [n \in Names |-> CASE n \in {"a", "rest"}  -> a
                                       [] n \in {"b", "denom"} -> b
                                       [] n = "current"        -> FromInt(1)
                                       [] OTHER                -> Zero]
            /\ phase = "grow"

ShlOne(v) == Shl(v, 1)

\* shr_one, if the bit below the array is "below".
ShrOne(v, below) ==
    LET top == 2^(Bits - 1)
        after[i \in Index] ==
            IF i = Words - 1 THEN v[i] \div 2
            ELSE (v[i] \div 2) + top * (IF i = 0 THEN below ELSE after[i - 1] % 2)
    IN  after

\* Both are shifted back, and the bit below each is what it happens to be.
ShrBoth(m) == {[m EXCEPT !["current"] = ShrOne(@, p), !["denom"] = ShrOne(@, q)] :
                  p \in Before, q \in Before}

Overflows == mem["denom"][Words - 1] >= Base \div 2

\* The denominator grows until it is more than a or would overflow.
Grow == /\ phase = "grow"
        /\ Cmp(mem["denom"], mem["a"]) # 1 /\ ~Overflows
        /\ mem' = [mem EXCEPT !["current"] = ShlOne(@), !["denom"] = ShlOne(@)]
        /\ UNCHANGED phase

Grown == /\ phase = "grow"
         /\ IF Cmp(mem["denom"], mem["a"]) = 1 THEN mem' \in ShrBoth(mem)
                                               ELSE Overflows /\ UNCHANGED mem
         /\ phase' = "shrink"

Shrink ==
    /\ phase = "shrink" /\ ~IsZero(mem["current"])
    /\ mem' \in ShrBoth(IF Cmp(mem["rest"], mem["denom"]) # -1
                        THEN BitsInto(SubInto(mem, "rest", "denom", "rest"), "or",
                                      "c", "current", "c")
                        ELSE mem)
    /\ UNCHANGED phase

\* ty_bignum_divmod and ty_bignum_mod: the remainder from the quotient.
Remainder == /\ phase = "shrink" /\ IsZero(mem["current"])
             /\ mem' = SubInto(MulInto(mem, "c", "b", "product"), "a", "product", "d")
             /\ phase' = "done"

Next == Grow \/ Grown \/ Shrink \/ Remainder

Spec == Init /\ [][Next]_vars

-----------------------------------------------------------------------------

\* What the header says of ty_bignum_divmod, "c = a / b; d = a % b".
Quotient == phase = "done" =>
                /\ Value(mem["c"]) = Value(mem["a"]) \div Value(mem["b"])
                /\ Value(mem["d"]) = Value(mem["a"]) % Value(mem["b"])
=============================================================================
