\* Numbers of two words of two bits; the memory before the array is kind.
CONSTANTS
    Bits = 2
    Words = 2
    Digits = 2
    ShrTurns = 1
    Before = {0}
SPECIFICATION Spec
INVARIANTS Quotient
CHECK_DEADLOCK FALSE
