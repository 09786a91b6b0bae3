\* Three words of two bits, written in digits of one bit; texts of up to three
\* characters; up to three arguments of up to three letters.
CONSTANTS
    Bits = 2
    Words = 3
    Digits = 2
    ShrTurns = 1
    SizeT = 64
    InitialCapacity = 2
    GrowthFactor = 2
    MaxAlloc = 10
    Known <- KnownOptions
    WithValue <- ValueOptions
    FlySizeT = 64
    Characters = {0, 1, 2}
    TextLength = 3
    Letters = {"-", "a", "s"}
    Elements = {1, 3, 8}
SPECIFICATION Spec
CHECK_DEADLOCK FALSE
INVARIANTS   TextsAreKept ArgumentsMean RoomForPushed
