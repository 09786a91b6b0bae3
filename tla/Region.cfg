\* A 2-byte header and an alignment of 4 stand for 8 and 16: sizes
\* of 1, 2 and 5 leave remainders 3, 0 and 3, and 11 bytes hold up to three blocks.
\* bytes_left, a uint32_t, wraps round at 5, as it does in 4 GB.
CONSTANTS
    HeaderSize = 2
    MaxAlign = 4
    U32 = 5
    Capacity = 11
    Sizes = {0, 1, 2, 5}
    Tags = {101, 102}
SPECIFICATION Spec
INVARIANTS TypeOK BlocksDisjoint HeadersAligned ContentsKept
PROPERTIES ImplementsHeap
