\* A vector that grows from 1 element to 4, in place, within its arena block or
\* into another.  The first block is of 4 bytes, which the sizes outgrow, or of
\* 8, which fits them all, so that the arena can be reset.
CONSTANTS
    HeaderSize = 2
    MaxAlign = 4
    U32 = 1000
    FirstBlockSizes = {4, 8}
    Sizes = {0, 3, 6}
    Tags = {99}
    Stride = 1000
    SizeT = 100000
    MaxBlocks = 2
    Careful = TRUE
    FirstCapacity = 1
    Element = 100
    MaxPushN = 2
    MaxElements = 4
SPECIFICATION VectorSpec
INVARIANTS BlocksInBounds RoomIsReal HoldsPushed
PROPERTIES ImplementsHeap
