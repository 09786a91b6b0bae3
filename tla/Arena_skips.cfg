\* A careless client: it resets, and then asks for more than the second block
\* can hold.
CONSTANTS
    HeaderSize = 2
    MaxAlign = 4
    U32 = 1000
    FirstBlockSizes = {4}
    Sizes = {1, 3, 6}
    Tags = {101}
    Stride = 1000
    SizeT = 100000
    MaxBlocks = 3
    Careful = FALSE
SPECIFICATION Spec
INVARIANTS BlocksInBounds
