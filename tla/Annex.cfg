\* The region holds one or two blocks; the fallback has room for two more.
CONSTANTS
    HeaderSize = 2
    MaxAlign = 4
    U32 = 1000
    Capacity = 10
    Sizes = {0, 1, 5}
    Tags = {101, 102}
    FarAddresses = {20, 30}
SPECIFICATION Spec
INVARIANTS EachHasItsOwner
PROPERTIES ImplementsHeap
