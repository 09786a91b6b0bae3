\* Lists of up to three nodes, two of which can hold the same.
CONSTANTS
    Nodes = {n1, n2, n3}
    Data = {d1, d2}
    NULL = NULL
SPECIFICATION CarefulSpec
SYMMETRY NodesSymmetry
INVARIANTS ReadsAsSequence
PROPERTIES ImplementsDeque
