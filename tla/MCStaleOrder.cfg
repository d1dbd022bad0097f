CONSTANTS
    n1 = n1
    n2 = n2
    n3 = n3
    n4 = n4
    Node <- MCNode
    Lengths <- MCLengths
SPECIFICATION Spec
SYMMETRY Symmetry
INVARIANTS TypeOK HeapMatchesBuckets IterIsScuttleDepthOrder
CHECK_DEADLOCK FALSE
