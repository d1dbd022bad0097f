\* Two deltas in flight to the same node, one of them resetting.
CONSTANTS
    n1 = n1  n2 = n2  n3 = n3  k1 = k1  k2 = k2  k3 = k3
    Node <- MCNode
    Writers <- MCWriters
    Keys <- MCKeys
    GracePeriod = 2
    Mtu = 3
    NodeCost = 1
    KvCost = 1
    MaxVersion = 5
    MaxInFlight = 2
    MarkAbsentKeys = FALSE
    DeadInDigest = FALSE
    RemoveNodes = TRUE
SYMMETRY Symmetry
SPECIFICATION SpecAsync
INVARIANT DeltaApplicationCommutes
