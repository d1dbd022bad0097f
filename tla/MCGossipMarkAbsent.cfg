\* Gossip rounds without delay; callers may mark keys they never set.
CONSTANTS
    n1 = n1  n2 = n2  n3 = n3  k1 = k1  k2 = k2  k3 = k3
    Node <- MCNode
    Writers <- MCWriters
    Keys <- MCKeys3
    GracePeriod = 2
    Mtu = 3
    NodeCost = 1
    KvCost = 1
    MaxVersion = 6
    MaxInFlight = 0
    MarkAbsentKeys = TRUE
    DeadInDigest = FALSE
    RemoveNodes = TRUE
SYMMETRY Symmetry3
SPECIFICATION SpecSync
INVARIANT DigestIsTruthful
