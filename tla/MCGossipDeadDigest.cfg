\* Gossip rounds without delay; digests leave out the nodes deemed dead.
CONSTANTS
    n1 = n1  n2 = n2  n3 = n3  k1 = k1  k2 = k2  k3 = k3
    Node <- MCNode
    Writers <- MCWriters
    Keys <- MCKeys
    GracePeriod = 2
    Mtu = 3
    NodeCost = 1
    KvCost = 1
    MaxVersion = 7
    MaxInFlight = 0
    MarkAbsentKeys = FALSE
    DeadInDigest = TRUE
    RemoveNodes = TRUE
SYMMETRY Symmetry
SPECIFICATION SpecSync
INVARIANT DigestIsTruthful
