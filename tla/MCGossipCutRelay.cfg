\* Gossip rounds without delay, but a delta has room for one entry after the
\* node header, so a relay can hold a copy cut below the owner's state.
CONSTANTS
    n1 = n1  n2 = n2  n3 = n3  k1 = k1  k2 = k2  k3 = k3
    Node <- MCNode
    Writers <- MCWriters
    Keys <- MCKeys3
    GracePeriod = 2
    Mtu = 2
    NodeCost = 1
    KvCost = 1
    MaxVersion = 5
    MaxInFlight = 0
    MarkAbsentKeys = FALSE
    DeadInDigest = FALSE
    RemoveNodes = FALSE
SPECIFICATION SpecSync
PROPERTY ImplementsReplicatedMap
