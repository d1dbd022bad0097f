\* Fair gossip rounds, grace period 1, and room for two entries per delta:
\* can a reset peer catch up when the owner's section does not fit?
CONSTANTS
    n1 = n1
    n2 = n2
    n3 = n3
    k1 = k1
    k2 = k2
    k3 = k3
    Node <- MCNode
    Writers <- MCWriters
    Keys <- MCKeys3
    GracePeriod = 1
    Mtu = 3
    NodeCost = 1
    KvCost = 1
    MaxVersion = 5
    MaxInFlight = 0
    MarkAbsentKeys = FALSE
    DeadInDigest = FALSE
    RemoveNodes = FALSE
SPECIFICATION FairSpecSync
PROPERTY Convergence
