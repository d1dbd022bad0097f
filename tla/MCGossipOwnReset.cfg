\* Fair gossip between two nodes over a network that delays, duplicates and
\* loses messages: does every node still converge to the writer's state?
CONSTANTS
    n1 = n1  n2 = n2  n3 = n3  k1 = k1  k2 = k2  k3 = k3
    Node <- MCNode2
    Writers <- MCWriters
    Keys <- MCKeys3
    GracePeriod = 1
    Mtu = 3
    NodeCost = 1
    KvCost = 1
    MaxVersion = 3
    MaxInFlight = 2
    MarkAbsentKeys = FALSE
    DeadInDigest = FALSE
    RemoveNodes = FALSE
SPECIFICATION FairSpecAsync
PROPERTY Convergence
