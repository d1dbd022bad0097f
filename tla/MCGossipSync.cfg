\* Fair gossip rounds without delay between three nodes, callers only
\* deleting keys they set, digests covering every known node.  A node's
\* whole section fits in one delta (a node and three entries), so no relay
\* holds a cut copy; tombstones are collected (grace period 1) and stale
\* peers are reset.
CONSTANTS
    n1 = n1  n2 = n2  n3 = n3  k1 = k1  k2 = k2  k3 = k3
    Node <- MCNode
    Writers <- MCWriters
    Keys <- MCKeys3
    GracePeriod = 1
    Mtu = 4
    NodeCost = 1
    KvCost = 1
    MaxVersion = 4
    MaxInFlight = 0
    MarkAbsentKeys = FALSE
    DeadInDigest = FALSE
    RemoveNodes = FALSE
SPECIFICATION FairSpecSync
INVARIANTS TypeOK VersionsAssignedOnce DeltaAssertionHolds
PROPERTIES Convergence ImplementsReplicatedMap
