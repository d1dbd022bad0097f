---------------------------- MODULE ClusterState ----------------------------
(***************************************************************************)
(* `ClusterState` of state.rs: a map from node id to NodeState, and the    *)
(* reconciliation algorithms on it (digest, scuttle-depth delta, delta     *)
(* application, garbage collection).  The operators are pure; the gossip   *)
(* modules apply them to each node's cluster state.                        *)
(*                                                                         *)
(* A Digest is a function from node id to max_version.  A Delta is a       *)
(* record [reset |-> nodes_to_reset, nodes |-> node_deltas], where a node  *)
(* delta is a sequence of <<key, VersionedValue>> in the order written.    *)
(*                                                                         *)
(* The DeltaWriter (delta.rs, not part of the sources) is modelled from    *)
(* the specification: a byte budget `Mtu`, a node section costing          *)
(* `NodeCost` and a key-value costing `KvCost`, the first refused          *)
(* addition ending the delta.  Sizes are abstracted to these two costs.    *)
(***************************************************************************)
EXTENDS Naturals, FiniteSets, Sequences, SequencesExt, Functions, TLC

CONSTANTS Keys, Mtu, NodeCost, KvCost

ASSUME Mtu \in Nat /\ NodeCost \in Nat \ {0} /\ KvCost \in Nat \ {0}

NS == INSTANCE NodeState

Larger(a, b) == IF a >= b THEN a ELSE b

\* `node_state_mut`: the node's state, created empty on first mention.
NodeStateMut(cs, n) == IF n \in DOMAIN cs THEN cs ELSE (n :> NS!EmptyNodeState) @@ cs

\* `remove_node`.
RemoveNode(cs, n) == Restrict(cs, DOMAIN cs \ {n})

\* `compute_digest`: max_version of every node not deemed dead.
ComputeDigest(cs, dead_nodes) == [n \in DOMAIN cs \ dead_nodes |-> cs[n].max]

\* `gc_keys_marked_for_deletion` of ClusterState: every live node's GC.
GcKeysMarkedForDeletion(cs, grace_period, dead_nodes) ==
    [n \in DOMAIN cs |-> IF n \in dead_nodes THEN cs[n]
                         ELSE NS!GcKeysMarkedForDeletion(cs[n], grace_period)]

-----------------------------------------------------------------------------
(* apply_delta                                                             *)

\* Faulty variant of the key-value loop: stores without comparing versions.
ApplyKeyValueUnchecked(ns, kv) ==
    [kv  |-> (kv[1] :> kv[2]) @@ ns.kv,
     max |-> Larger(ns.max, kv[2].version)]

\* One iteration of the key-value loop: max_version follows every incoming
\* version, and the value is stored unless the stored one is as recent.
ApplyKeyValue(ns, kv) ==
    LET key == kv[1]
        vv  == kv[2]
    IN  [kv  |-> IF key \in DOMAIN ns.kv /\ ns.kv[key].version >= vv.version
                 THEN ns.kv
                 ELSE (key :> vv) @@ ns.kv,
         max |-> Larger(ns.max, vv.version)]

\* Faulty variant of `apply_delta`: the nodes to reset are kept.
ApplyDeltaKeepingReset(cs, delta) ==
    LET base(n) == IF n \in DOMAIN cs THEN cs[n] ELSE NS!EmptyNodeState
    IN  [n \in DOMAIN cs \cup DOMAIN delta.nodes |->
            IF n \in DOMAIN delta.nodes
            THEN FoldLeft(ApplyKeyValue, base(n), delta.nodes[n])
            ELSE cs[n]]

\* The nodes to reset are removed, then every node delta is applied to the
\* node's state, created if missing.
ApplyDelta(cs, delta) ==
    LET kept == Restrict(cs, DOMAIN cs \ delta.reset)
        base(n) == IF n \in DOMAIN kept THEN kept[n] ELSE NS!EmptyNodeState
    IN  [n \in DOMAIN kept \cup DOMAIN delta.nodes |->
            IF n \in DOMAIN delta.nodes
            THEN FoldLeft(ApplyKeyValue, base(n), delta.nodes[n])
            ELSE kept[n]]

-----------------------------------------------------------------------------
(* compute_delta                                                           *)

FloorOf(digest, n) == IF n \in DOMAIN digest THEN digest[n] ELSE 0

\* First pass: the peer is reset when its floor is non-zero and more than a
\* grace period behind our max_version.
NeedsReset(cs, digest, grace_period, n) ==
    LET floor_version == FloorOf(digest, n)
    IN  floor_version > 0 /\ floor_version + grace_period < cs[n].max

\* Faulty variant of the first pass: stale key-values counted from 0.
StaleFloorFromZero(cs, digest, grace_period, n) == 0

StaleFloor(cs, digest, grace_period, n) ==
    IF NeedsReset(cs, digest, grace_period, n) THEN 0 ELSE FloorOf(digest, n)

StaleLength(cs, digest, grace_period, n) ==
    Cardinality(NS!StaleKeys(cs[n], StaleFloor(cs, digest, grace_period, n)))

NodesToReset(cs, digest, dead_nodes, grace_period) ==
    {n \in DOMAIN cs \ dead_nodes : NeedsReset(cs, digest, grace_period, n)}

StaleNodes(cs, digest, dead_nodes, grace_period) ==
    {n \in DOMAIN cs \ dead_nodes : StaleLength(cs, digest, grace_period, n) > 0}

\* `NodeSortedByStaleLength`: the nodes by decreasing stale length, the
\* nodes of one length shuffled; every such order is a possible outcome.
ScuttleDepthOrders(nodes, stale_length) ==
    {order \in SetToSeqs(nodes) :
        \A i \in 1..Len(order) - 1 : stale_length[order[i]] >= stale_length[order[i + 1]]}

\* Faulty variant of the second pass: the digest's floor, reset or not.
WriteFloorFromDigest(cs, digest, grace_period, n) == FloorOf(digest, n)

\* Second pass: the floor is recomputed with the reset condition.
WriteFloor(cs, digest, grace_period, n) ==
    IF cs[n].max > FloorOf(digest, n) + grace_period THEN 0 ELSE FloorOf(digest, n)

\* Faulty variant of the sort: decreasing version order.
SortedStaleKeyValuesDescending(ns, floor_version) ==
    LET byVersion(a, b) == ns.kv[a].version > ns.kv[b].version
        keys == SetToSortSeq(NS!StaleKeys(ns, floor_version), byVersion)
    IN  [i \in 1..Len(keys) |-> <<keys[i], ns.kv[keys[i]]>>]

\* The stale key-values of a node in increasing version order.
SortedStaleKeyValues(ns, floor_version) ==
    LET byVersion(a, b) == ns.kv[a].version < ns.kv[b].version
        keys == SetToSortSeq(NS!StaleKeys(ns, floor_version), byVersion)
    IN  [i \in 1..Len(keys) |-> <<keys[i], ns.kv[keys[i]]>>]

\* The write loop over the ordered nodes, writer = [delta, used bytes].
\* A refused node section ends the loop; a refused key-value ends the
\* whole delta, the node section holding the key-values that fitted.
RECURSIVE WriteNodes(_, _, _, _, _)
WriteNodes(cs, digest, grace_period, writer, order) ==
    IF order = <<>> \/ writer.used + NodeCost > Mtu THEN writer
    ELSE
      LET n     == Head(order)
          kvs   == SortedStaleKeyValues(cs[n], WriteFloor(cs, digest, grace_period, n))
          room  == (Mtu - writer.used - NodeCost) \div KvCost
          fit   == IF Len(kvs) <= room THEN Len(kvs) ELSE room
          next  == [delta |-> [writer.delta EXCEPT !.nodes = (n :> SubSeq(kvs, 1, fit)) @@ @],
                    used  |-> writer.used + NodeCost + fit * KvCost]
      IN  IF fit < Len(kvs) THEN next
          ELSE WriteNodes(cs, digest, grace_period, next, Tail(order))

EmptyNodeDeltas == [n \in {} |-> <<>>]

\* `compute_delta` for one outcome of the shuffle.
ComputeDeltaInOrder(cs, digest, dead_nodes, grace_period, order) ==
    LET writer == [delta |-> [reset |-> NodesToReset(cs, digest, dead_nodes, grace_period),
                              nodes |-> EmptyNodeDeltas],
                   used  |-> 0]
    IN  WriteNodes(cs, digest, grace_period, writer, order).delta

\* Every delta `compute_delta` can return.
ComputeDelta(cs, digest, dead_nodes, grace_period) ==
    LET stale  == StaleNodes(cs, digest, dead_nodes, grace_period)
        length == [n \in stale |-> StaleLength(cs, digest, grace_period, n)]
    IN  {ComputeDeltaInOrder(cs, digest, dead_nodes, grace_period, order) :
            order \in ScuttleDepthOrders(stale, length)}

=============================================================================
