------------------------------- MODULE Gossip -------------------------------
(***************************************************************************)
(* A cluster of chitchat nodes, each holding a ClusterState, reconciling   *)
(* by Scuttlebutt digest/delta exchanges.                                  *)
(*                                                                         *)
(*   cs[i]    the ClusterState of node i (node id -> NodeState)            *)
(*   hist[n]  every value node n wrote to its own NodeState, as            *)
(*            [key, version, deleted] (history variable, not in the code)  *)
(*   net      gossip messages in flight: digests ("syn") and deltas        *)
(*                                                                         *)
(* Local operations act on the node's own NodeState (`node_state_mut` of   *)
(* its own id).  The transport is outside the sources; it is modelled two  *)
(* ways: `Exchange` computes the peer's delta for the current digest and   *)
(* applies it in one step, and the message actions let digests and deltas *)
(* be delayed, reordered, duplicated (a delta stays deliverable after it   *)
(* is applied) and lost.  The failure detector is an arbitrary dead set    *)
(* per call, never containing the caller.                                  *)
(***************************************************************************)
EXTENDS Naturals, FiniteSets, Sequences, TLC

CONSTANTS Node,           \* node ids
          Writers,        \* the nodes whose clients write to their own state
          Keys,           \* keys
          GracePeriod,    \* marked_for_deletion_grace_period, in versions
          Mtu, NodeCost, KvCost,
          MaxVersion,     \* bound on every node's own max_version
          MaxInFlight,    \* bound on the messages in flight
          MarkAbsentKeys, \* whether callers mark keys they never set
          DeadInDigest,   \* whether digests leave out the nodes deemed dead
          RemoveNodes     \* whether nodes deemed dead long enough are removed

ASSUME Writers \subseteq Node
ASSUME GracePeriod \in Nat /\ MaxVersion \in Nat /\ MaxInFlight \in Nat
ASSUME MarkAbsentKeys \in BOOLEAN /\ DeadInDigest \in BOOLEAN /\ RemoveNodes \in BOOLEAN

VARIABLES cs, hist, net

vars == <<cs, hist, net>>

NS == INSTANCE NodeState
C  == INSTANCE ClusterState

Write(k, v, d) == [key |-> k, version |-> v, deleted |-> d]

IsDelta(d) ==
    /\ d.reset \subseteq Node
    /\ DOMAIN d.nodes \subseteq Node
    /\ \A n \in DOMAIN d.nodes : \A i \in DOMAIN d.nodes[n] :
          d.nodes[n][i] \in Keys \X [version : 1..MaxVersion, deleted : BOOLEAN]

TypeOK ==
    /\ DOMAIN cs = Node
    /\ \A i \in Node : DOMAIN cs[i] \subseteq Node /\
                       \A n \in DOMAIN cs[i] : NS!IsNodeState(cs[i][n], MaxVersion)
    /\ hist \in [Node -> SUBSET [key : Keys, version : 1..MaxVersion, deleted : BOOLEAN]]
    /\ \A m \in net : m.src \in Node /\ m.dst \in Node /\
         \/ m.kind = "syn" /\ DOMAIN m.digest \subseteq Node
                          /\ \A n \in DOMAIN m.digest : m.digest[n] \in 0..MaxVersion
         \/ m.kind = "delta" /\ IsDelta(m.delta)

Init ==
    /\ cs = [i \in Node |-> [n \in {} |-> NS!EmptyNodeState]]
    /\ hist = [i \in Node |-> {}]
    /\ net = {}

\* The own NodeState of node i, created on first use.
Own(i) == C!NodeStateMut(cs[i], i)[i]

-----------------------------------------------------------------------------
(* Local operations on a node's own state                                  *)

\* `node_state_mut(self).set(key, value)`.
LocalSet(i, k) ==
    /\ Own(i).max < MaxVersion
    /\ cs' = [cs EXCEPT ![i] = [C!NodeStateMut(@, i) EXCEPT ![i] = NS!Set(@, k)]]
    /\ hist' = [hist EXCEPT ![i] = @ \cup {Write(k, Own(i).max + 1, FALSE)}]
    /\ UNCHANGED net

\* `node_state_mut(self).mark_for_deletion(key)`; the write is recorded
\* only when an entry is materialised.
LocalMarkForDeletion(i, k) ==
    /\ Own(i).max < MaxVersion
    /\ MarkAbsentKeys \/ k \in DOMAIN Own(i).kv
    /\ cs' = [cs EXCEPT ![i] = [C!NodeStateMut(@, i) EXCEPT ![i] = NS!MarkForDeletion(@, k)]]
    /\ hist' = [hist EXCEPT ![i] = @ \cup IF k \in DOMAIN Own(i).kv
                                           THEN {Write(k, Own(i).max + 1, TRUE)} ELSE {}]
    /\ UNCHANGED net

\* ClusterState `gc_keys_marked_for_deletion` with the failure detector's
\* current dead set.
GarbageCollect(i, dead) ==
    /\ cs' = [cs EXCEPT ![i] = C!GcKeysMarkedForDeletion(@, GracePeriod, dead)]
    /\ UNCHANGED <<hist, net>>

\* `remove_node` of another node's state.
RemoveNode(i, n) ==
    /\ n \in DOMAIN cs[i] \ {i}
    /\ cs' = [cs EXCEPT ![i] = C!RemoveNode(@, n)]
    /\ UNCHANGED <<hist, net>>

-----------------------------------------------------------------------------
(* Gossip                                                                  *)

\* One exchange with no delay: i's digest, j's delta for it, i applies it.
Exchange(i, j, deadI, deadJ) ==
    LET digest == C!ComputeDigest(cs[i], deadI)
    IN  \E delta \in C!ComputeDelta(cs[j], digest, deadJ, GracePeriod) :
            /\ cs' = [cs EXCEPT ![i] = C!ApplyDelta(@, delta)]
            /\ UNCHANGED <<hist, net>>

\* i sends its digest to j.
SendDigest(i, j, dead) ==
    /\ Cardinality(net) < MaxInFlight
    /\ net' = net \cup {[kind |-> "syn", src |-> i, dst |-> j,
                         digest |-> C!ComputeDigest(cs[i], dead)]}
    /\ UNCHANGED <<cs, hist>>

\* j answers a digest with the delta it computes now.
ReplyDelta(j, m, dead) ==
    /\ m.kind = "syn" /\ m.dst = j
    /\ \E delta \in C!ComputeDelta(cs[j], m.digest, dead, GracePeriod) :
          net' = (net \ {m}) \cup {[kind |-> "delta", src |-> j, dst |-> m.src, delta |-> delta]}
    /\ UNCHANGED <<cs, hist>>

\* i applies a delta; the message stays deliverable (duplication).
ApplyDelta(i, m) ==
    /\ m.kind = "delta" /\ m.dst = i
    /\ cs' = [cs EXCEPT ![i] = C!ApplyDelta(@, m.delta)]
    /\ UNCHANGED <<hist, net>>

\* The transport loses a message.
Lose(m) ==
    /\ net' = net \ {m}
    /\ UNCHANGED <<cs, hist>>

-----------------------------------------------------------------------------

Dead(i) == SUBSET (Node \ {i})

\* The dead sets `compute_digest` is called with.
DigestDead(i) == IF DeadInDigest THEN Dead(i) ELSE {{}}

LocalNext ==
    \E i \in Node :
        \/ i \in Writers /\ \E k \in Keys : LocalSet(i, k) \/ LocalMarkForDeletion(i, k)
        \/ \E dead \in Dead(i) : GarbageCollect(i, dead)
        \/ RemoveNodes /\ \E n \in Node : RemoveNode(i, n)

\* Gossip rounds without delay.
NextSync ==
    \/ LocalNext
    \/ \E i, j \in Node : i # j /\ \E deadI \in DigestDead(i), deadJ \in Dead(j) :
          Exchange(i, j, deadI, deadJ)

\* Gossip over a network that delays, reorders, duplicates and loses.
NextAsync ==
    \/ LocalNext
    \/ \E i, j \in Node : i # j /\ \E dead \in DigestDead(i) : SendDigest(i, j, dead)
    \/ \E m \in net :
          \/ \E dead \in Dead(m.dst) : ReplyDelta(m.dst, m, dead)
          \/ ApplyDelta(m.dst, m)
          \/ Lose(m)

SpecSync  == Init /\ [][NextSync]_vars
SpecAsync == Init /\ [][NextAsync]_vars

\* Every node's gossip timer starts a round with random peers each
\* interval, so every pair keeps exchanging; the failure detector
\* eventually deems nobody dead in a healthy cluster.  Losses, GC and
\* writes get no fairness; the runs of this specification have no
\* `remove_node`, which only follows a failure.
Fairness == \A i, j \in Node : i # j => WF_vars(Exchange(i, j, {}, {}))

FairSpecSync == SpecSync /\ Fairness

\* Over the lossy network the same timer keeps sending digests, so a send
\* that the bound on messages in flight keeps disabling and re-enabling
\* still happens; an answer or a delta that keeps arriving is eventually
\* processed (a loss is never fair); and no datagram, delivered copies
\* included, stays in the network forever.
FairnessAsync ==
    /\ \A i, j \in Node : i # j =>
          /\ SF_vars(SendDigest(i, j, {}))
          /\ SF_vars(\E m \in net : m.src = i /\ ReplyDelta(j, m, {}))
          /\ SF_vars(\E m \in net : m.src = j /\ ApplyDelta(i, m))
    /\ WF_vars(\E m \in net : m.kind = "delta" /\ Lose(m))

FairSpecAsync == SpecAsync /\ FairnessAsync

-----------------------------------------------------------------------------
(* Properties                                                              *)

\* The last value node n wrote for key k (a set of at most one write).
LastWrite(n, k) ==
    {w \in hist[n] : w.key = k /\ \A w2 \in hist[n] : w2.key = k => w2.version <= w.version}

\* Invariant 4 of the spec and the meaning of a digest ("I have everything
\* up to max_version"): whenever node i's copy of node n has max_version at
\* least the version of n's last write to a key, i holds exactly that write,
\* or holds nothing for the key and the write was a deletion.  A failure is
\* permanent divergence: a key deleted at its owner that a peer keeps or
\* gets back alive, or a write a peer never holds, while every later digest
\* of the peer claims it, so no delta ever carries it again.
DigestIsTruthful ==
    \A i \in Node : \A n \in DOMAIN cs[i] : \A k \in Keys : \A w \in LastWrite(n, k) :
        w.version <= cs[i][n].max =>
            IF k \in DOMAIN cs[i][n].kv THEN cs[i][n].kv[k].version = w.version
            ELSE w.deleted

\* Versions of a node are assigned once: `set` and `mark_for_deletion`
\* take max_version + 1 of the node's own state, which gossip must never
\* lower, or a later write reuses a version its peers already hold.
VersionsAssignedOnce ==
    \A n \in Node : \A w1, w2 \in hist[n] : w1.version = w2.version => w1 = w2

\* The step applies a delta that resets node n at node i.
ResetsNode(i, n) ==
    \E m \in net : /\ m.kind = "delta" /\ m.dst = i /\ n \in m.delta.reset
                  /\ cs' = [cs EXCEPT ![i] = C!ApplyDelta(@, m.delta)]

\* Invariant 2 of the spec: a stored value is only replaced by one with a
\* greater version, whatever order deltas arrive in, except when a delta
\* resets the node.  Its failure is an older value, delayed or duplicated
\* in the network, overwriting a newer one in `apply_delta`.
StoredVersionsIncrease ==
    [][\A i \in Node : \A n \in DOMAIN cs[i] \cap DOMAIN cs'[i] :
         \A k \in DOMAIN cs[i][n].kv \cap DOMAIN cs'[i][n].kv :
            cs'[i][n].kv[k].version >= cs[i][n].kv[k].version \/ ResetsNode(i, n)]_vars

\* `compute_delta` asserts (`assert!(!stale_kvs.is_empty())`) that every
\* node its first pass found stale still has stale key-values under the
\* floor its second pass recomputes, with the reset condition written
\* again without the `floor_version > 0` test.  Checked for every digest a
\* node can send and every node that can answer it; a failure is a panic
\* of the answering node in the middle of a gossip round.
DeltaAssertionHolds ==
    \A i, j \in Node : i # j =>
        \A dead \in DigestDead(i) :
            LET digest == C!ComputeDigest(cs[i], dead)
            IN  \A n \in C!StaleNodes(cs[j], digest, {}, GracePeriod) :
                    C!SortedStaleKeyValues(cs[j][n], C!WriteFloor(cs[j], digest, GracePeriod, n)) # <<>>

\* The owners' maps as replicated state (ReplicatedMap): every node's
\* ClusterState is its set of copies, and hist the owners' writes.
RM == INSTANCE ReplicatedMap WITH copy <- cs

\* Gossip implements the replicated map: each step is an owner's write
\* that changes its own NodeState alone, or one node's copies changing to
\* copies that are each the owner's map as of their max_version, the
\* owner's own copy staying complete.  A failure is a copy claiming a
\* version the owner never reached, holding a value or a tombstone the
\* owner never wrote at that version, keeping a key its owner deleted, or
\* missing a write its max_version covers, after any sequence of resets,
\* MTU-cut deltas, GCs with stale dead sets and removals.
ImplementsReplicatedMap == RM!Spec

\* Section 5 of the spec: applying two deltas in either order gives the same
\* state, for the deltas in flight to the same node.
DeltaApplicationCommutes ==
    \A m1, m2 \in net :
        m1.kind = "delta" /\ m2.kind = "delta" /\ m1.dst = m2.dst =>
            LET s == cs[m1.dst]
            IN  C!ApplyDelta(C!ApplyDelta(s, m1.delta), m2.delta)
                  = C!ApplyDelta(C!ApplyDelta(s, m2.delta), m1.delta)

\* The live key-values of node n as node i holds them (`iter_key_values`
\* with a predicate accepting every key).
LiveView(i, n) == NS!IterKeyValues(cs[i][n], Keys)

\* Node i reads the owner n's current live key-values.
Synced(i, n) ==
    n \in DOMAIN cs[n] => n \in DOMAIN cs[i] /\ LiveView(i, n) = LiveView(n, n)

\* Scuttlebutt's promise: with every pair of nodes gossiping, and writes
\* and failures coming to an end, every node eventually holds and keeps
\* every writer's current state.  A failure is a peer that no round of
\* `compute_delta`/`apply_delta` ever brings up to date, such as one reset
\* in every round because the reset delta is cut by the MTU.
Convergence == \A i \in Node : \A n \in Writers : <>[]Synced(i, n)

=============================================================================
