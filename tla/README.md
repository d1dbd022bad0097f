# TLA+ models of chitchat's reconciliation core

This directory has TLA+ models of `src/chitchat/src/state.rs`. That file holds the
in-memory cluster state of the chitchat gossip library, plus the Scuttlebutt digest/delta
reconciliation that keeps each node's key-value map replicated on every other node.
The models are checked with TLC.

## 1. The system (inventory)

| Component | Where | State | Operations (state-changing) |
|---|---|---|---|
| VersionedValue | crate root (not in sources) | value, version, `marked_for_deletion` | none (immutable record) |
| NodeState | state.rs 15-116 | `key_values: key -> VersionedValue`, `max_version`, `last_heartbeat` | `set`, `set_with_version`, `mark_for_deletion`, `gc_keys_marked_for_deletion`; reads: `get`, `iter_key_values` |
| ClusterState | state.rs 118-282 | `node_states: NodeId -> NodeState`, `seed_addrs` (watch channel) | `node_state_mut`, `remove_node`, `apply_delta`, `gc_keys_marked_for_deletion`; pure: `compute_digest`, `compute_delta` |
| NodeSortedByStaleLength | state.rs 303-328 | heap of stale lengths, a bucket of nodes per length | `insert`, `into_iter` (descending length, each bucket shuffled); `random_generator` |
| DeltaWriter, Delta, Digest | delta.rs, digest.rs (not in sources) | the delta being built and its byte count | `add_node`, `add_kv`, `add_node_to_reset` |
| Unit tests | state.rs 342-807 | fixtures | 16 tests of the operations above |
| Transport, failure detector, timers | lib.rs etc. (not in sources) | sockets, phi-accrual, timers | send/receive Syn, SynAck, Ack; the dead set |

**How the parts interact.** Each node keeps one ClusterState. It holds a NodeState for
every node it knows, its own included. Local clients write only to the node's own
NodeState (`node_state_mut(self).set(..)`). In a gossip round, node A sends its digest
(node -> max_version, leaving out the nodes A deems dead) to a peer B. B runs
`compute_delta` against its own ClusterState:

- B flags for reset every node where A is more than a grace period behind.
- B orders the nodes by decreasing number of stale entries (scuttle-depth), shuffling
  ties.
- B writes each node's stale entries in ascending version order until the MTU budget
  refuses an addition.

A then runs `apply_delta`: it drops the nodes flagged for reset, raises `max_version` to
every incoming version, and stores each entry unless its stored version is as recent.
GC removes each tombstone once it is more than a grace period older than the node's
`max_version`. The core is single-threaded, but the transport is UDP. Digests and deltas
can therefore be delayed, reordered, duplicated or lost, and the dead set changes between
calls.

**What is hard.**
- The grace-period reset must reset every peer that may have missed a tombstone GC has
  already collected.
- A delta cut by the MTU must leave a truthful floor.
- A delta is computed for one digest but may be applied to a later state.
- Dead nodes are left out of digests but kept in the state.
- `nodes_to_reset` can name the receiver itself.
- Resets make delta application depend on the order deltas arrive in.

**What makes it correct.**
- For each NodeState: every write gets `max_version + 1`, and versions are never reused.
- Stored values are only replaced by newer ones.
- Digests are truthful: a node whose copy has `max_version = v` holds, for every key, the
  owner's latest write at or below `v`. A deletion may instead be represented by the
  absence of the key.
- Deleted keys never come back.
- Replicas eventually converge (liveness).

## 2. Modules

- **NodeState.tla**: NodeState as a record `[kv, max]` with pure operators: `Set`,
  `SetWithVersion`, `MarkForDeletion`, `GcKeysMarkedForDeletion`, `Get`,
  `InternalIterKeyValues`, `IterKeyValues` and `StaleKeys`. An iterator's predicate is
  given by the set of keys it accepts.
  Each keeps the source's name.
  - The value string is dropped. Each version of a node is assigned by exactly one write,
    so `(node, version)` identifies the value.
  - `last_heartbeat` is dropped. Only the failure detector reads it, and the models
    choose the dead sets freely.
- **ClusterState.tla**: the ClusterState operators:
  - `NodeStateMut`, `RemoveNode`, `ComputeDigest`, `GcKeysMarkedForDeletion`.
  - `ApplyDelta`: a fold of `ApplyKeyValue` over each node delta, after the reset nodes
    are dropped.
  - `ComputeDelta`: the set of every delta the code can return, one per order that
    `NodeSortedByStaleLength` can produce (`ScuttleDepthOrders`). The first pass
    (`NeedsReset`, `StaleFloor`, `StaleLength`) and the second pass (`WriteFloor`,
    `SortedStaleKeyValues`, `WriteNodes`) are kept separate, as in the code.

  DeltaWriter is modelled from the spec as a budget `Mtu`, with `NodeCost` per node
  section and `KvCost` per key-value. The first addition it refuses ends the delta.
  `add_node_to_reset` costs nothing, as the spec states.
- **Gossip.tla**: the cluster. Its variables:
  - `cs[i]`: node i's ClusterState.
  - `hist[n]`: a history variable with every write node n made to its own state.
  - `net`: messages in flight.

  Actions:
  - Local: `LocalSet` and `LocalMarkForDeletion` (only nodes in `Writers`, on their own
    state), `GarbageCollect(i, dead)` and `RemoveNode(i, n)`.
  - `Exchange(i, j, deadI, deadJ)`: a whole round with no delay.
  - Message actions: `SendDigest`, `ReplyDelta` (computes the delta when the digest
    arrives), `ApplyDelta` (the delta stays in `net`, so it can be delivered again) and
    `Lose`.

  `Fairness` and `FairSpecSync` add weak fairness of exchanges (section 4). Three
  constants bound the environment:
  - `MarkAbsentKeys`: whether clients mark keys they never set.
  - `DeadInDigest`: whether `compute_digest` receives the failure detector's dead set.
  - `RemoveNodes`: whether `remove_node` is enabled.
- **MCGossip.tla**: model values `n1..n3` and `k1..k3`. `n1` is the only writer and `n2`,
  `n3` replicate and relay its state. The symmetry sets are `{n2, n3}` and the keys. This
  is sound because node ids and keys are compared only for equality, and the shuffle
  already allows every order of ties. The liveness runs use no symmetry.
- **ReplicatedMap.tla**: the abstract specification of what reconciliation promises, with
  no digests, deltas, MTU or grace period. `hist[n]` holds owner n's writes and `copy[i]`
  holds node i's copies. A copy with `max_version` v must be the owner's map as of v:
  - it holds only writes the owner made, none above v;
  - for every key whose last write is at or below v, it holds exactly that write, or
    nothing if the write was a deletion.

  A step is either an owner's write, which changes only its own, complete copy, or one
  node replacing its own copies by consistent ones. Gossip implements it with `copy` mapped
  to `cs` (`ImplementsReplicatedMap`). `DigestIsTruthful` is the third condition alone; the
  violation runs check it to get short traces.
- **StaleOrder.tla**: `NodeSortedByStaleLength` step by step. Its variables are the
  bucket map `node_per_stale_length`, the heap `stale_lengths` (a bag), the nodes
  `compute_delta` has still to insert (`pending`), the shuffled bucket being drained
  (`current`) and the nodes yielded (`out`). Actions: `InsertNext` (one `insert`),
  `NextBucket` (the `from_fn` pop, the bucket's `remove(..).unwrap()` and the shuffle, as
  any permutation) and `YieldNode` (one `next`). **MCStaleOrder.tla** takes four nodes,
  stale lengths 1-3 and every insertion order.
- **StateTests.tla**: the unit tests of state.rs over the model. The fixtures are built
  with the modelled operations. The `compute_delta` tests run the helper
  `test_with_varying_max_transmitted_kv_helper` as a loop over `mtu`, with byte costs of
  2-4 per node section and per entry. The other tests are constant checks, one per value
  of `unit`.

## 3. Runs

The Gossip runs use `NodeCost = KvCost = 1`. A `Mtu` of m fits one node section with
m-1 entries. The sync run uses 4, so the owner's whole section (three keys) always fits.
Most violation runs use 3, and cut_relay uses 2, so there deltas are cut inside the
owner's section.

| Run | cfg | Expect | What it shows |
|---|---|---|---|
| sync | MCGossipSync | pass | Under `FairSpecSync` with every node section fitting in one delta: `TypeOK`, `VersionsAssignedOnce`, `DeltaAssertionHolds`, `Convergence` (every node eventually reads the writer's live key-values and keeps them) and `ImplementsReplicatedMap`. Bounds: 3 nodes, 3 keys, `GracePeriod` 1, `MaxVersion` 4, 8.4k states, about a minute. A tombstone can be collected (at version 2 once max is 4) and a stale peer reset; both were checked reachable. It shows GC and resets are safe and live when no copy is cut. The cut_relay and reset_loop runs show that neither holds once a section is cut. |
| async | MCGossipAsync | pass | `StoredVersionsIncrease`: over a lossy, reordering, duplicating network, no stored value is replaced by an older one except through a reset. Bounds: `MaxVersion` 3, `GracePeriod` 1 (resets happen), 2 messages in flight. |
| stale_order | MCStaleOrder | pass | `TypeOK`, `HeapMatchesBuckets` and `IterIsScuttleDepthOrder`, for every insertion order of four nodes with stale lengths 1-3. |
| state_tests | MCStateTests | pass | `DeltaIsExpectedPrefix` and `UnitTestsHold`: the model meets every assertion of the unit tests. |
| mark_absent | MCGossipMarkAbsent | violation | `DigestIsTruthful` fails when clients mark absent keys (3 keys, `MaxVersion` 6). |
| dead_in_digest | MCGossipDeadDigest | violation | `DigestIsTruthful` fails when digests leave out dead nodes. |
| delayed_delta | MCGossipDelayed | violation | `DigestIsTruthful` fails when a delta is applied after the receiver's state changed. |
| own_reset | MCGossipOwnReset | violation | `Convergence` fails under `FairSpecAsync` (two nodes, 3 keys, `GracePeriod` 1, `MaxVersion` 3, two datagrams in flight, 43k states, 25 s): a stale reset of the receiver's own node makes it reuse a version, and the nodes diverge forever. `VersionsAssignedOnce` is the safety half of the same bug; the sync run checks that it holds when rounds are atomic. |
| commute | MCGossipCommute | violation | Section 5's "delta application is order-insensitive" fails with resets. |
| cut_relay | MCGossipCutRelay | violation | `ImplementsReplicatedMap` fails under atomic rounds, digests covering every node and deletions only of set keys, once a delta has room for one entry (3 keys, `GracePeriod` 2, `MaxVersion` 5, 60k states, under a minute): a peer not reset by a relay's cut copy keeps a collected key live. |
| reset_loop | MCGossipResetLoop | violation | `Convergence` fails with 3 keys: a peer is reset in every round. |
| missing_node_test | MCStateTestsMissingNode | violation | The full delta of `test_cluster_state_compute_delta_missing_node` is not the one the test lists. |

### Findings

The traces behind these findings are summarised here; `PROJECT.json` has them in full.

1. **Permanent resurrection through `mark_for_deletion` of an absent key.**
   - The owner's `max_version` rises with no entry behind it, while replicas follow only
     entry versions. Trace: the owner writes k1@1 and deletes it (@2), then writes k2@3.
     It marks two absent keys (max 5) and collects the k1 tombstone.
   - n3 gets the full state `{k2@3}` (max 3). n2, still at floor 1 with k1@1, pulls from
     n3 and is not reset (1+2 is not below 3). It ends with k1 alive and max 3.
   - The owner does not reset n2 either (3+2 is not below 5), so k1 stays alive until the
     owner writes again (3+2 below 6 would reset n2). The spec calls this bump harmless.
2. **Resurrection through digests that leave out dead nodes.** A node missing from the
   digest gets floor 0, which means "new node, no reset". The full state is merged into
   the stale copy, and the stale keys stay.
3. **Stale deltas.** A delta answering an older digest (here after a `remove_node`) raises
   `max_version` past versions the receiver never got.
4. **Own-state reset (state.rs:167), and permanent divergence.** `apply_delta` resets
   every node in `nodes_to_reset`, the receiver's own node included. Trace: n1 writes
   k2@1, k1@2, k3@3. A digest n1 sent at max 1 is delayed while n2 learns all three. n2
   answers the old digest with reset {n1} and the MTU-cut prefix {k2@1, k1@2}. n1 replaces
   its own state with that prefix (max 2, k3@3 lost), then deletes k1 at version 3, which
   n2 already holds for k3. After that both digests say 3 and every delta is empty, so the
   two nodes disagree forever although every round is fair.
5. **Order-sensitive delta application.** Section 5 of the spec says applying two deltas
   in either order gives the same state; with a reset it does not.
6. **Perpetual reset (state.rs:176, 242).** A reset delta is cut by the MTU after the
   lowest versions, and the peer's `max_version` becomes the highest version it received.
   When that is still more than a grace period below the owner's, the next digest
   triggers the same reset and the same cut. Trace: the owner holds k1@1, k3@2, k2@4
   (`GracePeriod` 1, room for two entries); both peers stay at `{k1@1, k3@2}` forever
   although every pair keeps gossiping, and k2 never reaches them.
7. **A unit test whose last expectation is never compared (state.rs:635, 738).**
   `test_cluster_state_compute_delta_missing_node` expects key_d at version 4, live, but
   the fixture deleted key_d at version 5, so the code sends a tombstone at 5. The helper's
   loop `for mtu in 2..buf.len()` stops one byte short of the full delta, so the last
   expected entry of every `compute_delta` test goes unchecked.

8. **Resurrection through a relay's cut copy (state.rs:242, 176).** The reset test
   compares the peer's floor with the sender's copy of the owner, not the owner's own
   state. The trace has one entry per delta and `GracePeriod` 2:
   - Owner n1 writes k1@1, and n2 copies it.
   - n1 deletes k1 (@2), sets k2@3, then sets k3 at 4 and again at 5.
   - n1 collects the k1 tombstone (2+2 is below 5).
   - n3 gets the cut prefix `{k2@3}`, so its copy has max 3.
   - n2 pulls from n3 and is not reset (1+2 is not below 3), so it keeps k1@1 live at
     max 3.
   - n2 is now within the grace period of the owner too (3+2 is not below 5), so no round
     resets it until the owner writes again.

   This breaks the spec's invariant 4: a collected tombstone's key is never
   reintroduced. It happens with none of the restrictions the other findings lift.

Checked conformance: the model passes every
other unit test, including the three `compute_delta` tests whose last entry is right.

## 4. Fairness

The safety runs assume no fairness. `FairSpecSync` adds weak fairness of
`Exchange(i, j, {}, {})` for every ordered pair: every node starts a round on each
gossip-timer tick with a random peer, so a round between two given live nodes cannot stay
enabled and never happen. There is no fairness on writes, GC or `remove_node`, and the
liveness runs disable `remove_node` (`RemoveNodes = FALSE`): an endless run of removals
would otherwise undo every round, which the code does not prevent but no cluster does.
Dead sets are empty in the fair exchanges because a failure detector of live nodes
eventually stops suspecting them.

`FairSpecAsync` (the own_reset run) is for the lossy network, written as
AlternatingBit writes its channel. Strong fairness applies to:
- sending a digest from i to j, because the gossip timer keeps retrying it while the
  bound on datagrams in flight keeps disabling it;
- answering a digest, and applying a delta, that keeps arriving.

Weak fairness applies to losing a delta, because a datagram is not kept in the network
forever, delivered copies included. A loss that is never fair keeps the network honest:
a run that loses every message is not fair. Safety runs over this network assume no
fairness.

## 5. Not modelled

- Seed addresses and `ClusterStateSnapshot` (read-only copies).
- Value strings and `last_heartbeat`.
- Byte-exact serialized sizes.
- The Syn/SynAck/Ack framing and peer selection.
- Node restarts. `state.rs` has no restart path, and the spec lists durability across
  restarts as a non-goal. A restart would be a new `ClusterState` built by code outside
  `src/chitchat/src/state.rs`.
- u64 overflow of `max_version`, which is unreachable in practice.
- The probability of the shuffle: TLC treats it as an adversarial choice.

## 6. Plan

Done:
- the operators;
- Gossip with atomic and asynchronous rounds, and the safety findings;
- liveness (`Convergence`) under atomic rounds, and the perpetual-reset finding;
- liveness over the lossy network (`FairSpecAsync`), which fails through the own-state
  reset (finding 4);
- `StaleOrder`, checked against `ScuttleDepthOrders`;
- the refinement of `ReplicatedMap` by Gossip;
- the `compute_delta` assertion;
- the unit tests.

Next: larger bounds. `MaxVersion` 7 with three keys, and asynchronous liveness on three
nodes, are beyond a five-minute run today.
