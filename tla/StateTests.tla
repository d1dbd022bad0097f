----------------------------- MODULE StateTests -----------------------------
(***************************************************************************)
(* The unit tests of state.rs, restated over the model's operators.  They  *)
(* tie the model to the code's own expectations: every test's fixture is   *)
(* built with the modelled operations, and its assertions are checked by   *)
(* TLC.                                                                    *)
(*                                                                         *)
(* The `compute_delta` tests run the helper                                *)
(* `test_with_varying_max_transmitted_kv_helper`: for a growing MTU, the   *)
(* delta must be the expected delta cut to its first entries, at the MTU   *)
(* that exactly fits them and at one byte more.  Serialized sizes are      *)
(* abstracted to a cost per node section and per key-value, both at least  *)
(* two bytes, so one extra byte never fits another section or entry.       *)
(*   case       the compute_delta test being run                           *)
(*   unit       the other test being run                                   *)
(*   node_cost, kv_cost   the byte costs                                   *)
(*   mtu        the helper's loop variable                                 *)
(***************************************************************************)
EXTENDS Naturals, Sequences, SequencesExt, FiniteSets, Functions, TLC

CONSTANTS node1, node2, node3, node4,    \* NodeId::for_test_localhost(..)
          key_a, key_b, key_c, key_d,
          Cases,     \* the compute_delta tests run
          Units,     \* the other tests run
          Costs,     \* the byte costs a section or an entry can have
          MaxMtu     \* the largest MTU of the helper's loop

ASSUME Costs \subseteq Nat \ {0, 1} /\ MaxMtu \in Nat

VARIABLES case, unit, node_cost, kv_cost, mtu

vars == <<case, unit, node_cost, kv_cost, mtu>>

TestKeys == {key_a, key_b, key_c, key_d}

NS == INSTANCE NodeState WITH Keys <- TestKeys
CS(m, nc, kc) == INSTANCE ClusterState WITH Keys <- TestKeys, Mtu <- m, NodeCost <- nc, KvCost <- kc

Empty == NS!EmptyNodeState

\* A node state built by `set_with_version` calls, as the fixtures do.
WithVersions(ns, writes) ==
    FoldLeft(LAMBDA s, w : NS!SetWithVersion(s, w[1], w[2]), ns, writes)

Atom(n, k, v, d) == <<n, k, NS!VersionedValue(v, d)>>

\* `test_cluster_state`: the fixture of the compute_delta tests.
TestClusterState ==
    (node1 :> WithVersions(Empty, <<<<key_a, 1>>, <<key_b, 2>>>>)) @@
    (node2 :> NS!MarkForDeletion(WithVersions(Empty,
                 <<<<key_a, 1>>, <<key_b, 2>>, <<key_c, 3>>, <<key_d, 4>>>>), key_d))

\* The fixture of the reset test.
ResetClusterState ==
    (node1 :> WithVersions(Empty, <<<<key_a, 1>>, <<key_b, 10003>>>>)) @@
    (node2 :> WithVersions(Empty, <<<<key_c, 2>>>>))

\* Each compute_delta test: cluster state, digest, dead nodes, grace
\* period, the expected resets and key-values in order, and the numbers of
\* leading key-values its assertions compare.
Test(cs, digest, dead, gp, reset, atoms, checked) ==
    [cs |-> cs, digest |-> digest, dead |-> dead, gp |-> gp,
     reset |-> reset, atoms |-> atoms, checked |-> checked]

DeltaTests ==
  [depth_first |->     \* ..._depth_first_single_node and ..._depth_first_chitchat
      Test(TestClusterState, (node1 :> 1) @@ (node2 :> 2), {}, 10000, {},
           <<Atom(node2, key_c, 3, FALSE), Atom(node2, key_d, 5, TRUE),
             Atom(node1, key_b, 2, FALSE)>>, 0..3),
   missing_node |->
      Test(TestClusterState, node2 :> 3, {}, 10000, {},
           <<Atom(node1, key_a, 1, FALSE), Atom(node1, key_b, 2, FALSE),
             Atom(node2, key_d, 4, FALSE)>>, 0..3),
   dead_nodes |->
      Test(TestClusterState, [n \in {} |-> 0], {node2}, 10000, {},
           <<Atom(node1, key_a, 1, FALSE), Atom(node1, key_b, 2, FALSE)>>, 0..2),
   no_reset |->          \* ..._with_old_node_state_that_needs_reset, grace 10_002
      Test(ResetClusterState, node1 :> 1, {}, 10002, {},
           <<Atom(node1, key_b, 10003, FALSE), Atom(node2, key_c, 2, FALSE)>>, {2}),
   reset |->             \* the same test, grace 10_000
      Test(ResetClusterState, node1 :> 1, {}, 10000, {node1},
           <<Atom(node1, key_a, 1, FALSE), Atom(node1, key_b, 10003, FALSE),
             Atom(node2, key_c, 2, FALSE)>>, {3})]

ASSUME Cases \subseteq DOMAIN DeltaTests

\* The expected delta cut to its first n key-values (`add_node_delta`).
Prefix(t, n) ==
    LET atoms == SubSeq(t.atoms, 1, n)
        of(m) == SelectSeq(atoms, LAMBDA a : a[1] = m)
    IN  [reset |-> t.reset,
         nodes |-> [m \in {atoms[i][1] : i \in 1..n} |-> [i \in 1..Len(of(m)) |-> <<of(m)[i][2], of(m)[i][3]>>]]]

\* The serialized size of that delta.
Size(t, n) ==
    node_cost * Cardinality({t.atoms[i][1] : i \in 1..n}) + kv_cost * n

Init ==
    /\ case \in Cases
    /\ unit \in Units
    /\ node_cost \in Costs /\ kv_cost \in Costs
    /\ mtu = 0

\* The helper's loop over MTUs.
NextMtu ==
    /\ mtu < MaxMtu
    /\ mtu' = mtu + 1
    /\ UNCHANGED <<case, unit, node_cost, kv_cost>>

Spec == Init /\ [][NextMtu]_vars

-----------------------------------------------------------------------------
(* The other tests: constant assertions                                    *)

\* test_node_sorted_by_stale_length_{empty,simple,doubles}.
TestNodeSortedByStaleLength ==
    /\ CS(0, 2, 2)!ScuttleDepthOrders({}, [n \in {} |-> 0]) = {<<>>}
    /\ CS(0, 2, 2)!ScuttleDepthOrders({node1, node2, node3}, (node1 :> 1) @@ (node2 :> 2) @@ (node3 :> 3))
         = {<<node3, node2, node1>>}
    /\ <<node3, node2, node4, node1>> \in
         CS(0, 2, 2)!ScuttleDepthOrders({node1, node2, node3, node4},
                              (node1 :> 1) @@ (node2 :> 2) @@ (node3 :> 2) @@ (node4 :> 2))

\* test_cluster_state_first_version_is_one, _set, _set_with_same_value_...
\* and _set_and_mark_for_deletion.
TestSet ==
    LET own   == CS(0, 2, 2)!NodeStateMut([n \in {} |-> Empty], node1)[node1]
        s1    == NS!Set(own, key_a)
        s2    == NS!Set(s1, key_b)
        s3    == NS!Set(s2, key_a)
        m     == NS!MarkForDeletion(s1, key_a)
    IN  /\ NS!Get(s1, key_a) = {NS!VersionedValue(1, FALSE)}
        /\ NS!Get(s2, key_a) = {NS!VersionedValue(1, FALSE)}
        /\ NS!Get(s2, key_b) = {NS!VersionedValue(2, FALSE)}
        /\ NS!Get(s3, key_a) = {NS!VersionedValue(3, FALSE)}
        /\ NS!Get(m, key_a) = {NS!VersionedValue(2, TRUE)}
        /\ NS!Get(NS!Set(m, key_a), key_a) = {NS!VersionedValue(3, FALSE)}

\* test_cluster_state_compute_digest.
TestComputeDigest ==
    LET cs == (node1 :> NS!Set(NS!Set(Empty, key_a), key_b)) @@ (node2 :> NS!Set(Empty, key_a))
    IN  /\ CS(0, 2, 2)!ComputeDigest(cs, {}) = (node1 :> 2) @@ (node2 :> 1)
        /\ CS(0, 2, 2)!ComputeDigest(cs, {node1}) = (node2 :> 1)

\* test_cluster_state_gc_keys_marked_for_deletion.
TestGc ==
    LET ns == NS!SetWithVersion(NS!MarkForDeletion(WithVersions(Empty, <<<<key_a, 1>>>>), key_a),
                                key_b, 13)
        cs == node1 :> ns
    IN  /\ DOMAIN CS(0, 2, 2)!GcKeysMarkedForDeletion(cs, 11, {})[node1].kv = {key_a, key_b}
        /\ DOMAIN CS(0, 2, 2)!GcKeysMarkedForDeletion(cs, 10, {})[node1].kv = {key_b}

\* test_cluster_state_apply_delta.
TestApplyDelta ==
    LET cs    == (node1 :> WithVersions(Empty, <<<<key_a, 1>>, <<key_b, 3>>>>)) @@
                 (node2 :> WithVersions(Empty, <<<<key_c, 1>>>>))
        delta == [reset |-> {node2},
                  nodes |-> (node1 :> <<<<key_a, NS!VersionedValue(4, FALSE)>>,
                                       <<key_b, NS!VersionedValue(2, FALSE)>>>>) @@
                            (node2 :> <<<<key_d, NS!VersionedValue(4, FALSE)>>>>)]
        after == CS(0, 2, 2)!ApplyDelta(cs, delta)
    IN  /\ NS!Get(after[node1], key_a) = {NS!VersionedValue(4, FALSE)}
        /\ NS!Get(after[node1], key_b) = {NS!VersionedValue(3, FALSE)}
        /\ after[node2].kv = (key_d :> NS!VersionedValue(4, FALSE))

-----------------------------------------------------------------------------
(* Properties                                                              *)

\* What the compute_delta tests assert: at the MTU that exactly fits the
\* expected delta's first n key-values, and at one byte more, the delta is
\* exactly those n key-values (scuttle-depth node order, versions
\* ascending within a node, the MTU cut after the last fitting entry) with
\* the expected resets.
DeltaIsExpectedPrefix ==
    LET t == DeltaTests[case]
    IN  \A n \in t.checked : mtu \in {Size(t, n), Size(t, n) + 1} =>
            CS(mtu, node_cost, kv_cost)!ComputeDelta(t.cs, t.digest, t.dead, t.gp) = {Prefix(t, n)}

\* Every other unit test of state.rs holds of the model: the ordering of
\* `NodeSortedByStaleLength`, versions assigned by `set` and
\* `mark_for_deletion`, the digest, tombstone GC at the grace period's
\* boundary and `apply_delta` with a reset.
UnitTestsHold ==
    [node_sorted_by_stale_length |-> TestNodeSortedByStaleLength,
     set |-> TestSet,
     compute_digest |-> TestComputeDigest,
     gc |-> TestGc,
     apply_delta |-> TestApplyDelta][unit]

=============================================================================
