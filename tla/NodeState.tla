----------------------------- MODULE NodeState -----------------------------
(***************************************************************************)
(* One node's replicated key-value map: `NodeState` of state.rs.           *)
(*                                                                         *)
(* A NodeState is a record                                                 *)
(*   [kv |-> function from the stored keys to VersionedValue,              *)
(*    max |-> max_version]                                                 *)
(* and a VersionedValue is [version |-> Nat, deleted |-> BOOLEAN]          *)
(* (`marked_for_deletion`).  The value string is left out: every version   *)
(* of a node is assigned by exactly one write, so (node, version)          *)
(* identifies the value and no property tells two values apart.            *)
(* `last_heartbeat` is left out too: only the failure detector reads it,   *)
(* and the models choose the dead sets freely.                             *)
(*                                                                         *)
(* The operators here are pure: the cluster modules apply them to their    *)
(* variables.                                                              *)
(***************************************************************************)
EXTENDS Naturals, FiniteSets, Functions, TLC

CONSTANT Keys

VersionedValue(v, d) == [version |-> v, deleted |-> d]

\* `NodeState::default()`: no keys, max_version 0.
EmptyNodeState == [kv |-> [k \in {} |-> VersionedValue(0, FALSE)], max |-> 0]

\* A node state with versions below a bound, for type invariants.
IsNodeState(ns, maxVersion) ==
    /\ DOMAIN ns = {"kv", "max"}
    /\ DOMAIN ns.kv \subseteq Keys
    /\ \A k \in DOMAIN ns.kv : ns.kv[k] \in [version : 1..maxVersion, deleted : BOOLEAN]
    /\ ns.max \in 0..maxVersion

\* `internal_iter_key_values`: the entries the predicate accepts, tombstones
\* included.  The predicate is given by the keys of ns it accepts.
InternalIterKeyValues(ns, accepted) ==
    Restrict(ns.kv, DOMAIN ns.kv \cap accepted)

\* `iter_key_values`: the same without the keys marked for deletion.
IterKeyValues(ns, accepted) ==
    Restrict(ns.kv, {k \in DOMAIN InternalIterKeyValues(ns, accepted) : ~ns.kv[k].deleted})

\* `iter_stale_key_values`: the keys, tombstones included, whose version is
\* above `floor_version`.
StaleKeys(ns, floor_version) ==
    DOMAIN InternalIterKeyValues(ns, {k \in DOMAIN ns.kv : ns.kv[k].version > floor_version})

\* `get`: returns the stored value whether or not it is marked for
\* deletion (an Option, here the empty or a one-element set).
Get(ns, k) == IF k \in DOMAIN ns.kv THEN {ns.kv[k]} ELSE {}

\* `set_with_version`: asserts version > max_version, then stores a live
\* value at that version.
SetWithVersion(ns, k, version) ==
    IF Assert(version > ns.max, "set_with_version: version > max_version")
    THEN [kv  |-> (k :> VersionedValue(version, FALSE)) @@ ns.kv,
          max |-> version]
    ELSE ns

\* Faulty variant of `set`: reuses the current max_version.
SetAtCurrentVersion(ns, k) ==
    [kv |-> (k :> VersionedValue(ns.max, FALSE)) @@ ns.kv, max |-> ns.max]

\* `set`: the next version, whether or not the value changed.
Set(ns, k) == SetWithVersion(ns, k, ns.max + 1)

\* Faulty variant of `mark_for_deletion`: the tombstone takes the next
\* version but max_version is not advanced.
MarkForDeletionKeepingMax(ns, k) ==
    IF k \in DOMAIN ns.kv
    THEN [ns EXCEPT !.kv[k] = VersionedValue(ns.max + 1, TRUE)]
    ELSE ns

\* `mark_for_deletion`: max_version is bumped even when the key is absent;
\* a present key becomes a tombstone at the new version.
MarkForDeletion(ns, k) ==
    LET new_version == ns.max + 1
    IN  [kv  |-> IF k \in DOMAIN ns.kv
                 THEN [ns.kv EXCEPT ![k] = VersionedValue(new_version, TRUE)]
                 ELSE ns.kv,
         max |-> new_version]

\* Faulty variant of the retain predicate: a tombstone exactly a grace
\* period old is collected too.
CollectableAtBoundary(ns, k, grace_period) ==
    ns.kv[k].deleted /\ ns.kv[k].version + grace_period <= ns.max

\* The retain predicate of `gc_keys_marked_for_deletion`.
Collectable(ns, k, grace_period) ==
    ns.kv[k].deleted /\ ns.kv[k].version + grace_period < ns.max

\* `gc_keys_marked_for_deletion`: drops the tombstones older than the grace
\* period relative to max_version, which is left unchanged.
GcKeysMarkedForDeletion(ns, grace_period) ==
    [ns EXCEPT !.kv = RestrictDomain(@, LAMBDA k : ~Collectable(ns, k, grace_period))]

=============================================================================
