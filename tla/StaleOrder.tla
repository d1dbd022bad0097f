----------------------------- MODULE StaleOrder -----------------------------
(***************************************************************************)
(* `NodeSortedByStaleLength` of state.rs: the structure `compute_delta`    *)
(* uses to visit nodes by decreasing number of stale key-values.           *)
(*                                                                         *)
(*   node_per_stale_length  BTreeMap<usize, Vec<&NodeId>>: one bucket of   *)
(*                          nodes per stale length, in insertion order     *)
(*   stale_lengths          BinaryHeap<usize>: a bag of lengths, pushed     *)
(*                          when a bucket is created                       *)
(*   pending                the nodes `compute_delta` has still to insert,  *)
(*                          with their stale length                        *)
(*   current                the shuffled bucket `flat_map` is draining      *)
(*   out                    the nodes `into_iter` has yielded so far        *)
(*                                                                         *)
(* `insert` is called once per node with stale key-values, then the lazy  *)
(* iterator of `into_iter` pops the greatest length, removes its bucket,   *)
(* shuffles it and yields its nodes one per `next` call.  The shuffle is   *)
(* any permutation of the bucket.  The reference definitions are           *)
(* ClusterState's `ScuttleDepthOrders`, which the delta computation is     *)
(* written against.                                                        *)
(***************************************************************************)
EXTENDS Naturals, Sequences, SequencesExt, Bags, BagsExt, FiniteSets, Functions

CONSTANTS Node,     \* node ids
          Lengths   \* the stale lengths a node can have (positive)

ASSUME Lengths \subseteq Nat \ {0}

VARIABLES stale, pending, node_per_stale_length, stale_lengths, current, out

vars == <<stale, pending, node_per_stale_length, stale_lengths, current, out>>

C == INSTANCE ClusterState WITH Keys <- {}, Mtu <- 0, NodeCost <- 1, KvCost <- 1

TypeOK ==
    /\ \E S \in SUBSET Node : stale \in [S -> Lengths]
    /\ DOMAIN pending \subseteq DOMAIN stale
    /\ DOMAIN node_per_stale_length \subseteq Lengths
    /\ \A l \in DOMAIN node_per_stale_length : node_per_stale_length[l] \in Seq(Node)
    /\ IsABag(stale_lengths) /\ BagToSet(stale_lengths) \subseteq Lengths
    /\ current \in Seq(Node) /\ out \in Seq(Node)

\* The nodes with stale key-values of one `compute_delta` call, in an
\* empty `NodeSortedByStaleLength::default()`.
Init ==
    /\ stale \in UNION {[S -> Lengths] : S \in SUBSET Node}
    /\ pending = stale
    /\ node_per_stale_length = [l \in {} |-> <<>>]
    /\ stale_lengths = EmptyBag
    /\ current = <<>>
    /\ out = <<>>

\* Faulty variant of `insert`: the bucket is keyed one below the length.
InsertOffByOne(node_id, stale_length) ==
    IF stale_length - 1 \in DOMAIN node_per_stale_length
    THEN /\ node_per_stale_length' =
              [node_per_stale_length EXCEPT ![stale_length - 1] = Append(@, node_id)]
         /\ UNCHANGED stale_lengths
    ELSE /\ node_per_stale_length' =
              (stale_length - 1 :> <<node_id>>) @@ node_per_stale_length
         /\ stale_lengths' = BagAdd(stale_lengths, stale_length - 1)

\* Faulty variant of `insert`: the length is pushed on every insertion.
InsertPushingAlways(node_id, stale_length) ==
    /\ stale_lengths' = BagAdd(stale_lengths, stale_length)
    /\ node_per_stale_length' =
          IF stale_length \in DOMAIN node_per_stale_length
          THEN [node_per_stale_length EXCEPT ![stale_length] = Append(@, node_id)]
          ELSE (stale_length :> <<node_id>>) @@ node_per_stale_length

\* `insert`: the node joins the bucket of its length; a new bucket pushes
\* its length on the heap.
Insert(node_id, stale_length) ==
    IF stale_length \in DOMAIN node_per_stale_length
    THEN /\ node_per_stale_length' =
              [node_per_stale_length EXCEPT ![stale_length] = Append(@, node_id)]
         /\ UNCHANGED stale_lengths
    ELSE /\ node_per_stale_length' =
              (stale_length :> <<node_id>>) @@ node_per_stale_length
         /\ stale_lengths' = BagAdd(stale_lengths, stale_length)

\* The insertion loop of `compute_delta` hands over one node.
InsertNext(n) ==
    /\ n \in DOMAIN pending
    /\ Insert(n, pending[n])
    /\ pending' = Restrict(pending, DOMAIN pending \ {n})
    /\ UNCHANGED <<stale, current, out>>

\* Faulty variant of the pop: a min-heap, smallest length first.
PopSmallest ==
    LET length == Min(BagToSet(stale_lengths))
    IN  /\ length \in DOMAIN node_per_stale_length
        /\ \E shuffle \in SetToSeqs(Range(node_per_stale_length[length])) :
              current' = shuffle
        /\ stale_lengths' = BagRemove(stale_lengths, length)
        /\ node_per_stale_length' =
              Restrict(node_per_stale_length, DOMAIN node_per_stale_length \ {length})

\* `from_fn(pop)` and the `flat_map` closure: pop the greatest length,
\* remove its bucket (`unwrap` panics if it is missing: no step) and
\* shuffle it.
Pop ==
    LET length == Max(BagToSet(stale_lengths))
    IN  /\ length \in DOMAIN node_per_stale_length
        /\ \E shuffle \in SetToSeqs(Range(node_per_stale_length[length])) :
              current' = shuffle
        /\ stale_lengths' = BagRemove(stale_lengths, length)
        /\ node_per_stale_length' =
              Restrict(node_per_stale_length, DOMAIN node_per_stale_length \ {length})

\* `next` on the iterator once every node is inserted: the drained bucket
\* is replaced by the next one popped.
NextBucket ==
    /\ pending = [n \in {} |-> 0]
    /\ current = <<>> /\ stale_lengths # EmptyBag
    /\ Pop
    /\ UNCHANGED <<stale, pending, out>>

\* `next` yields the bucket's next node.
YieldNode ==
    /\ current # <<>>
    /\ out' = Append(out, Head(current))
    /\ current' = Tail(current)
    /\ UNCHANGED <<stale, pending, node_per_stale_length, stale_lengths>>

Next ==
    \/ \E n \in Node : InsertNext(n)
    \/ NextBucket
    \/ YieldNode

Spec == Init /\ [][Next]_vars

-----------------------------------------------------------------------------
(* Properties                                                              *)

\* The heap and the buckets stay in step: every length on the heap is there
\* once and has its bucket, and every bucket's length is on the heap.  A
\* failure is a length popped twice, whose second pop finds its bucket
\* already removed and panics in `remove(&length).unwrap()`.
HeapMatchesBuckets ==
    /\ BagToSet(stale_lengths) = DOMAIN node_per_stale_length
    /\ \A l \in BagToSet(stale_lengths) : CopiesIn(l, stale_lengths) = 1

\* `into_iter` yields every node handed to `insert` exactly once, by
\* decreasing stale length: a scuttle-depth order, which ClusterState's
\* `compute_delta` is modelled with.  A failure is a node lost or
\* yielded twice, or a node with fewer stale key-values served first.
IterIsScuttleDepthOrder ==
    (pending = [n \in {} |-> 0] /\ stale_lengths = EmptyBag /\ current = <<>>) =>
        out \in C!ScuttleDepthOrders(DOMAIN stale, stale)

=============================================================================
