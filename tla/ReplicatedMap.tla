---------------------------- MODULE ReplicatedMap ----------------------------
(***************************************************************************)
(* What Scuttlebutt reconciliation promises the users of chitchat, with    *)
(* no digests, deltas, MTU or grace period: each writer owns a versioned  *)
(* key-value map, and every node holds copies of the owners' maps that     *)
(* are consistent with what the owners wrote.                              *)
(*                                                                         *)
(*   hist[n]   the writes owner n made: [key, version, deleted]            *)
(*   copy[i]   node i's copies: owner id -> [kv, max] as in NodeState      *)
(*                                                                         *)
(* A copy with max_version v is the owner's map "as of v": it holds only   *)
(* writes the owner made, none above v, and for every key whose last write *)
(* is at or below v exactly that write, or nothing if it was a deletion    *)
(* (tombstones are collected).  A key written again after v may be held    *)
(* at any earlier version or not at all.  The owner's own copy is          *)
(* complete.  A step is an owner's write, or one node changing its own     *)
(* copies to other consistent ones: learning, forgetting, being reset.     *)
(***************************************************************************)
EXTENDS Naturals, FiniteSets, FiniteSetsExt

CONSTANTS Node, Writers, Keys

VARIABLES hist, copy

\* The owner's latest version (its max_version).
Top(h, n) == Max({w.version : w \in h[n]} \cup {0})

LastWrites(h, n, k) ==
    {w \in h[n] : w.key = k /\ \A w2 \in h[n] : w2.key = k => w2.version <= w.version}

AsWrite(k, vv) == [key |-> k, version |-> vv.version, deleted |-> vv.deleted]

\* Copy c of owner n is the owner's map as of c.max, for the writes h.
Consistent(h, n, c) ==
    /\ c.max <= Top(h, n)
    /\ \A k \in DOMAIN c.kv : AsWrite(k, c.kv[k]) \in h[n] /\ c.kv[k].version <= c.max
    /\ \A k \in Keys : \A w \in LastWrites(h, n, k) :
          w.version <= c.max =>
              IF k \in DOMAIN c.kv THEN c.kv[k].version = w.version ELSE w.deleted

Complete(h, n, c) == Consistent(h, n, c) /\ c.max = Top(h, n)

Init ==
    /\ hist = [n \in Node |-> {}]
    /\ copy = [i \in Node |-> [n \in {} |-> [kv |-> <<>>, max |-> 0]]]

\* Owner n sets or deletes key k at its next version; its own copy, and
\* only it, follows.
Write(n, k, d) ==
    /\ n \in Writers
    /\ hist' = [hist EXCEPT ![n] = @ \cup {[key |-> k, version |-> Top(hist, n) + 1, deleted |-> d]}]
    /\ \A i \in Node \ {n} : copy'[i] = copy[i]
    /\ DOMAIN copy'[n] = DOMAIN copy[n] \cup {n}
    /\ \A m \in DOMAIN copy[n] \ {n} : copy'[n][m] = copy[n][m]
    /\ Complete(hist', n, copy'[n][n])

\* Node i replaces its copies by consistent ones; its own copy, once it
\* has one, stays complete.
Sync(i) ==
    /\ UNCHANGED hist
    /\ \A j \in Node \ {i} : copy'[j] = copy[j]
    /\ \A n \in DOMAIN copy'[i] : Consistent(hist, n, copy'[i][n])
    /\ i \in DOMAIN copy[i] => i \in DOMAIN copy'[i] /\ Complete(hist, i, copy'[i][i])

Next ==
    \/ \E n \in Node, k \in Keys, d \in BOOLEAN : Write(n, k, d)
    \/ \E i \in Node : Sync(i)

Spec == Init /\ [][Next]_<<hist, copy>>

=============================================================================
