------------------------------ MODULE MCGossip ------------------------------
(* Model-checking instance of Gossip: node ids and keys are model values; *)
(* n1 is the only writer, n2 and n3 replicate and relay its state.        *)
EXTENDS Gossip

CONSTANTS n1, n2, n3, k1, k2, k3

MCNode == {n1, n2, n3}
MCWriters == {n1}
MCNode2 == {n1, n2}
MCKeys == {k1, k2}
MCKeys3 == {k1, k2, k3}

Symmetry == Permutations({n2, n3}) \cup Permutations(MCKeys)
Symmetry3 == Permutations({n2, n3}) \cup Permutations(MCKeys3)

=============================================================================
