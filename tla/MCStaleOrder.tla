---------------------------- MODULE MCStaleOrder ----------------------------
EXTENDS StaleOrder

CONSTANTS n1, n2, n3, n4

MCNode == {n1, n2, n3, n4}

MCLengths == 1..3

Symmetry == Permutations(MCNode)

=============================================================================
