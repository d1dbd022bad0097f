CONSTANTS
    node1 = node1
    node2 = node2
    node3 = node3
    node4 = node4
    key_a = key_a
    key_b = key_b
    key_c = key_c
    key_d = key_d
    Cases = {"depth_first", "dead_nodes", "no_reset", "reset"}
    Units = {"node_sorted_by_stale_length", "set", "compute_digest", "gc", "apply_delta"}
    Costs = {2, 3, 4}
    MaxMtu = 18
SPECIFICATION Spec
INVARIANTS DeltaIsExpectedPrefix UnitTestsHold
CHECK_DEADLOCK FALSE
