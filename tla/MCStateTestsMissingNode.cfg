CONSTANTS
    node1 = node1
    node2 = node2
    node3 = node3
    node4 = node4
    key_a = key_a
    key_b = key_b
    key_c = key_c
    key_d = key_d
    Cases = {"missing_node"}
    Units = {"set"}
    Costs = {2, 3, 4}
    MaxMtu = 18
SPECIFICATION Spec
INVARIANT DeltaIsExpectedPrefix
CHECK_DEADLOCK FALSE
