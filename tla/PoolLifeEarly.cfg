CONSTANTS
    Producers = {p1, p2, p3}
    Pools = {o1, o2, o3, o4}
    NULL = NULL
    Overlap <- CreateOverlap
SPECIFICATION Spec
INVARIANTS
    UsedPoolIsReady
CHECK_DEADLOCK FALSE
