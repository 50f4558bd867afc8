CONSTANTS
    Producers = {p1, p2, p3}
    Pools = {o1, o2, o3, o4}
    NULL = NULL
    Overlap <- NoOverlap
SPECIFICATION Spec
INVARIANTS
    TypeOK
    UsedPoolIsReady
    PoolAsTold
    NoPoolLost
CHECK_DEADLOCK FALSE
