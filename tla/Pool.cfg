\* Pools of one to three items, destroyed last created first, until the chunks run out.
CONSTANTS
    MAX_NR_POOLS = 3
    MAX_NR_POOL_ITEMS = 5
    Capacities = {1, 2, 3}
    Names = {n1, n2}
    AnyOrder = FALSE
    NULL = NULL
SPECIFICATION Spec
INVARIANT NoCrosstalk
INVARIANT AssertsHold
PROPERTY ImplementsAllocator
CHECK_DEADLOCK FALSE
