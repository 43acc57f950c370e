\* Three units on one pool of two seats, two connections that may be lost.
SPECIFICATION GateSpec
CONSTANTS
    u1 = u1
    u2 = u2
    u3 = u3
    p1 = p1
    Units = {u1, u2, u3}
    Pools = {p1}
    PoolOf <- OnePool
    Seats = 2
    PoolSize = 2
    Attempts = 8
    CanLose = TRUE
INVARIANT GateKept
INVARIANT RetryRunsAlone
INVARIANT CollisionCostsOneRetry
PROPERTY ImplementsSerialStore
PROPERTY EveryUnitAnswered
