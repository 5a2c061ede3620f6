SPECIFICATION PoolSpec
CONSTANTS
    Callers = {t1, t2}
    PoolSize = 1
INVARIANT FalseMeansNone
