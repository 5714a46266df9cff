SPECIFICATION Spec
CONSTANTS
    Callers = {t1, t2}
    Conns = {c1, c2}
    NoConn = NoConn
    PoolSize = 1
    Depth = 1
    MaxCalls = 4
    SizeMod = 16
SYMMETRY AnyCaller
INVARIANTS
    LiveBounded
