SPECIFICATION Spec
CONSTANTS
    Callers = {t1, t2, t3}
    Conns = {c1, c2, c3}
    NoConn = NoConn
    PoolSize = 1
    Depth = 2
    MaxCalls = 4
    SizeMod = 16
SYMMETRY AnyCaller
INVARIANTS
    OwnAnswers
    OpenBoundedByCallers
    NoLostWakeup
