SPECIFICATION FairSpec
CONSTANTS
    Workers = {w1, w2, w3}
    Initial = {w1, w2}
    Jobs = {"j1", "j2", "j3", "j4"}
    Batches = {"b1", "b2", "b3"}
    BatchOf <- Mixed
    Nested <- MixedNesting
    Backlog = 1
    NoJob = NoJob
    SizeMod = 16
CHECK_DEADLOCK FALSE
INVARIANTS
    TypeOK
    RunAllJoins
    NoLostWakeup
    ShutdownDrains
PROPERTIES
    EveryRunAllReturns
    WaitIdleReturns
