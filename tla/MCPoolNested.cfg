SPECIFICATION FairSpec
CONSTANTS
    Workers = {w1}
    Initial = {w1}
    Jobs = {"j1", "j2"}
    Batches = {"b1", "b2"}
    BatchOf <- Inner
    Nested <- InnerNesting
    Backlog = 4
    NoJob = NoJob
    SizeMod = 16
CHECK_DEADLOCK FALSE
PROPERTIES
    EveryRunAllReturns
