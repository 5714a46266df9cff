SPECIFICATION Spec
CONSTANTS
    Sessions = {s1}
    Clients = {c1}
    Values = {"v1", "v2"}
    None = None
    MaxVersion = 3
    MaxCalls = 4
    StatusNames <- TwoStatuses
    StatusOf <- OwnStatus
SYMMETRY AnyClient
INVARIANTS
    ConflictWroteNothing
