SPECIFICATION RedisSpec
CONSTANTS
    Claimants = {k1, k2, k3}
    Sessions = {s}
    Clients = {c1, c2}
    Values = {"v1", "v2"}
    None = None
    MaxVersion = 2
    MaxCalls = 3
    StatusNames <- TwoStatuses
    StatusOf <- OwnStatus
SYMMETRY AnyClient
INVARIANTS
    TypesOK
    IndexAgrees
    HolderKeepsClaim
PROPERTY ImplementsStore
