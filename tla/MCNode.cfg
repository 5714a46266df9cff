SPECIFICATION NodeSpec
CONSTANTS
    Sessions = {"a", "b"}
    Clients = {c1, c2}
    Values = {v1}
    None = None
    MaxVersion = 2
    Paths = {"fa", "fb"}
    PathFor <- OwnFiles
    Partial = Partial
    DiskMayFill = FALSE
    Never = Never
    SearchDays = 1500
    Schedules = {"minutely", "once"}
    TextOf <- NodeTexts
    OffsetOf <- InUTC
    JobIds = {"j"}
    Owners = {"s"}
    TimerIds = {"t", "u"}
    Tickers = {c1, c2}
    CatchUps = {0, 2}
    Dues = {2, 6}
    Readings = {0, 2, 4, 6}
    MaxTime = 6
    MaxRegs = 2
    MaxCrashes = 1
    Texts <- Awkward
    Zones <- Offsets
    Instants <- Dates
    Steps = 3
SYMMETRY AnyClient
CONSTRAINT Bounded
INVARIANTS
    TypesOK
    NoPartialFile
    DeliveredOnce
    NextIsEarliest
PROPERTIES
    CasReplacesWhatWasRead
    ImplementsStore
    CatchesUp
