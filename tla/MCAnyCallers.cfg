SPECIFICATION Spec
CONSTANTS
    Sessions = {s1}
    Callers = {sched, c1, c2}
    Ticker = sched
    MaxRuns = 1
    NoCaller = NoCaller
    NoSession = NoSession
    N = 2
    Kind <- KindPoll
    Timed = {}
    Children = {}
    Exclusive = FALSE
    MaxCrashes = 1
    MayFail = TRUE
INVARIANTS
    TypeOK
    SubscriptionsAccounted
    NoStepSkipped
