SPECIFICATION FairSpec
CONSTANTS
    Sessions = {s1}
    Callers = {sched, c1}
    Ticker = sched
    MaxRuns = 1
    NoCaller = NoCaller
    NoSession = NoSession
    N = 2
    Kind <- KindTimerFirst
    Timed = {}
    Children = {}
    Exclusive = TRUE
    MaxCrashes = 1
    MayFail = FALSE
PROPERTIES
    TimerWakes
