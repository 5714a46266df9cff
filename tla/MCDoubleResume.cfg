SPECIFICATION Spec
CONSTANTS
    Sessions = {s1}
    Callers = {sched, c1, c2}
    Ticker = sched
    MaxRuns = 1
    NoCaller = NoCaller
    NoSession = NoSession
    N = 2
    Kind <- KindPrompts
    Timed = {}
    Children = {}
    Exclusive = FALSE
    MaxCrashes = 0
    MayFail = FALSE
INVARIANTS
    EffectsAtMostOnce
