SPECIFICATION FairSpec
CONSTANTS
    Sessions = {s1, s2}
    Callers = {sched, c1}
    Ticker = sched
    MaxRuns = 2
    NoCaller = NoCaller
    NoSession = NoSession
    N = 3
    Kind <- KindMixed
    Timed = {1}
    Children = {s2}
    Exclusive = TRUE
    MaxCrashes = 0
    MayFail = FALSE
INVARIANTS
    EffectsAtMostOnce
    WakeupsMatchCheckpoint
PROPERTIES
    TerminalIsFinal
    TimerWakes
