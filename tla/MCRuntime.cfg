SPECIFICATION RuntimeSpec
CONSTANTS
    Workflows <- Accepted
    Budget = 40
    BranchBudget = 5
    MaxAnswers = 3
    Starts = {"", "nowhere"}
    Broken = Broken
    NoTrigger = NoTrigger
    NameParts = {"a", "b", "x", "pay", "done", "sent", "other"}
    Blueprints = {"a", "b", "c"}
    NameOf <- Names
    TriggerOf <- Triggers
    CallsOf <- Subflows
    LaunchesOf <- Launches
    PublishesOf <- Publishes
    Directory <- Files
    Events <- HostEvents
    Configs <- Configurations
    Stores = {"memory"}
    MaxDepth = 2
    MaxStarts = 2
    MaxCalls = 3
    MaxEvents = 2
    MaxStack = 4
    MaxJobs = 1
INVARIANTS
    TypesOK
    MeansItsNesting
    NeverLost
    FramesNest
    IteratorBound
    AnswersBelongToPrompt
    ParsesBack
    MeansItsText
    EveryRowOnce
    TriggersOnce
    ParkedKeepBlueprint
PROPERTIES
    BranchWritesSurvive
    Terminates
CHECK_DEADLOCK FALSE
