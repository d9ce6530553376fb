SPECIFICATION FairSpec
CHECK_DEADLOCK FALSE
CONSTANTS
    Incoming <- MessageAndCompact
    Timers = {}
    Recurring = {}
    Tools = {"work","submit"}
    Interactive = TRUE
    RequiresResult = TRUE
    ParkOnWork = FALSE
    HasStartHooks = FALSE
    MaxResultNudges = 2
    MaxRetries = 0
    NudgeThreshold = 2
    StuckThreshold = 3
    MaxIterations = 3
    MaxCalls = 3
    MaxBatch = 1
    MaxFires = 1
    MaxChildren = 1
    MaxCancels = 1
    MaxFlips = 0
    MaxCrashes = 0
INVARIANTS
    OwnerHearsTheEnd
    WaitsOnlyAfterFailure
PROPERTIES
    TurnEnds
    CancelAnswered
