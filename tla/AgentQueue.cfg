SPECIFICATION Spec
CHECK_DEADLOCK FALSE
CONSTANTS
    Incoming <- MessageAndBranch
    Timers = {}
    Recurring = {}
    Tools = {"work","ask"}
    Interactive = TRUE
    RequiresResult = FALSE
    ParkOnWork = FALSE
    HasStartHooks = FALSE
    MaxResultNudges = 2
    MaxRetries = 0
    NudgeThreshold = 9
    StuckThreshold = 9
    MaxIterations = 9
    MaxCalls = 2
    MaxBatch = 2
    MaxFires = 1
    MaxChildren = 0
    MaxCancels = 1
    MaxFlips = 1
    MaxCrashes = 1
INVARIANTS
    TypeOK
    OneResultPerCall
PROPERTIES
    ParkEndsAnswered
