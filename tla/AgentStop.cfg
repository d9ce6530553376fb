SPECIFICATION Spec
CHECK_DEADLOCK FALSE
CONSTANTS
    Incoming <- MessageAndReport
    Timers = {"t1"}
    Recurring = {"t1"}
    Tools = {"work"}
    Interactive = FALSE
    RequiresResult = FALSE
    ParkOnWork = TRUE
    HasStartHooks = TRUE
    MaxResultNudges = 2
    MaxRetries = 1
    NudgeThreshold = 9
    StuckThreshold = 9
    MaxIterations = 9
    MaxCalls = 1
    MaxBatch = 1
    MaxFires = 1
    MaxChildren = 0
    MaxCancels = 1
    MaxFlips = 0
    MaxCrashes = 1
INVARIANTS
    SingleRun
    TimersKeepPromise
PROPERTIES
    KeepsInbox
    StopMeansOver
