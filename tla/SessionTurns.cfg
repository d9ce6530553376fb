SPECIFICATION FairSpec
CHECK_DEADLOCK FALSE
CONSTANTS
    HasStartHooks = TRUE
    HasStopHooks = TRUE
    MaxStopContinuations = 1
    MaxMessages = 2
    MaxAnswers = 1
    MaxEnds = 1
    MaxTimeouts = 1
    MaxCrashes = 1
INVARIANTS
    TypeOK
    RunIsShown
    PhantomsExplained
    ParkIsShown
PROPERTIES
    ShownTurnEnds
