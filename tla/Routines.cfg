SPECIFICATION FairSpec
CONSTANTS
    TicksPerDay = 2
    Nodes = {n1}
    Names = {r1, r2}
    Schedules <- MCSchedules
    Definitions <- MCDefinitions
    Instants <- MCInstants
    Horizon = 1830
    MaxEdits = 2
    MaxTrouble = 1
INVARIANTS TypeOK FiredOncePerDue NextIsLeast
PROPERTY DueIsClaimed
\* The model's clock ends; the timer does not.
CHECK_DEADLOCK FALSE
