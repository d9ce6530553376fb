SPECIFICATION FairSpec
CHECK_DEADLOCK FALSE
CONSTANTS
    Main = "main"
    Subs <- NoSub
    MaxMessages = 3
    MaxUnloads = 2
INVARIANTS
    TypeOK
    InFlightAttended
    GateFollowsRecord
PROPERTIES
    CreateSettles
