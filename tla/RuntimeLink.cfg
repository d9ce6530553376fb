\* A sibling agent's call beside every call, and one fault of any kind.
CONSTANTS
    c1 = c1
    c2 = c2
    a1 = a1
    a2 = a2
    Calls = {c1, c2}
    Agents = {a1, a2}
    Issuer <- MCIssuer
    NoCall = NoCall
    GraceRounds = 2
    MaxTrouble = 1
    MaxAcquires = 2
SPECIFICATION FairSpec
INVARIANTS TypeOK HealthyLinkFailsNothing
PROPERTIES KeepsPromise SilenceEnds AcquisitionEnds
CHECK_DEADLOCK FALSE
