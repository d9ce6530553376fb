SPECIFICATION Spec
CONSTANTS
  Sessions = {s1}
  MaxCalls = 2
  MaxTurns = 2
  MaxCrashes = 1
INVARIANTS TypeOK HeldIsRecorded LoadedIsSwept RowFollows
PROPERTY SweepSparesWork
CHECK_DEADLOCK FALSE
