SPECIFICATION FairSpec
CONSTANTS
  Sessions = {s1}
  MaxCalls = 1
  MaxTurns = 1
  MaxCrashes = 0
PROPERTY StaysFree
CHECK_DEADLOCK FALSE
