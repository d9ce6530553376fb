SPECIFICATION Spec
CONSTANTS
  Roots = {"main"}
  Start = "build"
  Transitions <- MCTransitions
  Outcomes = {"more", "done"}
  MaxSteps = 2
  MaxDepth = 2
  MaxLiveRuns = 2
  MaxActive = 2
  MaxSubs = 2
  MaxRuns = 1
  MaxTurns = 3
  Interventions = {"stop", "delete", "say", "crash"}
  MaxInterventions = 1
INVARIANTS TypeOK NothingStrands ChainsReachRoot DeliveredOnce CallAnswered
CHECK_DEADLOCK FALSE
