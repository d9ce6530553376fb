SPECIFICATION Spec
CONSTANTS
  Roots = {"workflow"}
  Start = "build"
  Transitions <- MCTransitions
  Outcomes = {"more", "done"}
  MaxSteps = 2
  MaxDepth = 2
  MaxLiveRuns = 2
  MaxActive = 1
  MaxSubs = 1
  MaxRuns = 1
  MaxTurns = 3
  Interventions = {"stop", "retry", "crash"}
  MaxInterventions = 1
INVARIANT OneStepInFlight
CHECK_DEADLOCK FALSE
