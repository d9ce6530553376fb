SPECIFICATION Spec
CONSTANTS
  Roots = {"workflow"}
  Start = "build"
  Transitions <- MCTransitions
  Outcomes = {"more", "done"}
  MaxSteps = 2
  MaxDepth = 2
  MaxLiveRuns = 2
  MaxActive = 2
  MaxSubs = 2
  MaxRuns = 1
  MaxTurns = 3
  Interventions = {}
  MaxInterventions = 0
INVARIANT ParkedOnLiving
CHECK_DEADLOCK FALSE
