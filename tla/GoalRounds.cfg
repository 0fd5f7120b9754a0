SPECIFICATION Spec
CONSTANTS
  Contexts = {c1}
  Caps = {1, 2}
  MaxSends = 1
  MaxMutations = 2
  MaxStops = 1
  MaxFaults = 1
  MaxJobs = 1
  MaxLoops = 4
  OuterAwaits = TRUE
  Refused <- RefusedRounds
INVARIANTS
  FoldGuarded
  FenceKeepsContext
PROPERTIES
  NoSelfRestart
  HumanFirst
  GoalConcludes
CHECK_DEADLOCK FALSE
