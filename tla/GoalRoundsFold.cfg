SPECIFICATION Spec
CONSTANTS
  Contexts = {}
  Caps = {1, 2}
  MaxSends = 0
  MaxMutations = 2
  MaxStops = 0
  MaxFaults = 0
  MaxJobs = 0
  MaxLoops = 4
  OuterAwaits = TRUE
  Refused <- NoRounds
INVARIANTS
  FoldNeverFails
CHECK_DEADLOCK FALSE
