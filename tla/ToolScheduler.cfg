SPECIFICATION FairSpec
CONSTANTS
  NumCalls = 2
  MaxParallel = 2
  Concluders <- OneConcluder
  MaxReclassify = 1
INVARIANTS
  EveryCallAnswered
  ExclusiveAlone
PROPERTIES
  AbortStopsStarts
  StepEnds
