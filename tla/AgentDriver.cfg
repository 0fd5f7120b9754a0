SPECIFICATION Spec
CONSTANTS
  Messages = {m1, m2, m3}
  MaxSteps = 2
  MaxAttempts = 1
  MaxCancels = 2
  MaxJobs = 1
  MaxEdits = 1
  MaxCrashes = 1
  MaxDepth = 3
SYMMETRY MessageSymmetry
INVARIANTS
  LedgerExact
  NoStrandedWake
  KeptWorkParks
CHECK_DEADLOCK FALSE
