SPECIFICATION FairSpec
CONSTANTS
  Messages = {m1, m2}
  MaxSteps = 2
  MaxAttempts = 2
  MaxCancels = 2
  MaxJobs = 1
  MaxEdits = 0
  MaxCrashes = 1
  MaxDepth = 2
PROPERTIES
  LogFollowsRules
  OwedIsServed
  AbortConverges
CHECK_DEADLOCK FALSE
