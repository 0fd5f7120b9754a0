SPECIFICATION FairSpec
CONSTANTS
  NumHandles = 1
  Procs = {p1}
  Flushers = {f1, f2}
  MaxEvents = 3
  MaxFailures = 1
  MaxCrashes = 0
  LateProducers = FALSE
INVARIANTS
  Accounted
  CloseLosesNothing
PROPERTIES
  EventsReachTheFile
  WaitersAnswered
CHECK_DEADLOCK FALSE
