SPECIFICATION Spec
CONSTANTS
  NumHandles = 2
  Procs = {p1}
  Flushers = {}
  MaxEvents = 2
  MaxFailures = 1
  MaxCrashes = 0
  LateProducers = FALSE
INVARIANT LogContiguous
CHECK_DEADLOCK FALSE
