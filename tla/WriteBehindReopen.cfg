SPECIFICATION Spec
CONSTANTS
  NumHandles = 3
  Procs = {p1, p2}
  Flushers = {f1}
  MaxEvents = 2
  MaxFailures = 0
  MaxCrashes = 2
  LateProducers = FALSE
INVARIANTS
  LogContiguous
  WritesOwned
  FlushedIsDurable
SYMMETRY Interchangeable
CHECK_DEADLOCK FALSE
