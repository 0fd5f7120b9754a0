SPECIFICATION Spec
CONSTANTS
  Jobs = {j1, j2}
  Agents = {a1}
  Waits = {w1}
  Shared = shared
  Outcomes = {"completed", "failed"}
  Limit = 1
  WakeBudget = 1
  MaxThrows = 1
  MaxTurns = 1
  MaxReloads = 1
INVARIANTS
  CompletionIsTold
  TeardownLeavesNothing
  WakesBounded
PROPERTIES
  AskedStaysQuiet
  DisposalEnds
CHECK_DEADLOCK FALSE
