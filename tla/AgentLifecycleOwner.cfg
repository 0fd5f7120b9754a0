SPECIFICATION Spec
CONSTANTS
  a1 = a1
  a2 = a2
  a3 = a3
  i1 = i1
  i2 = i2
  o1 = o1
  Attempts = {a1, a2}
  Ids = {i1}
  Owners = {o1}
  Loop = Loop
  Nobody = Nobody
  Signalled = {a1}
INVARIANTS
  OwnerJoinsTeardown
CHECK_DEADLOCK FALSE
