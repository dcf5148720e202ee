SPECIFICATION Spec
CONSTANTS
  Clients = {a, b}
  Drainer = Drainer
  None = None
  NumRequests = 2
  Capacity = 2
  NumRows = 2
  MaxSteps = 1
INVARIANTS
  NoLockCycle
CHECK_DEADLOCK FALSE
