SPECIFICATION Spec
CONSTANTS
  Clients = {a, b}
  Drainer = Drainer
  None = None
  NumRequests = 2
  Capacity = 2
  NumRows = 1
  MaxSteps = 1
INVARIANTS
  ReadsOwnTokens
CHECK_DEADLOCK FALSE
