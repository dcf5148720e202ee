SPECIFICATION Spec
CONSTANTS
  Clients = {a, b}
  Drainer = Drainer
  None = None
  NumRequests = 3
  Capacity = 2
  NumRows = 2
  MaxSteps = 2
INVARIANTS
  TypeOK
  CompletionsExact
  RowDirectory
SYMMETRY Callers
CHECK_DEADLOCK FALSE
