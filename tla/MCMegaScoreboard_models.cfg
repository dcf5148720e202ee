SPECIFICATION Spec
CONSTANTS
  NumSMs = 2
  MaxLaunches = 2
  Plans <- MCPlans
INVARIANTS
  TypeOK
  DepsHeld
  CompiledInOrder
  NoRace
PROPERTIES
  ImplementsDataflow
