SPECIFICATION Spec
CONSTANTS
    Programs <- MCPrograms
    WordBits = 3
INVARIANTS
    TypeOK
    ReducesFresh
    TilesFresh
    CopiesFresh
    ReadyIsLeftAlone
    FlagsNotAhead
    GridMeets
PROPERTIES
    CallsEnd
    ImplementsBarrier
CHECK_DEADLOCK FALSE
