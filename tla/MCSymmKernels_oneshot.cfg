SPECIFICATION Spec
CONSTANTS
    Programs <- MCOneShot
    WordBits = 3
INVARIANT ReducesFresh
CHECK_DEADLOCK FALSE
