CONSTANTS
    MaxPieces = 2
SPECIFICATION Spec
INVARIANT ReadAssertHolds
CHECK_DEADLOCK FALSE
