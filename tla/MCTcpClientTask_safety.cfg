CONSTANTS
    MaxPieces = 3
SPECIFICATION Spec
INVARIANTS TypeOK CallBackOnce ClosedBeforeDestroyed
CHECK_DEADLOCK FALSE
