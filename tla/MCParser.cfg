CONSTANTS
    Bound <- MCBound
    MaxWords = 3
    MaxExpr = 5
SPECIFICATION Spec
INVARIANTS NothingLost GrammarAccepted LinesIndependent PrecedenceRight
CHECK_DEADLOCK FALSE
