CONSTANTS
    Sources <- MCSources
    Bound <- MCBound
    Programs = {}
    StartPcs = {}
    ByteRange = 4
    Width <- MCWidth
    MaxStack = 64
    MaxDepth = 1
    IntRange = 256
    Literals = {1, 5}
    PlusOps = {"Plus"}
    StarOps = {"Star"}
SPECIFICATION CompiledSpec
INVARIANT VariablesRight
PROPERTIES AssignedKept RunsToEnd
CHECK_DEADLOCK FALSE
