CONSTANTS
    Sources <- SubSources
    Bound <- MCBound
    Programs = {}
    StartPcs = {}
    ByteRange = 4
    Width <- MCWidth
    MaxStack = 64
    MaxDepth = 1
    IntRange = 256
    Literals = {1, 5}
    PlusOps = {"Plus", "Sub"}
    StarOps = {"Star"}
SPECIFICATION CompiledSpec
INVARIANT VariablesRight
CHECK_DEADLOCK FALSE
