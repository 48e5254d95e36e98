CONSTANTS
    Programs <- MCPrograms
    StartPcs <- MCStartPcs
    ByteRange = 4
    Width <- MCWidth
    MaxStack = 32
    MaxDepth = 3
    MaxLen = 4
    Inputs = {1, 3}
SPECIFICATION FairTestSpec
INVARIANTS TypeOK FrameChain ReturnSites ResultsRight
PROPERTIES CallersKept RunReturns
CHECK_DEADLOCK FALSE
