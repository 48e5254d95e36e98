CONSTANTS
    Sources <- MCSources
    MaxGuards = 2
    IntRange = 512
    MaxLen = 3
SPECIFICATION Spec
INVARIANTS TypeOK CacheCoherent LocRight TokensRead
PROPERTIES NextAdvances IsCursor
CHECK_DEADLOCK FALSE
