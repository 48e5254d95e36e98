CONSTANTS
    a = a
    tick = tick
    tiny = tiny
    shot = shot
    NoTask = NoTask
    Once = {a}
    OneShot = {shot}
    Repeating = {tick, tiny}
    Duration <- MCDuration
    MiliSec = 2
    IntRange = 16
    LongRange = 64
    Lifetime = 4
SPECIFICATION FairSpec
INVARIANTS TypeOK Ownership PopSafe ExactlyOnce NoTickLost HandlesOwned
PROPERTIES FifoOrder EveryTaskStarts KeepsTicking
CHECK_DEADLOCK FALSE
