CONSTANTS
    a = a
    tick = tick
    tiny = tiny
    shot = shot
    NoTask = NoTask
    Once = {a}
    OneShot = {shot}
    Repeating = {}
    Duration <- MCDuration
    MiliSec = 2
    IntRange = 16
    LongRange = 64
    Lifetime = 4
SPECIFICATION Spec
INVARIANT AllHandlesOwned
CHECK_DEADLOCK FALSE
