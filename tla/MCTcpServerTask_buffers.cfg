CONSTANTS
    None = None
    Peers = {p1}
    Addrs = {h1}
    MaxSend = 2
    Room = 1
    Ticking = FALSE
    Patient = {}
SPECIFICATION Spec
INVARIANT BuffersOutliveWrites
CHECK_DEADLOCK FALSE
