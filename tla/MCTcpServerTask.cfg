CONSTANTS
    None = None
    Peers = {p1, p2}
    Addrs = {h1, h2}
    MaxSend = 2
    Room = 1
    Ticking = TRUE
    Patient = {p1}
SPECIFICATION FairSpec
INVARIANTS TypeOK NoConnectLost IdsFollowConnections AtMostOneAnswer RoutedHome
PROPERTY DataServed
CHECK_DEADLOCK FALSE
