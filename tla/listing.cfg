CONSTANTS
    p1 = p1
    p2 = p2
    k1 = k1
    i1 = i1
    i2 = i2
    i3 = i3
    sender = sender
    r1 = r1
    w1 = w1
    NoPin = NoPin
    NoId = NoId
    NoWs = NoWs
    Pins = {p1, p2}
    Keys = {k1}
    Watchers = {w1}
    Sockets = {1, 2}
    Ids = {i1}
    MaxPeers = 1
    Turn = {FALSE}
    Sender = sender
    Receivers = {}
    Connects = 2
    Hurries = 1
    Drops = 1
    Signals = 0
    Reloads = 1
    Others = 1
    Leaves = 0
    EarlyLosses = 0
    Twins = 0
    Networks <- MCNetworks
    Limit <- MCLimit
SPECIFICATION FairSpec
PROPERTIES
    ShareEnds
CHECK_DEADLOCK FALSE
INVARIANTS
    PinShown
    NothingLeftBehind
