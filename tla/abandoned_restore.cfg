CONSTANTS
    p1 = p1
    p2 = p2
    k1 = k1
    i1 = i1
    i2 = i2
    i3 = i3
    sender = sender
    r1 = r1
    w1 = w1
    NoPin = NoPin
    NoId = NoId
    NoWs = NoWs
    Pins = {p1, p2}
    Keys = {k1}
    Watchers = {}
    Sockets = {1, 2, 3}
    Ids = {i1, i2, i3}
    MaxPeers = 1
    Turn = {FALSE}
    Sender = sender
    Receivers = {}
    Connects = 2
    Hurries = 0
    Drops = 1
    Signals = 0
    Reloads = 0
    Others = 0
    Leaves = 0
    EarlyLosses = 1
    Twins = 0
    Networks <- MCNetworks
    Limit <- MCLimit
SPECIFICATION Spec
SYMMETRY MCSymmetry
CHECK_DEADLOCK FALSE
INVARIANTS
    GraceHolds
