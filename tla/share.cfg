CONSTANTS
    p1 = p1
    p2 = p2
    k1 = k1
    i1 = i1
    i2 = i2
    i3 = i3
    sender = sender
    r1 = r1
    w1 = w1
    NoPin = NoPin
    NoId = NoId
    NoWs = NoWs
    Pins = {p1, p2}
    Keys = {k1}
    Watchers = {}
    Sockets = {1, 2, 3}
    Ids = {i1, i2, i3}
    MaxPeers = 1
    Turn = {FALSE, TRUE}
    Sender = sender
    Receivers = {r1}
    Connects = 3
    Hurries = 0
    Drops = 1
    Signals = 1
    Reloads = 0
    Others = 0
    Leaves = 1
    EarlyLosses = 0
    Twins = 0
    Networks <- MCNetworks
    Limit <- MCLimit
SPECIFICATION Spec
SYMMETRY MCSymmetry
CHECK_DEADLOCK FALSE
INVARIANTS
    TypeOK
    OneSocketEach
    SenderKnows
    GraceHolds
