CONSTANTS
    a = a
    b = b
    NoFile = NoFile
    Files = {a, b}
    SizeA = 3
    SizeB = 0
    CHUNK = 2
    READ_BLOCK = 2
    WINDOW = 1
    HIGH_WATER = 1
    LOW_WATER = 0
    ACK_EVERY = 2
    MaxChannels = 2
    MaxFaults = 1
    LeaveBy = 1
    Size <- MCSize
    Shared <- MCShared
SPECIFICATION FairSpec
CHECK_DEADLOCK FALSE
INVARIANTS
    TypeOK
    OneRunner
    NeverOversleeps
    NoPartLeft
PROPERTIES
    EveryFileEnds
    ServerWindsDown
