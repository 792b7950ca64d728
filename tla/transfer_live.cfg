CONSTANTS
    a = a
    b = b
    z = z
    NoFile = NoFile
    Files = {a, b}
    SizeA = 5
    SizeB = 0
    CHUNK = 2
    READ_BLOCK = 3
    WINDOW = 2
    HIGH_WATER = 4
    ACK_EVERY = 2
    Wasm = {FALSE, TRUE}
    Connections = 2
    Downloads = 2
    Cancels = 0
    Stalls = 0
    Reloads = 1
    Evictions = 0
    Faults = 0
    Size <- MCSize
    Limit <- MCLimit
SPECIFICATION FairSpec
CHECK_DEADLOCK FALSE
INVARIANTS
    Backpressure
    CheckpointOnDisk
    OneCheckpoint
    VerifiedIsIntact
PROPERTIES
    DownloadsEnd
