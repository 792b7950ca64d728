CONSTANTS
    a = a
    b = b
    z = z
    NoFile = NoFile
    Files = {a, b}
    SizeA = 2
    SizeB = 1
    CHUNK = 1
    READ_BLOCK = 1
    WINDOW = 1
    HIGH_WATER = 4
    ACK_EVERY = 1
    Wasm = {TRUE}
    Connections = 1
    Downloads = 4
    Cancels = 2
    Stalls = 0
    Reloads = 0
    Evictions = 0
    Faults = 0
    Size <- MCSize
    Limit <- MCLimit
SPECIFICATION Spec
CHECK_DEADLOCK FALSE
INVARIANTS
    SinkIsPrefix
