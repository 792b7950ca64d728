CONSTANTS
    a = a
    b = b
    z = z
    NoFile = NoFile
    Files = {a}
    SizeA = 2
    SizeB = 1
    CHUNK = 1
    READ_BLOCK = 1
    WINDOW = 1
    HIGH_WATER = 1
    ACK_EVERY = 1
    Wasm = {TRUE}
    Connections = 2
    Downloads = 1
    Cancels = 1
    Stalls = 1
    Reloads = 1
    Evictions = 1
    Faults = 2
    Size <- MCSize
    Limit <- MCLimit
SPECIFICATION Spec
CHECK_DEADLOCK FALSE
INVARIANTS
    VerifiedIsIntact
    SinkIsPrefix
PROPERTIES
    ImplementsDelivery
