CONSTANTS
    CREDITS = 3
    highWaterMark = 2
    Chunks = 7
    Platforms <- MCPlatforms
SPECIFICATION FairSpec
CHECK_DEADLOCK FALSE
INVARIANTS
    TypeOK
    CreditsConserved
    BoundedQueue
    CompleteIsWhole
PROPERTIES
    WriteGoesOn
    DoneIsSaved
    OpenSettles
