CONSTANTS
    MAX_ICE_RESTARTS = 3
    MAX_RESTARTS = 4
    NoticedBy = 3
    Faults = 2
SPECIFICATION FairSpec
CHECK_DEADLOCK FALSE
INVARIANTS
    TypeOK
    OneFaultIsSurvived
PROPERTIES
    Recovers
    GoneIsSettled
    BothShowIt
    DropsDoNotDisturb
