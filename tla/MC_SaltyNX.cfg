CONSTANTS
    PAGE = 6
    BLOCK = 2
    ALLOC = 3
    ALIGN = 2
    RETRY = 2
    RING = 1
    SESSIONS = 1
    MaxFrames = 2
SPECIFICATION FairSpec
INVARIANTS
    BlockInPage
    SmRestored
    InactiveAfterExit
PROPERTIES
    TelemetryFollows
    ExitCompletes
CHECK_DEADLOCK FALSE
