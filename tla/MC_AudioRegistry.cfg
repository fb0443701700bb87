CONSTANTS
    GameThreads = {t1, t2}
    Creators = {t1}
    Players = {p1, p2, p3}
    MAX_PLAYERS = 2
    HeldCalls = {"enqueue"}
    NULL = NULL
SPECIFICATION FairSpec
INVARIANTS
    TypeOK
    MixedIsAlive
    RegisteredOnce
PROPERTIES
    SilentOnlyWhenFull
    BlocksEnd
CHECK_DEADLOCK FALSE
