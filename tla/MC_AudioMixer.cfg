CONSTANTS
    EngineThreads = {engine}
    BQ_SLOTS = 3
    FB = 2
    Sizes = {0, 3, 4}
    Frames = 3
    FADE_LEN = 2
    STEP = 3
    ONE = 2
    MaxBuffers = 4
    ClearWhileMixing = FALSE
SPECIFICATION FairSpec
INVARIANTS
    TypeOK
    ReadsInBounds
    ClearedNeverRead
    CountIsOutstanding
PROPERTIES
    ImplementsBufferQueue
    EveryBufferEnds
