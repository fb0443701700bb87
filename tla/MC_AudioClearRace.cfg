CONSTANTS
    EngineThreads = {engine}
    BQ_SLOTS = 3
    FB = 2
    Sizes = {2, 4}
    Frames = 3
    FADE_LEN = 2
    STEP = 3
    ONE = 2
    MaxBuffers = 4
    ClearWhileMixing = TRUE
SPECIFICATION Spec
INVARIANT CurNeedsNoLock
