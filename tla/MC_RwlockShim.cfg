CONSTANTS
    Producers = {p1}
    Consumers = {c1, c2}
    MaxItems = 2
    ZERO = ZERO
    RECURSIVE_INIT = RECURSIVE_INIT
    NoThread = NoThread
    Initializers = {ZERO, RECURSIVE_INIT}
    SharedFirstUse = FALSE
    SignalAfterUnlock = FALSE
SPECIFICATION FairThreads
INVARIANTS
    MutualExclusion
    WriterAlone
PROPERTIES
    ItemsConsumed
CHECK_DEADLOCK FALSE
