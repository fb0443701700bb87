CONSTANTS
    Files <- MC_Files
    Shims = {"s"}
    Heaps <- MC_Heaps
    RESERVE = 16
    PAGE = 2
    BITS = 2
SPECIFICATION LoaderFairSpec
INVARIANTS
    CodeRunsReady
    ImagesApart
    RelrAddsOnce
PROPERTY LoadingEnds
CHECK_DEADLOCK FALSE
