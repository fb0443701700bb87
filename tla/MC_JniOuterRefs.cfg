CONSTANTS
    Refs = {r1, r2, r3, r4}
    NULL = NULL
    MAX_LOCALS = 3
    MAX_FRAMES = 2
    MaxDepth = 2
    OuterRefs = TRUE
SYMMETRY AnyRef
SPECIFICATION SpecBorn
INVARIANT TransientsDontLeak
