CONSTANTS
    Refs = {r1, r2, r3, r4}
    NULL = NULL
    MAX_LOCALS = 3
    MAX_FRAMES = 2
    MaxDepth = 3
    OuterRefs = FALSE
    dialog = dialog
    text = text
    sig = sig
    longsig = longsig
    Methods <- Looked
    Long = {longsig}
    CUT = CUT
    MAX_IDS = 2
    DIALOG = dialog
    Objects = {text}
    Texts = {name}
    EMPTY = EMPTY
SYMMETRY AnyRef
SPECIFICATION UpcallsSpec
INVARIANTS
    TableSound
    CallsReach
PROPERTIES
    ImplementsJniFrames
