CONSTANTS
    Buttons = {"X", "L", "R", "Plus"}
    PANEL = 2
    AOM_MAX_TOUCH = 1
    MaxFingers = 2
    BOOST_FRAMES = 2
SPECIFICATION FairSpec
INVARIANTS
    TypeOK
    HeldIsPad
    StrokesReported
    MapOnlyByPlayer
PROPERTIES
    QuitEnds
CHECK_DEADLOCK FALSE
