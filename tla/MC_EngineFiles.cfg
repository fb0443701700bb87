CONSTANTS
    n1 = n1
    n2 = n2
    d = d
    m = m
    Handles = {h1}
    Names = {n1, n2}
    Absolute = {n2}
    Sources <- Files
    Length <- Bytes
    CACHE_MAX = 1
    Counts = {1, 2}
    Offsets <- SeekOffsets
    Paths = {"bgm", "absent"}
    Missing = {"absent"}
    Entries <- FolderEntries
    Beyond = 1
    Written = {n1, d, m}
    Inside <- Tree
    TOP = TOP
    EnginePaths <- PassedPaths
    NULL = NULL
SPECIFICATION FilesSpec
INVARIANTS
    HandlesSound
    NothingLeaks
PROPERTIES
    ImplementsAssetFile
    ImplementsGameFolder
