CONSTANTS
    n1 = n1
    n2 = n2
    Names = {n1, n2}
    Files <- OldSaves
    Foreign = {1}
    MaxCrashes = 1
    NONE = NONE
    GAME = GAME
    PARTIAL = PARTIAL
    LANG_EN = 1
    UserFiles <- OldConfig
SPECIFICATION FairStartup
INVARIANTS
    OnlyWholeSaves
    CleanStartMigratesAll
    SettingsKept
PROPERTIES
    ImplementsSaveStore
    StartEnds
