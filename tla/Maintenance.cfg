SPECIFICATION AllFairSpec
CONSTANTS
    Hosts = {"proxy", "stream"}
    Requests = {1, 2}
    Installed = 2
    Newest = 3
    Scenes <- MCScenes
    Keys <- MCKeys
INVARIANTS
    OneInitialAdmin
    TokenStays
    FilesCurrent
    SnapshotKept
    UpdateSettles
    RestoreWhole
PROPERTIES
    UpdateEnds
    StartsUp
    KeysHeal
CHECK_DEADLOCK FALSE
