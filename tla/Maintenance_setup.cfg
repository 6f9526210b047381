SPECIFICATION AllSpec
CONSTANTS
    Hosts = {"proxy", "stream"}
    Requests = {1, 2}
    Installed = 2
    Newest = 3
    Scenes <- MCFirstStart
    Keys <- MCKeys
INVARIANT
    SetupPossible
CHECK_DEADLOCK FALSE
