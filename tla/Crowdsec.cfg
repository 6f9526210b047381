SPECIFICATION HostSpec
CONSTANTS
    Req = {r1, r2}
    Key = {k1, k2}
    NoKey = NoKey
    Page = 1
    Limit = 3
    Fallback = 1
    Overlap = 1
    MaxSteps = 3
    Attack <- MCAttack
    MaxLive = 1
    MaxSessions = 2
    MaxAlerts = 4
    MaxTime = 2
    Batches = 2
    Scenes <- MCScenes
    Caller = {r1, r2}
    Nobody = Nobody
    Addr <- MCAddr
    Junk <- MCJunk
    LogLimit = 3
    Share = 1
    PotScenes <- MCPotScenes
CHECK_DEADLOCK FALSE
INVARIANTS TokensAreCurrent CountedOnce ChangesAudited WaitsForScan RolledBack KnownGoodKept BansKept ObservedOnce
