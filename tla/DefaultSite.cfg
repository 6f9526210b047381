SPECIFICATION FairSpec
CONSTANTS
    page = page
    plain = plain
    broken = broken
    Value <- MCValue
    Html = page
    Refused <- MCRefused
    Page = {p1, p2}
    None = None
    Keep = Keep
    Torn = Torn
    Req = {r1, r2}
    MaxFaults = 2
    MaxCrashes = 1
CHECK_DEADLOCK FALSE
INVARIANTS
    SiteMatchesSetting
    ServesStoredOrCandidate
PROPERTIES
    ImplementsAtomicSetting
    EveryUpdateTried
