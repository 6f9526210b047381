SPECIFICATION MCSpec
CONSTANTS
    v = v
    w = w
    bad = bad
    Rules <- MCRules
    Bad <- MCBad
    List = {l1, l2}
    Host = {h1, h2}
    Req = {r1, r2}
    None = None
    DeleteOverlaps = FALSE
    MaxSaves = 1
    MaxFaults = 1
CHECK_DEADLOCK FALSE
INVARIANTS FilesMatchRows
PROPERTIES CommitAfterReload EveryRequestAnswered
