SPECIFICATION Spec
CONSTANTS
    v = v
    w = w
    bad = bad
    Rules <- MCRules
    Bad <- MCBad
    List = {l1, l2}
    Host = {h1, h2}
    Req = {r1, r2}
    None = None
    DeleteOverlaps = TRUE
    MaxSaves = 0
    MaxFaults = 0
CHECK_DEADLOCK FALSE
SYMMETRY MCSymmetry
INVARIANT SharedFilesCurrent
