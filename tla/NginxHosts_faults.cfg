SPECIFICATION Spec
CONSTANTS
    a = a
    b = b
    bad = bad
    None = None
    ProxyHost = {p1}
    WebHost = {w1}
    StreamHost = {}
    Req = {r1, r2}
    Content <- MCContent
    Bad <- MCBad
    Name <- MCName
    MaxActive = 2
    Overlap = FALSE
    MaxFaults = 2
CHECK_DEADLOCK FALSE
SYMMETRY MCSymmetry
INVARIANTS
    SettledConsistent
    SuccessIsConsistent
    ReachIsCurrent
