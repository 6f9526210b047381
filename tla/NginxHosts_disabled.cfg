SPECIFICATION Spec
CONSTANTS
    a = a
    b = b
    bad = bad
    None = None
    ProxyHost = {}
    WebHost = {w1}
    StreamHost = {}
    Req = {r1, r2}
    Content <- MCContent
    Bad <- MCBad
    Name <- MCName
    MaxActive = 2
    Overlap = TRUE
    MaxFaults = 0
CHECK_DEADLOCK FALSE
INVARIANTS
    DisabledNotServed
