SPECIFICATION MCSpec
CONSTANTS
    Host = {h1}
    FromFile = TRUE
    Start <- MCStart
    Bucket = 3
    MaxGap = 2
    Skew = 0
    Retention = 3
    MaxTime = 4
    MaxEvents = 2
    NginxTime = 8
    NginxEvents = 1
    MaxEpoch = 2
    Switches = FALSE
    StepsBack = TRUE
CHECK_DEADLOCK FALSE
INVARIANTS
    NeverInflated
    CompleteIsCounted
    WindowIsCounted
