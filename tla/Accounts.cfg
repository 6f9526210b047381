SPECIFICATION Spec
CONSTANTS
    Requests = {1, 2, 3}
    SessionLife = 2
    ChallengeLife = 1
    StepLength = 2
    PendingLife = 1
    CodeNumbers = {1}
    MaxTime = 3
    Scenes <- MCScenes
INVARIANTS
    LogoutLasts
    OncePerChallenge
    CodesUsedOnce
    RevocationReaches
    PasswordKept
    SettledFactors
CHECK_DEADLOCK FALSE
