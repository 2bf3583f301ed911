\* Three concurrent logins, the limits of the code, a tick a minute.
CONSTANTS
    h1 = h1  h2 = h2  h3 = h3
    Handlers = {h1, h2, h3}
    MaxFailures = 5
    FailureWindow <- TenMinutes
    LockoutDuration <- FifteenMinutes
    NULL = NULL
SPECIFICATION FairSpec
INVARIANTS
    GuessesAreBounded
    PassedLockForgets
PROPERTIES
    LockEnds
