\* Three handlers, one of them for the settings, two codes a set, one dropped.
CONSTANTS
    h1 = h1  h2 = h2  h3 = h3
    Handlers = {h1, h2, h3}
    Settings = {h1}
    CodesPerSet = 2
    MaxSecrets = 3
    MaxCodes = 4
    MaxFaults = 1
    NULL = NULL
\* An account whose owner never saw the secret in force and has spent the codes.
CHECK_DEADLOCK FALSE
SPECIFICATION Spec
SYMMETRY Symmetry
INVARIANTS
    CodeUsesAreBounded
    EnabledHasSecret
    UserHoldsTheKeys
