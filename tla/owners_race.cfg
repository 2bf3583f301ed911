\* Two requests of up to two users each, and two account deletions.
CONSTANTS
    h1 = h1  h2 = h2  n1 = n1  n2 = n2
    Names = {n1, n2}
    Bodies <- TwoUsers
    Handlers = {h1, h2}
    MaxUid = 2
    MaxDeletes = 2
    NULL = NULL
SPECIFICATION Spec
SYMMETRY Symmetry
INVARIANTS
    OwnersHaveAccounts
PROPERTIES
    OwnerlessForGood
