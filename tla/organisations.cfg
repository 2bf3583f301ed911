\* A user and an admin, one name, two organisations one after the other.
CONSTANTS
    a1 = a1  h1 = h1  h2 = h2  n1 = n1  u1 = u1  u2 = u2
    Users = {a1, u1}
    Admins = {a1}
    Names = {n1}
    Handlers = {h1, h2}
    MaxOrg = 2
    MaxMishaps = 1
    NULL = NULL
SPECIFICATION Spec
SYMMETRY Symmetry
INVARIANTS
    NothingRefersToTheGone
    TokensKeepTheirOrg
    NewOrgHasFounder
