\* Two people, one with an address at the provider, two handlers, a deletion.
CONSTANTS
    h1 = h1  h2 = h2  p1 = p1  p2 = p2
    People = {p1, p2}
    Mailed = {p2}
    Registrants = {p2}
    Handlers = {h1, h2}
    Recycles = FALSE
    MaxUid = 3
    MaxMails = 1
    MaxMishaps = 1
    OAuth = OAuth
    NULL = NULL
SPECIFICATION Spec
SYMMETRY Symmetry
INVARIANTS
    OnlyItsPeopleGetIn
    
    SpentLinksAreDead
    StrayAccountsAreBounded
