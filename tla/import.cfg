\* Two imports of three stubs beside a publish handler; one fault.
CONSTANTS
    ch1 = ch1  r1 = r1  r2 = r2  s1 = s1  s2 = s2  u1 = u1  u2 = u2
    Users = {u1, u2}
    Admins = {}
    Moderators = {}
    Spellings = {s1, s2}
    Lower <- Plain
    Channels = {ch1}
    Versions = {1, 2}
    Contents = {}
    Infected = {}
    ScannerWorks = TRUE
    VerifyChoices = {FALSE}
    OwnedLimit = 9
    Requests = {r1}
    Uploaders = {}
    Slots = {}
    MaxId = 2
    MaxFaults = 1
    MaxDeletes = 0
    Stubs <- SomeStubs
    ImportChannel = ch1
    Importer = u1
    MaxImports = 2
    Segments <- SomeSegments
    NotANumber = NotANumber
    NULL = NULL
SPECIFICATION ImportSpec
INVARIANTS
    ImportIsComplete
    OwnerlessHasHeir
    SearchFindsPackages
