\* One version with CI, a moderator: publishes, downloads, yanks, gc, a deletion and a fault.
CONSTANTS
    ch1 = ch1  r1 = r1  r2 = r2  s1 = s1  t1 = t1  t2 = t2  u1 = u1  x1 = x1  x2 = x2
    Users = {u1}
    Admins = {}
    Moderators = {u1}
    Spellings = {s1}
    Lower <- Plain
    Channels = {ch1}
    Versions = {1}
    Contents = {t1, t2}
    Infected = {}
    ScannerWorks = TRUE
    VerifyChoices = {TRUE}
    OwnedLimit = 9
    Requests = {r1, r2}
    Uploaders = {}
    Slots = {x1, x2}
    MaxId = 1
    MaxFaults = 1
    MaxDeletes = 1
    NULL = NULL
SPECIFICATION RegistrySpec
SYMMETRY Symmetry
INVARIANTS
    NothingWithoutPackage
    DownloadsAreGenuine
