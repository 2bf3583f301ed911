\* One handler at a time, no CI, two names: what every publish guarantees on its own.
CONSTANTS
    a1 = a1  ch1 = ch1  r1 = r1  s1 = s1  s2 = s2  s3 = s3  t1 = t1  t2 = t2
    u1 = u1
    Users = {u1, a1}
    Admins = {a1}
    Spellings = {s1, s2, s3}
    Lower <- TwoNames
    Channels = {ch1}
    Versions = {1, 2}
    Contents = {t1, t2}
    Infected = {t2}
    ScannerWorks = TRUE
    VerifyChoices = {FALSE}
    OwnedLimit = 1
    Requests = {r1}
    Moderators = {}
    Uploaders = {}
    Slots = {}
    MaxDeletes = 0
    MaxId = 2
    MaxFaults = 0
    NULL = NULL
SPECIFICATION RegistrySpec
SYMMETRY Symmetry
INVARIANTS
    SearchAgreesWithDetail
    StoredBytesMatch
    VersionsComeFromOwners
    QuotaHolds
    
