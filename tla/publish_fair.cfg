\* Stubs, three versions, no faults, fair scheduling: strangers are few, packages get owners.
CONSTANTS
    ch1 = ch1  r1 = r1  r2 = r2  s1 = s1  u1 = u1  u2 = u2
    Users = {u1, u2}
    Admins = {}
    Spellings = {s1}
    Lower <- Plain
    Channels = {ch1}
    Versions = {1, 2, 3}
    Contents = {}
    Infected = {}
    ScannerWorks = TRUE
    VerifyChoices = {FALSE}
    OwnedLimit = 1
    Requests = {r1, r2}
    MaxId = 1
    MaxFaults = 0
    NULL = NULL
SPECIFICATION FairSpec
INVARIANTS
    StrangersAreBounded
PROPERTIES
    PackageGetsOwner
