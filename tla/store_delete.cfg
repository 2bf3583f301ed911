\* One name in two channels, an admin who publishes stubs, two slots and a deletion: ids
\* are handed on, and the channels share what is uploaded.
CONSTANTS
    ch1 = ch1  ch2 = ch2  r1 = r1  r2 = r2  s1 = s1  u1 = u1  x1 = x1  x2 = x2
    Users = {u1}
    Admins = {u1}
    Moderators = {}
    Uploaders = {u1}
    Spellings = {s1}
    Lower <- Plain
    Channels = {ch1, ch2}
    Versions = {1}
    Contents = {}
    Infected = {}
    ScannerWorks = TRUE
    VerifyChoices = {FALSE}
    OwnedLimit = 9
    Requests = {r1, r2}
    Slots = {x1, x2}
    MaxId = 2
    MaxFaults = 0
    MaxDeletes = 1
    NULL = NULL
SPECIFICATION RegistrySpec
SYMMETRY Symmetry
INVARIANTS
    OrphanHasHeir
    
