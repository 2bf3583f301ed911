\* Two handlers racing on one package, two users, CI on, a scanner that may fail and a tarball it should report.
CONSTANTS
    u1 = u1  u2 = u2  s1 = s1  ch1 = ch1  t1 = t1  r1 = r1  r2 = r2
    Users = {u1, u2}
    Admins = {}
    Spellings = {s1}
    Lower <- Plain
    Channels = {ch1}
    Versions = {1, 2}
    Contents = {t1}
    Infected = {t1}
    ScannerWorks = FALSE
    VerifyChoices = {TRUE, FALSE}
    OwnedLimit = 1
    Requests = {r1, r2}
    MaxId = 1
    MaxFaults = 1
    NULL = NULL
SPECIFICATION Spec
SYMMETRY Symmetry
INVARIANTS
    
    RowHasBlob
    LatestHasRow
    OrphanHasClaimant
    JobOwnsPendingRow
PROPERTY RowsAreWriteOnce
