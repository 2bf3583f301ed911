\* One publish, up to three images, a deletion, a restart and a failing status write.
CONSTANTS
    c1 = c1  j1 = j1  p1 = p1  p2 = p2  p3 = p3  p4 = p4  p5 = p5
    Jobs = {j1}
    Channels = {c1}
    Platforms = {p1, p2, p3, p4, p5}
    Default = p5
    Images = {p1, p2, p3}
    VerifyImage = FALSE
    RuntimeFound = {TRUE, FALSE}
    MaxDeletes = 1
    MaxRestarts = 1
    MaxDbErrors = 1
    NULL = NULL
SPECIFICATION FairSpec
CHECK_DEADLOCK FALSE
INVARIANTS
    PublicMeansUnanimous
    OneLastTask
PROPERTIES
    RejectedIsFinal
    ImplementsVerdict
    
