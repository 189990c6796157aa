SPECIFICATION Spec
CONSTANTS
    b1 = b1
    b2 = b2
    b3 = b3
    older = older
    newer = newer
    Builds = {b1, b2}
    Frozen = {}
    Provider = {older, newer}
    InitialSource <- CleanSource
    InitialArchive <- CleanArchive
    MaxAttempts = 4
    MaxCrashes = 0
    IoMayFail = FALSE
    Unusable = Unusable
    NotDirectory = NotDirectory
    Absent = Absent
INVARIANTS CompilesWhatWasVerified
CHECK_DEADLOCK FALSE
