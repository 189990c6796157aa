SPECIFICATION Spec
CONSTANTS
    b1 = b1
    b2 = b2
    b3 = b3
    older = older
    newer = newer
    Builds = {b1, b2, b3}
    Frozen = {b3}
    Provider = {older, newer}
    InitialSource <- AnySource
    InitialArchive <- AnyArchive
    MaxAttempts = 2
    MaxCrashes = 1
    IoMayFail = TRUE
    Unusable = Unusable
    NotDirectory = NotDirectory
    Absent = Absent
SYMMETRY Symmetry
INVARIANTS SourceTypeOK NothingLeft SourceRemains OnlineBuildsCompile
PROPERTIES SourcesStay OnlyVerifiedSourcesAppear NeverCompilesDamage
CHECK_DEADLOCK FALSE
