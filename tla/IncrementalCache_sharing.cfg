SPECIFICATION Spec
CONSTANTS
    c1 = c1
    c2 = c2
    c3 = c3
    k1 = k1
    k2 = k2
    a = a
    b = b
    Compilers = {c1, c2, c3}
    Cleaners = {k1}
    Artifact = {a, b}
    MaxAttempts = 5
    MaxCrashes = 1
    MaxRefusals = 1
    Unusable = Unusable
    NotDirectory = NotDirectory
    Absent = Absent
SYMMETRY Symmetry
INVARIANTS CacheTypeOK NoLitter WinnerRemains RoundsLostToOthers
PROPERTIES OnlyWholeEntriesAppear ImplementsArtifactStore
CHECK_DEADLOCK FALSE
