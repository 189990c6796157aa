SPECIFICATION Spec
CONSTANTS
    c1 = c1
    c2 = c2
    c3 = c3
    k1 = k1
    k2 = k2
    a = a
    b = b
    Compilers = {c1, c2}
    Cleaners = {}
    Artifact = {a, b}
    MaxAttempts = 5
    MaxCrashes = 0
    MaxRefusals = 0
    Unusable = Unusable
    NotDirectory = NotDirectory
    Absent = Absent
PROPERTIES FirstValidWins
CHECK_DEADLOCK FALSE
