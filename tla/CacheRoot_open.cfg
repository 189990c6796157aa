SPECIFICATION Spec
CONSTANTS
    o1 = o1
    o2 = o2
    o3 = o3
    killed = killed
    Openers = {o1, o2, o3}
    Leftover = {killed}
    MaxCrashes = 1
    IoMayFail = TRUE
SYMMETRY Symmetry
INVARIANTS RootTypeOK NoMarkerLeft
PROPERTIES ClaimsOnlyItsOwn OwnedRootOpens
CHECK_DEADLOCK FALSE
