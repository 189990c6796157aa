SPECIFICATION Spec
CONSTANTS
    left = left
    right = right
    first = first
    second = second
    Locals <- TwoLocals
    Inner <- OneLocal
    Places <- TheirPlaces
    Tuples <- OneLocal
    Named <- SomePlaces
    Inspected <- UsedPlaces
    MaxAlternatives = 1
    MaxParts = 7
INVARIANTS UsesAreInitialized DroppedExactlyOnce
CHECK_DEADLOCK FALSE
