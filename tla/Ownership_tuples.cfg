SPECIFICATION Spec
CONSTANTS
    left = left
    right = right
    first = first
    second = second
    Locals <- OneLocal
    Inner <- OneLocal
    Places <- ItemPlaces
    Tuples <- OneLocal
    Named <- ItemFields
    Inspected = {}
    MaxAlternatives = 2
    MaxParts = 4
INVARIANT ScopeExitDropsOnce
CHECK_DEADLOCK FALSE
