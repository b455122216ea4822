SPECIFICATION Spec
CONSTANTS
    Conns = {c1, c2, c3}
    Names = {a, b, c, x}
    Valid = {a, b, c}
    MaxCached = 2
    MaxSwaps = 1
    None = None
PROPERTIES
    LeavesAgree
    SwappedOutDrains
    DropEndsEverything
