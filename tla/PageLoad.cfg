SPECIFICATION Spec
CONSTANTS
    Tasks = {t1, t2}
    Pages = {p1, p2}
    Capacity = 1
    MaxCalls = 2
    MaxDocs = 3
    None = None
SYMMETRY Symmetry
INVARIANTS
    EnablingIsSafe
    NoMissedLoad
    LoadIsOwn
