SPECIFICATION InputSpec
CONSTANTS
    Selectors <- MCSelectors
    Boxes <- MCBoxes
    ViewHeight = 6
    PageEnd = 8
    Margin = 1
    Notches = {2, 3}
    MaxScroll = 6
    Drift = 1
    PathPoints = 2
    DriftMoves = 1
    Waypoints = {0}
    MaxShifts = 1
    Nothing = Nothing
INVARIANTS
    ClickHits
PROPERTIES
    PressIsAnnounced
    SolverReturns
