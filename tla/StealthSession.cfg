SPECIFICATION Spec
CONSTANTS
    None = None
    Clearance = "cf_clearance"
    Names = {"cf_clearance", "session"}
    Values <- MCValues
    Margin = 1
    Profiles = {p1, p2}
    Egresses = {e1, None}
    Upstream = e1
    SavedJars <- MCSavedJars
    Lifetimes = {None, 0, 2}
    Responses <- MCResponses
    MaxNow = 3
    MaxIssue = 2
INVARIANTS
    OneIdentity
    PolicyHolds
    LearnedAloneIsKept
PROPERTIES
    EveryFetchReturns
