SPECIFICATION Spec
CONSTANTS
    Launches = {l1, l2}
    Handles = {scraper, p1}
    Scraper = scraper
    Profiles <- MCProfiles
    Countries = {"DE", "CA", "XX"}
    None = None
INVARIANTS
    NothingLeftBehind
    ProfileOutlivesBrowser
    EndIsVisible
    OneStory
    LegsTellOneStory
CHECK_DEADLOCK FALSE
