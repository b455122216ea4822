SPECIFICATION Spec
CONSTANTS
    Tasks = {t1, t2}
    N = 2
    Strategy = "RoundRobin"
    Mitm = TRUE
    Locales = {"fr", "de"}
    LocaleOf <- MCLocaleOf
    NoLocale = NoLocale
    MaxAttempts = 2
    Bodies <- MCBodies
    MaxProfiles = 2
    None = None
INVARIANTS
    PoolTellsTheTruth
    OneEgressIsTold
PROPERTIES
    NeverBackToDenied
    ProfileKeepsEgress
    EverySolveReturns
