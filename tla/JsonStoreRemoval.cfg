SPECIFICATION Spec
CONSTANTS
    Host = {h1, h2}
    Threads = {t1, t2}
    Proxy = {}
    Times = {1}
    Cooldown = 2
    MaxCount = 1
    MaxTime = 2
    MaxOps = 3
    None = None
    Unknown = Unknown
    Torn = Torn
INVARIANT RemovalIsDurable
