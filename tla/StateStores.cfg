SPECIFICATION Spec
CONSTANTS
    Host = {h1, h2}
    Threads = {t1, t2}
    MaxCount = 2
    None = None
PROPERTIES
    ImplementsAtomicMap
