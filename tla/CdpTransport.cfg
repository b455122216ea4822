SPECIFICATION FairSpec
CONSTANTS
    Callers = {c1, c2}
    Cancellable = {c1}
    MaxCalls = 3
    PipeCapacity = 1
    None = None
INVARIANTS
    RepliesReachTheirCalls
    OnlyCancellationTears
PROPERTIES
    ImplementsCalls
    EveryCallReturns
