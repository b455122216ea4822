SPECIFICATION CaptureSpec
CONSTANTS
    Tunnels = {t1, t2}
    Wires <- MCWires
    Sent <- MCSent
    ReadSizes = {4, 60}
    MaxCapture = 70
    RandomLen = 2
    MaxTwoDigitCount = 3
    NoError = NoError
    NoHost = NoHost
    EmptyHash = EmptyHash
    NoHello = NoHello
SYMMETRY TunnelSymmetry
INVARIANTS
    ObservedIsFirstRecord
    BufferIsBounded
    ParsedIsSent
    Ja4NamesTheBrowser
CHECK_DEADLOCK FALSE
