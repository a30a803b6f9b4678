SPECIFICATION DemandSpec
CONSTANTS
    c1 = c1
    c2 = c2
    o1 = o1
    s1 = s1
    Sockets = {c1, c2}
    Sessions = {s1}
    Openings = {o1}
    SessionOf <- MCSessionOf
    OpeningOf <- MCOpeningOf
    MaxPerSession = 2
    MaxGeneration = 1
    None = None
    Senders = {d1, d2}
    MaxEpoch = 2
    MaxConnection = 2
INVARIANTS
    OwnViewerIsKept
CHECK_DEADLOCK FALSE
