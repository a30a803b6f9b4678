SPECIFICATION ServicesSpec
CHECK_DEADLOCK FALSE
CONSTANTS
    p1 = p1
    p2 = p2
    Sessions = {p1, p2}
    NoSession = NoSession
    TTL = 2
    MaxSeq = 2
    MaxTime = 3
    Devices = {d1}
    MaxAttempts = 2
    MonitoringSizes <- MCMonitoringSizes
    Users = {u1}
    Requests = {r1, r2}
    CacheAge = 1
    LookupTime = 1
    CookieTTL = 2
    AccessSizes <- MCAccessSizes
    c1 = c1
    c2 = c2
    c3 = c3
    g1 = g1
    g2 = g2
    s1 = s1
    s2 = s2
    Sockets = {c1, c2, c3}
    PageOf <- MCPageOf
    SessionOf <- MCSessionOf
    Slice = 2
    Allowance = 3
    FrameLife = 1
    TrialTime = 3
    MaxSequence = 2
    ProbeLimit = 1
    UncertaintyMax = 1
    MaxAge = 2
    Tolerance = 0
    ForwardAge = 4
    Start = 4
    ClockTime = 6
    MaxConns = 2
    MaxProbes = 2
    MaxWire = 1
    None = None
SYMMETRY Symmetry
INVARIANTS
    ControlIsSound
    MonitoringIsFair
    
    ViewingIsReserved
    
PROPERTIES
    OnlyNewerRenews
