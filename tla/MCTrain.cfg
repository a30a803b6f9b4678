SPECIFICATION MCSpec
CHECK_DEADLOCK FALSE
CONSTANTS
    t1 = t1
    t2 = t2
    g1 = g1
    g2 = g2
    a = a
    b = b
    c = c
    s1 = s1
    s2 = s2
    None = None
    Providers <- MCProviders
    Feeds <- MCFeeds
    Date = 1
    Weekday = 1
    MinTrains = 1
    Importers = {i1, i2}
    Chunks <- MCChunks
    MaxImports = 2
    MaxLate = 1
    Timetables <- MCDays
    Names = {a, b, c}
    CacheID <- MCCacheID
    SpacetimeID <- MCSpacetimeID
    Around = 1
    Ahead = 1
    LastMinute = 4
    MaxDays = 2
    ScheduleDay = 4
    Cutoff = 2
    InitialBackoff = 1
    MaxBackoff = 2
    CleanupInterval = 2
    MaxScheduleTime = 10
    MaxScheduleStarts = 2
    Versions = {v1, v2}
    Readers = {q1, q2}
    MaxPublishes = 3
    Clients = {c1}
    Writers = {w1}
    PageTrains = {t1}
    PageStations = {s1}
    MaxChanges = 1
    MaxSchedules = 2
    MaxRestarts = 1
    Riders = {u1, u2}
    RideTrains = {t1, t2}
    SightingStations = {s1}
    RideStopsOf <- MCRideStopsOf
    RouteOf = {s1}
    Favorites <- MCFavorites
    RideTime = 1
    UndoTime = 1
    MaxRideTime = 1
    MaxRideOps = 2
    MaxReports = 1
    Requests = {q1, q2}
    Users = {u1}
    Subjects = {t1, s1}
    KindOf <- MCKindOf
    Signals = {"started"}
    Cooldown = 2
    Dedupe = 1
    ActionWindow = 2
    ActionLimit = 1
    ChangeWindow = 1
    VoteWindow = 2
    VoteLimit = 2
    CommentWindow = 2
    CommentLimit = 1
    IncidentLimit = 1
    Retention = 3
    MaxAge = 1
    DayLength = 3
    MaxTime = 5
    MaxOps = 4
    Stations = {a, b}
    Trains = {t1, t2}
    StopsOf <- MCStopsOf
    MaxUpdates = 6
    MaxStarts = 2
    Browsers = {b1, b2}
    StateTTL = 1
    AuthMaxAge = 1
    SessionTTL = 2
    Limit = 2
    Window = 2
    TicketTTL = 1
    MaxLoginTime = 2
    MaxNonces = 2
    Torrents = {h1, h2}
    Gone = Gone
INVARIANTS
    ImportedDayIsExact
    StoredDayIsWhole
    
    ScheduleIsServed
    ActiveIsComplete
    
    OneAlertPerRider
    ReportsAreFair
    OldButtonsAreHarmless
    
    ReservationsFit
