SPECIFICATION BotSpec
CHECK_DEADLOCK FALSE
CONSTANTS
    s1 = s1
    v1 = v1
    v2 = v2
    a1 = a1
    i1 = i1
    i2 = i2
    i3 = i3
    g1 = g1
    g2 = g2
    l1 = l1
    l2 = l2
    None = None
    Torn = Torn
    Targets = {t1}
    PageSize = 1
    MaxPages = 2
    FailureLimit = 2
    MaxBatch = 2
    ChatSizes <- MCChatSizes
    Handlers = {h1, h2}
    Users = {u1}
    Scopes <- MCScopes
    KindOf <- MCKindOf
    PublicID <- MCPublicID
    AliasOf <- MCAliasOf
    Keys = {100}
    Dedupe = 2
    SameVote = 3
    ActionWindow = 3
    ActionLimit = 2
    Lookback = 3
    Retention = 2
    Visibility = 2
    MaxAge = 1
    MaxIncidentTime = 4
    MaxOps = 2
    Enqueuers = {e1, e2}
    Reports = {r1, r2}
    MaxSends = 2
    Feeds = {f1, f2}
    MaxFiles = 2
    MaxFailures = 1
    MaxLiveTime = 4
    LegacyUsers = {u1, u2}
    EventIDs = {1, 2}
    Comments = {m1}
    AreaReports = {r1, r2}
    MaxRepairTime = 5
    MaxRepairStarts = 3
    StopsIn <- MCStopsIn
    RoutesIn <- MCRoutesIn
    GtfsIn <- MCGtfsIn
    Near <- MCNear
    Clients = {c1}
    RefreshAfter = 1
    MaxCatalogStarts = 2
    CatalogSizes <- MCCatalogSizes
    CircuitOpen = 2
    MaxMoment = 4
INVARIANTS
    ChatIsActedOnOnce
    IncidentsAreConsistent
    NoLostWakeup
    ActiveSnapshotExists
    RepairKeepsNewest
    CatalogIsHonest
    FailuresAreShown
