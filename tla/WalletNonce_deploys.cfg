CONSTANTS
    Pids = {p1, p2, p3}
    RouteCmds = {r1, r2}
    MaxCredit = 1
    SessionCmds = {c1, c2}
    Developer = developer
    Other = other
    Nobody = nobody
    MaxNow = 2
    Relays = {l1, l2}
    Actors = {a1, a2}
    MaxFileCommands = 3
    Members = {m1, m2}
    Candidates = 2
    ManifestTtl = 2
    CatalogTtl = 1
    MaxStale = 2
    MaxDay = 3
    Deciders = {e1, e2}
    Ranks = {1, 2, 3}
    MaxList = 3
    Grace = 2
    Runway = 1
    MaxSkew = 1
    MaxSources = 2
    MaxInstant = 4
    Peers = {p1}
    Timeout = 2
    Interval = 2
    PollTimeout = 3
    StartAt = 1
    MaxToggles = 3
    MaxMoment = 8
SPECIFICATION MCSpec
SYMMETRY MCSymmetry
CHECK_DEADLOCK FALSE
INVARIANTS
    
    
    
    AuthoritySafe
    ReadinessSafe
PROPERTIES
    RoutesSafe
    SessionsSafe
