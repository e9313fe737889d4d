CONSTANTS
    MaxRuns = 4
    Horizon = 2
    Resolvers = {s1, s2}
    MaxHops = 3
    MaxDnsMoves = 2
SPECIFICATION MCSpec
CHECK_DEADLOCK FALSE
INVARIANTS
    RunSafe
    OnceUnlessCut
    HostnamesSafe
PROPERTIES
    
    
    ProbesSettle
