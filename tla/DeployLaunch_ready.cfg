CONSTANTS
    c1 = c1
    c2 = c2
    c3 = c3
    i1 = i1
    i2 = i2
    Calls = {c1, c2, c3}
    InstanceOf <- MCInstanceOf
    Owners = {o1, o2}
    MaxNow = 1
    Ttl = 1
    Absent = Absent
    Torn = Torn
    CtxCmds = {k1, k2}
    Names = {n1, n2}
    Runs = {r1, r2, r3}
    MaxReports = 2
    NumRelays = 2
    GatewayOf <- MCGatewayOf
    RouteCapacity = 2
    MaxPublished = 2
    Launches <- MCLaunches
    MaxProbes = 2
SPECIFICATION MCSpec
SYMMETRY MCSymmetry
CHECK_DEADLOCK FALSE
INVARIANTS ReadyMeansOk
