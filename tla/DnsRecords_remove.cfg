CONSTANTS
    Absent = Absent
    Torn = Torn
    DnsCmds = {d1, d2}
    DnsTargets = {g1, g2}
    Resolvers = {v1, v2}
    MaxRecords = 5
SPECIFICATION DnsSpec
CHECK_DEADLOCK FALSE
INVARIANTS NoneMeansNone
