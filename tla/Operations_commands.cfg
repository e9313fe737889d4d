CONSTANTS
    Absent = Absent
    Torn = Torn
    Seeds = {s1, s2}
    BadSeed = bad
    Tokens = {t1}
    MaxSetups = 3
    pr1 = pr1
    pr2 = pr2
    Inventory <- MCInventory
    Sweeps = {w1, w2}
    Limit = 1
    CheckTtl = 1
    ReadyTtl = 1
    MaxTime = 1
    Signers = {k1, k2}
    MaxCommands = 4
    Endpoints = {u1, u2}
    SpecUrl = spec
    MaxRelayCommands = 4
    Procs = {q1, q2}
    MaxVars = 2
    DnsCmds = {d1, d2, d3}
    DnsTargets = {g1, g2}
    Resolvers = {v1, v2}
    MaxRecords = 5
    Attempts = {a1, a2}
    Deploys = {e1, e2}
SPECIFICATION MCSpec
SYMMETRY MCSymmetry
CHECK_DEADLOCK FALSE
INVARIANTS
    GatewaySafe
    
    
    StageSafe
PROPERTIES
    
    BootstrapSafe
    DnsSafe
    CertSafe
