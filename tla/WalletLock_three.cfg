\* The lock: three processes, owners that overstay, writes that fail.  The
\* choice of a processor, the requests and the choice of a relay end.
CONSTANTS
    Pids = {p1, p2, p3}
    NoPid = NoPid
    NoFile = NoFile
    StaleMs = 1
    MaxWait = 1
    MaxHold = 3
    WriteMayFail = TRUE
    pr1 = pr1
    pr2 = pr2
    Managed <- MCManaged
    Pickers = {k1}
    Bookings = {b1}
    PickAge = 0
    PickDelay = 1
    PickLength = 2
    MaxBeats = 1
    Calls = {c1}
    SignedRetries = 2
    MaxSeconds = 9
    MaxOutages = 2
    ControlRelays = {r1, r2}
    MaxTurns = 2
    g1 = g1
    g2 = g2
    m1 = m1
    m2 = m2
    Capables = {g1, g2}
    CapableProcs = {pr1, pr2}
    CapableManagers = {m1, m2}
    ScopeLists <- MCScopeLists
    Profiles <- MCProfiles
    ReportLife = 2
    MaxMoments = 2
    MaxSigned = 2
SPECIFICATION MCSpec
SYMMETRY PidSymmetry
CHECK_DEADLOCK FALSE
INVARIANTS
    LockSafe
    ChoiceSafe
    CallsSafe
    WritableSafe
    CapabilitySafe
