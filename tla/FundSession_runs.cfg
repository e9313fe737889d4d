CONSTANTS
    Runs = {r1, r2}
    s1 = s1
    s2 = s2
    s3 = s3
    Sessions = {s1, s2, s3}
    AmountOf <- MCAmountOf
    Cap = 1
    Balance = 2
    Odd = {s3}
    None = None
    Absent = Absent
    Torn = Torn
    Doctors = {x1}
    NumHosts = 2
    MaxBoots = 2
SPECIFICATION MCSpec
CHECK_DEADLOCK FALSE
INVARIANTS
    FundSafe
PROPERTIES
    CargoSafe
    
