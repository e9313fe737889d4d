CONSTANTS
    Runs = {r1, r2, r3}
    MaxReports = 2
    Absent = Absent
    Torn = Torn
SPECIFICATION ProjSpec
CHECK_DEADLOCK FALSE
INVARIANT DirHoldsItsRun
