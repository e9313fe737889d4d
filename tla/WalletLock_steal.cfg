\* Three well-behaved processes: owners stay below the age, no write fails.
CONSTANTS
    Pids = {p1, p2, p3}
    NoPid = NoPid
    NoFile = NoFile
    StaleMs = 1
    MaxWait = 1
    MaxHold = 1
    WriteMayFail = FALSE
SPECIFICATION Spec
INVARIANTS
    SubmitWindowSerialized
