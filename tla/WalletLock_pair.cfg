\* The two CLI processes of the header comment; owners stay below the age.
CONSTANTS
    Pids = {p1, p2}
    NoPid = NoPid
    NoFile = NoFile
    StaleMs = 2
    MaxWait = 2
    MaxHold = 2
    WriteMayFail = FALSE
SPECIFICATION FairSpec
INVARIANTS
    SubmitWindowSerialized
PROPERTIES
    ImplementsSubmitWindow
    WaitEnds
