CONSTANTS
    MaxRetracts = 1
    Supersedes = TRUE
    Replicas = 2
SPECIFICATION FairDeploySpec
CHECK_DEADLOCK FALSE
INVARIANTS
    SubmitSafe
    DeploySafe
PROPERTIES
    OutcomeFinal
    
