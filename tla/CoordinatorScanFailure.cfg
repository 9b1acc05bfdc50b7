SPECIFICATION FairSpec
CONSTANTS
    Workload = {1}
    Id <- Ids
    Resource = {"cpu"}
    Claim <- OneClaim
    Worker = {r1}
    Expiring = {}
    ScanFails = TRUE
    Restored = FALSE
    MaxGen = 2
    MaxHold = 0
    MaxEpoch = 1
    Faults = 1
PROPERTY Converges
CHECK_DEADLOCK FALSE
