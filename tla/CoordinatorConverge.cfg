SPECIFICATION FairSpec
CONSTANTS
    Workload = {1}
    Id <- Ids
    Resource = {"cpu"}
    Claim <- OneClaim
    Worker = {r1}
    Expiring = {}
    ScanFails = FALSE
    Restored = FALSE
    MaxGen = 2
    MaxHold = 0
    MaxEpoch = 2
    Faults = 0
PROPERTY Converges Retires
