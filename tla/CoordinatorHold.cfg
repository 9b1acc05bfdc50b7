SPECIFICATION Spec
CONSTANTS
    Workload = {1}
    Id <- Ids
    Resource = {"cpu"}
    Claim <- OneClaim
    Worker = {r1}
    Expiring = {}
    ScanFails = TRUE
    Restored = FALSE
    MaxGen = 1
    MaxHold = 2
    MaxEpoch = 2
    Faults = 1
INVARIANT NoLeakedGuard
PROPERTY StartsFollowHold
CHECK_DEADLOCK FALSE
