SPECIFICATION Spec
CONSTANTS
    Workload = {1, 2}
    Id <- Ids
    Resource = {"cpu"}
    Claim <- OneClaim
    Worker = {r1, r2}
    Expiring = {"inventory", "processes"}
    ScanFails = FALSE
    Restored = TRUE
    MaxGen = 2
    MaxHold = 0
    MaxEpoch = 1
    Faults = 1
INVARIANTS NoOverlap Serialised RetiredIsDead BarrierQuiet
