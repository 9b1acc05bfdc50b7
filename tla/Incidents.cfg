SPECIFICATION Spec
CONSTANTS
    h1 = h1  d1 = d1  p1 = p1  k1 = k1  f1 = f1  w1 = w1  w2 = w2
    Host = {h1}  Device = {d1}  Pool = {p1}  Wallet = {k1}  Profile = {f1}  WorkloadId = {w1, w2}
    Site = h1
    PoolContent <- McPools
    WalletContent <- McWallets
    ProfileContent <- McProfiles
    Tuning = {}
    WorkloadContent <- McWorks
    Inventory <- McInventory
    InitDB <- McInit
    BlockCode = {"INCOMPATIBLE_HARDWARE"}
    Observed <- McObserved
    Editable = {h1}
    None = None
    MaxRevision = 6
    MaxObservation = 2
INVARIANTS NoOrphanIncident SkippingIsSafe
PROPERTIES PublishedIsCurrent RecoveryNeedsEvidence IncidentsSettle
