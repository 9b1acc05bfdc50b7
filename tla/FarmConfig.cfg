SPECIFICATION FarmSpec
CONSTANTS
    h1 = h1  h2 = h2  d1 = d1  p1 = p1  k1 = k1  f1 = f1  w1 = w1  w2 = w2
    Host = {h1, h2}  Device = {d1}  Pool = {p1}  Wallet = {k1}  Profile = {f1}  WorkloadId = {w1, w2}
    PoolContent <- McPools
    WalletContent <- McWallets
    ProfileContent <- McProfiles
    Tuning = {"t1", "t2"}
    WorkloadContent <- McWorks
    Inventory <- McInventory
    InitDB <- McInit
    BlockCode = {"INVALID_CONFIG"}
    Editable = {w1, w2, h1, h2}
    None = None
    MaxRevision = 9
INVARIANTS FarmTypeOK ReferencesExist EffectiveIsCurrent ExclusiveClaims BindingsKeepHardware RestoreEndsWithLastBarrier
PROPERTY PlansAreImmutable
