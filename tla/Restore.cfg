SPECIFICATION BackupsSpec
CONSTANTS
    Backup = {"b1", "b2", "b3"}
    Ordered = TRUE
    MaxRestores = 2
    HourlyLimit = 1
    DailyLimit = 2
    PerDay = 3
    MaxRevision = 3
INVARIANTS StartRecovers SettledWhenUsed SkippedIsCovered RetentionDebt RestoreLosesNothing
PROPERTY ReplacesAtomically
