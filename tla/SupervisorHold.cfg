SPECIFICATION Spec
CONSTANTS
    Exec = {1, 2}
    CommandThreads = {c1}
    HoldThreads = {h1}
    ShutdownThreads = {}
    OnFailure = {}
    CrashLimit = 2
    MaxRevision = 2
    Fuel = 4
INVARIANTS HoldConfirmedQuiet
CHECK_DEADLOCK FALSE
