SPECIFICATION Spec
CONSTANTS
    Exec = {1}
    CommandThreads = {c1}
    HoldThreads = {h1}
    ShutdownThreads = {}
    OnFailure = {1}
    CrashLimit = 2
    MaxRevision = 2
    Fuel = 6
INVARIANTS HoldConfirmedQuiet
CHECK_DEADLOCK FALSE
