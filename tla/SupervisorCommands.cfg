SPECIFICATION FairSpec
CONSTANTS
    Exec = {1}
    CommandThreads = {c1}
    HoldThreads = {}
    ShutdownThreads = {s1}
    OnFailure = {1}
    CrashLimit = 3
    MaxRevision = 0
    Fuel = 7
INVARIANTS TypeOK OneProcess TerminalMeansDead ShutdownQuiet GenerationStartsOnce
PROPERTIES StopReturns BackoffEnds
CHECK_DEADLOCK FALSE
