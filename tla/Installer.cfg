SPECIFICATION Spec
CONSTANTS
    Role = {"controller", "agent"}
    Selections <- McSelections
    Devices <- McDevices
    InitHost <- McHosts
    MaxRun = 2
    MaxFaults = 3
INVARIANTS InstallerTypeOK OriginalsSurvive
PROPERTIES RollbackIsExact ReplacedAtRest InstalledIsOneVersion UninstallLeavesNothing
CHECK_DEADLOCK FALSE
