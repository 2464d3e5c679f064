SPECIFICATION Spec
CONSTANTS
    SessionLimit = 2
    AccessLimit = 3
    MaxRuns = 3
    MaxCommands = 2
    MaxFaults = 2
CHECK_DEADLOCK FALSE
INVARIANTS
    QuotaIsNotRefunded
    CrashesRecover
