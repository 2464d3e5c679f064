SPECIFICATION FairSpec
CONSTANTS
    s1 = s1
    s2 = s2
    Sessions = {s1}
    Deadline <- MCDeadline
    MaxClock = 1
    MaxFrames = 4
    MaxCrashes = 2
    MaxFailures = 1
    MaxForeign = 1
    NoSession = NoSession
INVARIANTS
    BytesAreBound
    CapabilitiesMatchDisk
PROPERTIES
    HaltStopsBytes
    DueIsDeleted
