SPECIFICATION LiveSpec
CONSTANTS
    Producers = {p1}
    Capacity = 1
    MaxItems = 1
PROPERTIES
    OwnerUnresponsiveEnds
CHECK_DEADLOCK FALSE
