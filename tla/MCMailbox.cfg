SPECIFICATION FairSpec
CONSTANTS
    Threads = {p1, p2, p3}
    MaxPublish = 3
CHECK_DEADLOCK FALSE
INVARIANTS
    PublishSucceeds
    SlotIsNewer
PROPERTIES
    NewestArrives
