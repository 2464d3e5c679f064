SPECIFICATION Spec
CONSTANTS
    Producers = {p1, p2}
    Capacity = 1
    MaxItems = 2
INVARIANTS
    ParentsWereAcknowledged
    TerminalAfterEveryReceipt
PROPERTIES
    KeepsPromise
    EveryWaitEnds
CHECK_DEADLOCK FALSE
