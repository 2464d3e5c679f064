SPECIFICATION Spec
CONSTANTS
    Sources = {s1, s2}
    MaxRaw = 2
    MaxEpoch = 1
INVARIANTS
    TypeOK
    StateIsReplayOfJournal
    NoOrphanRawWhileUsable
    CleanJournalReplaysExactly
PROPERTIES
    NothingAfterUncertainBytes
    DenialLatches
    FailureCloses
CHECK_DEADLOCK FALSE
