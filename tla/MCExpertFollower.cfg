SPECIFICATION Spec
CONSTANTS
    MaxParents = 3
    Capacity = 2
    MaxCrashes = 2
INVARIANT CompanionFollowsEvidence
PROPERTIES
    FollowsPromise
    FailureErases
CHECK_DEADLOCK FALSE
