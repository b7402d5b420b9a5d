SPECIFICATION FairSpec
CONSTANTS
    Streams = {s}
    MaxReqs = 2
    MaxGen = 2
    MaxAttempts = 2
    Plans <- MCPlans
INVARIANTS
    NoneLeftWaiting
    ServedInOrder
    DeadlineIsCurrent
    RetryAlive
PROPERTY
    LossSettles
CHECK_DEADLOCK FALSE
