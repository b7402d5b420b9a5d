\* Two processes under one id, a buffer of two chunks, one chunk per answer;
\* two connections of the gateway.
SPECIFICATION MCSpec
CONSTANTS
    MaxGen = 2
    Plans <- MCPlans
    Retained = 2
    MaxBytes = 1
    None = None
    MaxConn = 2
    Scripts <- MCScripts
    MaxReads = 2
    Disks <- MCDisks
    Trees <- MCTrees
    Targets <- MCTargets
    Fuel = 5
INVARIANTS
    EventsExact
    PollExact
    ResultComplete
    RepliesInOrder
    FetchRight
    ReadsAnswered
    TreeExact
    Footprint
PROPERTIES
    ExitSeen
\* A finished command or a lost connection is the end.
CHECK_DEADLOCK FALSE
