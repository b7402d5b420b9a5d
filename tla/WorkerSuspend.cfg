\* agent.ts:282: suspend leaves the row in its non-terminal state.
CONSTANTS
    w1 = w1
    w2 = w2
    Workers = {w1}
    Executors = {w1}
    Lifetimes = {"persistent"}
    Prompted = {w1}
    MaxConcurrent = 1
    Cancellable = {}
    Routable = {}
    Early = {}
    Faults = {"shutdown"}
    MaxBoots = 1
    MaxErrors = 0
SPECIFICATION Spec
INVARIANTS
    SuspendKeepsRow
CHECK_DEADLOCK FALSE
