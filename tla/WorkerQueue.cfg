\* One slot for an executor of either lifetime and a persistent coordinator; a crash,
\* an error of the store and cancels of the coordinator.
CONSTANTS
    w1 = w1
    w2 = w2
    Workers = {w1, w2}
    Executors = {w1}
    Lifetimes = {"persistent", "oneshot"}
    Prompted = {w1}
    MaxConcurrent = 1
    Cancellable = {w2}
    Routable = {}
    Early = {}
    Faults = {"crash", "db"}
    MaxBoots = 2
    MaxErrors = 1
SPECIFICATION FairSpec
INVARIANTS
    WorkConserving
PROPERTIES
    SpawnedIsServed
CHECK_DEADLOCK FALSE
