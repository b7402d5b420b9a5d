\* One executor of either lifetime; every fault, two process lives.
CONSTANTS
    w1 = w1
    w2 = w2
    Workers = {w1}
    Executors = {w1}
    Lifetimes = {"persistent", "oneshot"}
    Prompted = {}
    MaxConcurrent = 1
    Cancellable = {w1}
    Routable = {w1}
    Early = {"oneshot"}
    Faults = {"crash", "shutdown", "db", "gateway"}
    MaxBoots = 2
    MaxErrors = 2
SPECIFICATION Spec
INVARIANTS
    LiveRowsOwned
    TerminalReleased
    OneRunner
PROPERTIES
    TerminalSticks
CONSTRAINT TwoRunnersOrErrors
CHECK_DEADLOCK FALSE
