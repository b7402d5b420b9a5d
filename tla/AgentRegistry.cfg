\* Two frontend sessions, which spawn under a name of their own or that of the first of
\* two pool containers, a pool of one.
CONSTANTS
    s1 = s1
    s2 = s2
    Sessions = {s1, s2}
    Keys = {0, k1}
    TargetSize = 1
    MaxSeq = 1
    MaxAgents = 2
    MaxBoots = 2
    None = None
    k1 = k1
SPECIFICATION Spec
SYMMETRY Symmetry
INVARIANTS WarmExclusive AgentsHaveContainers NoOtherLeak
CHECK_DEADLOCK FALSE
