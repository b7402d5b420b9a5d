SPECIFICATION MCSpec
CONSTANTS
    s1 = s1
    s2 = s2
    n1 = n1
    n2 = n2
    Sessions = {s1, s2}
    Nonces = {n1, n2}
    Hellos <- MCHellos
    MaxSkew = 1
    MaxClock = 3
    c1 = c1
    c2 = c2
    Calls = {c1, c2}
    Capacity = 1
    MaxAsks = 1
    Parts = {"conn"}
PROPERTY CloseResolves
CHECK_DEADLOCK FALSE
