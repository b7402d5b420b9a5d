\* Two sessions, four hellos, a window of 2 * 1 seconds; two calls, one request of
\* the agent.
SPECIFICATION MCSpec
CONSTANTS
    s1 = s1
    s2 = s2
    n1 = n1
    n2 = n2
    Sessions = {s1, s2}
    Nonces = {n1, n2}
    Hellos <- MCHellos
    MaxSkew = 1
    MaxClock = 3
    c1 = c1
    c2 = c2
    Calls = {c1, c2}
    Capacity = 1
    MaxAsks = 1
    Parts = {"session", "conn"}
INVARIANTS
    SingleUse
    ServedOnlyAfterHello
    AnswerMatches
    WaitingHasResolver
PROPERTIES
    RegisteredResolves
\* A closed connection is the end.
CHECK_DEADLOCK FALSE
