\* Two sessions, two connections to one container, two names with one
\* socket path, two registrations;
\* connections of up to four items a side.
SPECIFICATION MCSpec
SYMMETRY Symmetry
CONSTANTS
    s1 = s1
    s2 = s2
    a_b = a_b
    a_slash_b = a_slash_b
    Sessions = {s1, s2}
    Names = {a_b, a_slash_b}
    Path <- MCPath
    MaxAgents = 2
    MaxToken = 2
    None = None
    Dialogs <- MCDialogs
CONSTRAINT OneKind
INVARIANTS
    IndexExact
    ProxiesOwned
    
    RelayExact
\* The bounded requests run out.
CHECK_DEADLOCK FALSE
