SPECIFICATION AllSpec
CONSTANTS
    None = None
    s1 = s1
    s2 = s2
    w1 = w1
    w2 = w2
    chat1 = chat1
    chat2 = chat2
    Tapes = {s1, s2, w1, w2}
    Sessions = {chat1, chat2}
    Clients = {c1, c2, c3}
    Script <- MCScript
    Big = {2, 23}
    Every = 2
    Window = 2
    MaxId = 12
    PageSize = 2
    MaxTasks = 2
    Plans <- MCPlans
SYMMETRY Alike
INVARIANTS
    StoredSound
    FlushExact
    EditsApplied
    PageSound
CHECK_DEADLOCK FALSE
