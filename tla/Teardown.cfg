SPECIFICATION Spec
CONSTANTS
    Workers = {w1, w2}
    Clients = {c1}
    Caps = {1}
    InitialMaxLoads = 1
INVARIANT NoMemberOutlived
