SPECIFICATION Spec
CONSTANTS
    c1 = c1
    c2 = c2
    a = a
    b = b
    NoThread = NoThread
    Names = {a, b}
    Threads = {c1, c2, w1, w2}
    Workers = {w1, w2}
    Script <- EvictScript
    Faults = {"alloc", "parse", "serialize", "save"}
    InitialDisk <- OnDisk
    InitialMaxBytes = 5
    InitialMaxLoads = 1
    Word = 32
    OverheadBytes = 1
    ArchiveBytes = 2
    InjectedBytes = 3
    PayloadBytes = 4
INVARIANTS CachedBytesExact PayloadNeverUncharged CachedIsCharged SingleFlight
