SPECIFICATION Spec
CONSTANTS
    c1 = c1
    c2 = c2
    a = a
    b = b
    NoThread = NoThread
    Names = {a}
    Threads = {c1, c2, w1, w2}
    Workers = {w1, w2}
    Script <- InjectReadUpload
    Faults = {}
    InitialDisk <- NotOnDisk
    InitialMaxBytes = 0
    InitialMaxLoads = 1
    Word = 32
    OverheadBytes = 1
    ArchiveBytes = 2
    InjectedBytes = 3
    PayloadBytes = 4
INVARIANT UploadDropsStale
