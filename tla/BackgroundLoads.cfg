SPECIFICATION FairSpec
CONSTANTS
    Workers = {w1, w2, w3}
    Clients = {c1, c2}
    Caps = {0, 1, 2}
    InitialMaxLoads = 1
INVARIANTS TypeOK CountersExact NoLostWakeup WakeupsCoverSlots DrainedBeforeTeardown
PROPERTIES QueuedLoadRuns TeardownCompletes ImplementsSlots
