SPECIFICATION Spec
CONSTANTS
    GrpcPort = TRUE
    Tty = TRUE
    Numbers <- EdgeNumbers
    MaxVersion = 3
    MaxGen = 2
    MaxRestarts = 1
    MaxRecords = 5
    BatchSize = 2
    MaxSymbols = 3
    MaxIndex = 2
INVARIANTS
    NoThreadOutlivesApp
    ConfigInRange
    StreamExact
    SymbolsAligned
    CleanCopyRevalidates
    PostedIsServed
PROPERTY QuitEnds
CHECK_DEADLOCK FALSE
