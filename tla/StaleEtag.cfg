SPECIFICATION Spec
CONSTANTS
    GrpcPort = TRUE
    Tty = TRUE
    Numbers <- EdgeNumbers
    MaxVersion = 2
    MaxGen = 1
    MaxRestarts = 0
    MaxRecords = 5
    BatchSize = 2
    MaxSymbols = 3
    MaxIndex = 2
INVARIANT RevalidationIsFresh
CHECK_DEADLOCK FALSE
