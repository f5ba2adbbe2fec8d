SPECIFICATION Spec
CONSTANTS
    MaxLines = 6
    Steps = {s1, s2}
    Symbols = {r10}
    RefDes = {R1, R2}
    MaxPins = 2
    NetCount = 1
    Bytes = {65, 128, 129, 144, 160, 191, 192, 195, 224, 226, 237, 240, 244, 245}
    MaxBytes = 4
INVARIANTS
    RecordsWhole
    SerialisationWhole
    SymbolUnitsResolved
    MatrixWhole
    ArchiveWhole
    DesignExact
    TextIsUtf8
CHECK_DEADLOCK FALSE
