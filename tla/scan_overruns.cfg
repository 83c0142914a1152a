SPECIFICATION ScanSpec
CONSTANTS
    Files <- Checked
    Settings <- MCSettings
    TextLength = 1
    Backend = "clamav"
    MaxTries = 2
    MaxBlock = 8
    TableMinRows = 2
    RowsPerBlock = 2
    MaxRows = 3
    MaxPasses = 1
    Pieces = 3
    Window = 2
    Sockets = 1
    StreamLimit = 3
    MaxInput = 5
    MaxBatchSize = 2
    MaxBatchChars = 5
    MaxConcurrent = 2
CHECK_DEADLOCK FALSE
PROPERTY ScanKeepsItsBudget
