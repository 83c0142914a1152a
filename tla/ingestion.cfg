SPECIFICATION FairSpec
CONSTANTS
    Files <- MCFiles
    Settings <- MCSettings
    TextLength = 5
    Backend = "clamav"
    MaxTries = 2
    MaxBlock = 8
    TableMinRows = 2
    RowsPerBlock = 2
    MaxRows = 3
    MaxPasses = 1
    Pieces = 1
    Window = 2
    Sockets = 1
    StreamLimit = 1
    MaxInput = 5
    MaxBatchSize = 2
    MaxBatchChars = 5
    MaxConcurrent = 2
CHECK_DEADLOCK FALSE
INVARIANTS OnlyScreened ChunksAreFaithful VectorsFindTheirRows
PROPERTY EveryUploadSettles
