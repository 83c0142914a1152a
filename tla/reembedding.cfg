SPECIFICATION FairSpec
CONSTANTS
    Docs = {"d1"}
    Texts = {"intro", "body", "end"}
    Models = {"m1", "m2"}
    Files <- MCFiles
    Default = "m1"
    NoOverride = "none"
    Runs = {"r1", "r2"}
    MaxVersion = 7
    MaxFlips = 2
    MaxUploads = 1
    MaxFaults = 1
CHECK_DEADLOCK FALSE
INVARIANTS VectorsFit ServesWholeFile
PROPERTY Drained
