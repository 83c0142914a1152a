SPECIFICATION Spec
CONSTANTS
    Content = {c1, c2}
    NoContent = NoContent
    IngestJob = {j1, j2, j3}
    DeleteJob = DeleteJob
    MaxTries = 2
    FiguresOn = TRUE
    Budget <- ReplaceBudget
    Faults = {"fault"}
SYMMETRY Symmetry
CHECK_DEADLOCK FALSE
INVARIANTS OriginalKept ActiveServesLastUpload OneJobCarries SupersededCollected
