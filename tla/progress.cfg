SPECIFICATION FairSpec
CONSTANTS
    Content = {c1, c2}
    NoContent = NoContent
    IngestJob = {j1}
    DeleteJob = DeleteJob
    MaxTries = 3
    FiguresOn = FALSE
    Budget <- ProgressBudget
    Faults = {"crash", "fault", "commit", "storage", "broker", "bookkeeping"}
CHECK_DEADLOCK FALSE
PROPERTIES DeletionCompletes IngestionSettles
