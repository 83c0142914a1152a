SPECIFICATION Spec
CONSTANTS
    Content = {c1, c2}
    NoContent = NoContent
    IngestJob = {j1, j2}
    DeleteJob = DeleteJob
    MaxTries = 2
    FiguresOn = FALSE
    Budget <- DeletionBudget
    Faults = {"crash", "lost", "fault", "commit", "bookkeeping"}
SYMMETRY Symmetry
CHECK_DEADLOCK FALSE
INVARIANTS TypeOK NeverServedAgain DeletedHasNoChunks ServesOneVersion SucceededIsServed
PROPERTY HonoursContract
