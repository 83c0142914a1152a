SPECIFICATION Spec
CONSTANTS
    Turns = {t1, t2}
    NoTurn = NoTurn
    MaxRetries = 1
    SendsOverlap = TRUE
    Faults = {"death", "node", "lock", "unlock", "persist", "broker"}
SYMMETRY Symmetry
CHECK_DEADLOCK FALSE
INVARIANTS TypeOK BoundedTurn
PROPERTIES OwnRelease RerunReplacesWholeAnswer
