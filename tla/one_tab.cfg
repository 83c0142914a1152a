SPECIFICATION Spec
CONSTANTS
    Turns = {t1, t2, t3}
    NoTurn = NoTurn
    MaxRetries = 0
    SendsOverlap = FALSE
    Faults = {"death", "node"}
SYMMETRY Symmetry
CHECK_DEADLOCK FALSE
INVARIANTS RepliesToPreceding ServesOwnQuestion LockFollowsTurn StoresOwnDecision
