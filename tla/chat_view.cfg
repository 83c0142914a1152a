SPECIFICATION Spec
CONSTANTS
    Chats = {A, B}
    Calls = {t1, t2}
    A = A
    B = B
    Opening <- MCOpening
    NoChat = NoChat
    NoCall = NoCall
    MaxDeltas = 2
    MaxEvents = 3
SYMMETRY Symmetry
CHECK_DEADLOCK FALSE
INVARIANTS ShowsTheTranscript TurnIsOnScreen OneTurnAtATime
