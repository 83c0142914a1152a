SPECIFICATION FairSpec
CONSTANTS
    Docs = {"d1"}
    Streams = {"s1"}
    StreamLimit = 1
    MaxOthers = 1
    MaxDrops = 1
    Requests = {"q1"}
    NoStream = "no stream"
    NoDocument = "no document"
    MaxAttempts = 1
    MaxOpens = 2
    MaxTurns = 1
CHECK_DEADLOCK FALSE
INVARIANT InStep
PROPERTIES Converges HoldsNothingBack
