SPECIFICATION Spec
CONSTANTS
    Chunks <- MCChunks
    Meta <- MCMeta
    RrfK = 1
    Unit = 60
    FusionTopK = 2
    MergedTopK = 3
    Query = "question"
    Blank = "blank"
    NotText = "number"
    Cleaned <- MCCleaned
    Cut <- MCCleaned
    Key <- MCCleaned
    MaxSubQueries = 1
    BatchSize = 2
    RerankTopK = 2
    Scale = 1
    MinGroundedness <- MCHalf
    Replies <- MCReplies
    Answers <- MCAnswers
    Rewrite = "rewrite"
    AskerMayRead = {"d1", "d2"}
    Mentioned = {}
    MaxRetries = 1
    ArmDepth = 1
    MaxChanges = 1
    RerankEnabled = TRUE
    Prefetching = TRUE
CHECK_DEADLOCK FALSE
INVARIANTS RankedFaithfully ServedIsGrounded
PROPERTY FreshAtUse
