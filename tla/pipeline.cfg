CONSTANTS
    run1 = run1
    run2 = run2
    run3 = run3
    Runs <- MCRuns3
    OtherOrigin = {}
    RunLimit = 1
    ReceiptLimit = 1
    MaxRequests = 1
    Workers = 2
    MaxJobs = 2
    UnknownCapacity = 1
    MaxAttempts = 2
SPECIFICATION PipelineSpec
SYMMETRY MCSymmetry
INVARIANTS
    NothingIsLeaked
    ReceiptsAreTrue
    ListIsExact
PROPERTY ImplementsReceipts
CHECK_DEADLOCK FALSE
