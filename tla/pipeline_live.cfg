CONSTANTS
    run1 = run1
    run2 = run2
    run3 = run3
    Runs <- MCRuns2
    OtherOrigin <- MCOtherOrigin
    RunLimit = 1
    ReceiptLimit = 1
    MaxRequests = 1
    Workers = 2
    MaxJobs = 2
    UnknownCapacity = 1
    MaxAttempts = 2
SPECIFICATION PipelineLive
PROPERTY EverySaveSettles
CHECK_DEADLOCK FALSE
