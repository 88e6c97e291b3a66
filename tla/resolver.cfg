CONSTANTS
    runA = runA
    runB = runB
    runC = runC
    Runs <- MCRuns
    Predictions = {1, 2, 3}
    HorizonOf <- MCHorizonOf
    VenueOf <- MCVenueOf
    InvalidTargets = {3}
    CrossProvider = {2}
    up = up
    down = down
    Labels <- MCLabels
    FetchErrors = {"error_provider_rejected"}
    Limit = 2
    ScanLimit = 2
    StuckFloor = 1
    StuckDivisor = 5
    FreshWindow = 1
    QuarantineMin = 2
    AfterHorizon = 2
    AfterFirst = 1
    BackoffCap = 2
    OutageMin = 2
    ShareOf = 1
    ShareIn = 2
    MaxTime = 2
SPECIFICATION ResolverSpec
SYMMETRY MCSymmetry
INVARIANTS
    StatusIsTrue
PROPERTIES
    VerdictsAreFinal
    AttemptsAreSpaced
CHECK_DEADLOCK FALSE
