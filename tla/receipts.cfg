CONSTANTS
    run1 = run1
    run2 = run2
    run3 = run3
    run4 = run4
    Runs <- MCRuns
    OtherOrigin <- MCOtherOrigin
    RunLimit = 1
    ReceiptLimit = 2
    MaxRequests = 2
SPECIFICATION ReceiptsSpec
SYMMETRY MCSymmetry
INVARIANTS
    ShownKeepsReceipt
    ToldSavedIsStored
PROPERTY SavedIsNotTakenBack
