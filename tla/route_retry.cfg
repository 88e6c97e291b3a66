SPECIFICATION Spec
CONSTANTS
    Credentials = {c1}
    RequestIds = {r1}
    Fingerprints = {fpA}
    DeadlineOf <- MCDeadlineOf
    Times <- MCTimes
    WindowShort = 1
    WindowDay = 10
    AbandonGrace = 1
    MaxQuotaShort = 1
    MaxQuotaDay = 1
    RowsPerQuotaUnit = 2
    RowCap = 2
    AnalysisRefusals = {"ANALYSIS_FAILED", "CONTRACT_VIOLATION"}
    Calls = {call1, call2}
    QuotaChoices <- MCQuotaChoices
    MaxConcurrent = 1
    RecordReserve = 1
    MinRecord = 1
    CommitReserve = 1
    MaxSkew = 1
    MaxTime = 4
SYMMETRY Symmetry
INVARIANT SuccessHasEvidence
PROPERTIES SuccessOnTime ClosedOnlyWhenSpent ImplementsLedger KeepsPromise
CHECK_DEADLOCK FALSE
