SPECIFICATION TxnSpec
CONSTANTS
    Credentials = {c1, c2}
    RequestIds = {r1}
    Fingerprints = {fpA}
    AnalysisRefusals = {"ANALYSIS_FAILED"}
    DeadlineOf <- MCDeadlineOf
    Times <- MCTimes
    WindowShort = 1
    WindowDay = 2
    AbandonGrace = 0
    MaxQuotaShort = 1
    MaxQuotaDay = 1
    RowsPerQuotaUnit = 1
    RowCap = 1
    Callers = {s1, s2, s3}
    Nobody = Nobody
    MaxClock = 1
SYMMETRY Symmetry
INVARIANTS RepliesAreTrue WaitsEnd RowCapHolds
PROPERTY ImplementsLedger
CHECK_DEADLOCK FALSE
