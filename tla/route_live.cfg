SPECIFICATION FairSpec
CONSTANTS
    Credentials = {c1}
    RequestIds = {r1, r2}
    Fingerprints = {fpA, fpB}
    DeadlineOf <- MCDeadlineOf
    Times <- MCTimes
    WindowShort = 1
    WindowDay = 10
    AbandonGrace = 1
    MaxQuotaShort = 2
    MaxQuotaDay = 2
    RowsPerQuotaUnit = 1
    RowCap = 2
    AnalysisRefusals = {"ANALYSIS_FAILED", "CONTRACT_VIOLATION"}
    Calls = {call1, call2}
    QuotaChoices <- MCQuotaChoices
    MaxConcurrent = 1
    RecordReserve = 1
    MinRecord = 1
    CommitReserve = 1
    MaxSkew = 0
    MaxTime = 2
INVARIANT SlotsAddUp
PROPERTY EveryCallAnswered
CHECK_DEADLOCK FALSE
