SPECIFICATION LedgerSpec
CONSTANTS
    Credentials = {c1}
    RequestIds = {r1, r2, r3, r4, r5}
    Fingerprints = {fpA}
    AnalysisRefusals = {"ANALYSIS_FAILED"}
    DeadlineOf <- MCDeadlineOf
    Times <- MCTimes
    WindowShort = 1
    WindowDay = 2
    AbandonGrace = 1
    MaxQuotaShort = 1
    MaxQuotaDay = 2
    RowsPerQuotaUnit = 2
    RowCap = 9
SYMMETRY Symmetry
INVARIANTS DailyCeilingHolds QuotaHolds
PROPERTY RecordedIsFinal
CHECK_DEADLOCK FALSE
