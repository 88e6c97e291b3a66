---------------------------- MODULE RadarLedger ----------------------------
(***************************************************************************)
(* The automation ledger of src/crypto_probability_engine/automation/      *)
(* ledger.py: one row per (credential_id, client_request_id), reserved     *)
(* before any analysis and completed once.  Every operation is atomic      *)
(* here; RadarLedgerTxn takes the PostgreSQL transactions apart and        *)
(* implements this module, and RadarRoute is the service that calls it.    *)
(*                                                                         *)
(* Instants are integers of one clock unit.  A reservation carries the     *)
(* instant its request was received, stamped by the application's wall     *)
(* clock before the credential lookup and the body read, so reservations   *)
(* reach the ledger out of the order of their instants.                    *)
(***************************************************************************)
EXTENDS Integers, FiniteSets

CONSTANTS
    Credentials,        \* credential_id of each machine credential
    RequestIds,         \* client_request_id values
    Fingerprints,       \* request fingerprints: symbol, timeframe, deadline
    DeadlineOf,         \* DeadlineOf[fp]: the deadline_ms the fingerprint holds
    Times,              \* the instants a request may be received at
    WindowShort,        \* WINDOW_5MIN
    WindowDay,          \* WINDOW_DAY
    AbandonGrace,       \* ABANDON_GRACE
    MaxQuotaShort,      \* MAX_QUOTA_PER_5MIN
    MaxQuotaDay,        \* MAX_QUOTA_PER_DAY
    RowsPerQuotaUnit,   \* LEDGER_ROWS_PER_QUOTA_UNIT
    RowCap,             \* LEDGER_ROW_CAP
    AnalysisRefusals    \* outcomes of an analysis that yields no evidence

ASSUME LedgerAssumption ==
    /\ DeadlineOf \in [Fingerprints -> Nat]
    /\ Times \subseteq Int
    /\ WindowShort \in Nat /\ WindowDay \in Nat /\ AbandonGrace \in Nat
    /\ MaxQuotaShort \in Nat /\ MaxQuotaDay \in Nat
    /\ RowsPerQuotaUnit \in Nat /\ RowCap \in Nat
    /\ AnalysisRefusals \cap {"NONE", "SUCCEEDED", "QUOTA_EXCEEDED",
                              "CONCURRENCY_LIMIT", "DEADLINE_EXCEEDED"} = {}

VARIABLE rows           \* the table: a function from the recorded keys

-----------------------------------------------------------------------------
Keys == Credentials \X RequestIds
CredentialOf(k) == k[1]

\* Refused before any analysis started: these never count against a quota.
NonCountingOutcomes == {"QUOTA_EXCEEDED", "CONCURRENCY_LIMIT"}

Outcomes == {"SUCCEEDED", "DEADLINE_EXCEEDED"}
                \cup NonCountingOutcomes \cup AnalysisRefusals

\* granted is a history field: the reservation's counts left room under both
\* quotas, so evaluate_quota lets the call go on to the analysis.
Row == [fingerprint : Fingerprints, received : Times,
        state : {"IN_PROGRESS", "COMPLETED"},
        outcome : Outcomes \cup {"NONE"}, granted : BOOLEAN]

NewRow(fp, now, granted) ==
    [fingerprint |-> fp, received |-> now, state |-> "IN_PROGRESS",
     outcome |-> "NONE", granted |-> granted]

\* What the completing UPDATE leaves in the row (_completed in memory).
CompletedRow(row, outcome) ==
    [fingerprint |-> row.fingerprint, received |-> row.received,
     state |-> "COMPLETED", outcome |-> outcome, granted |-> row.granted]

RECORDED == DOMAIN rows

\* Mutant of Counting: the pending rows are lost to SQL's NULL <> ALL(...).
Counting_NullDropped(row) ==
    row.outcome \notin NonCountingOutcomes \cup {"NONE"}

\* A row without an outcome is still counting: the SQL spells out IS NULL
\* because NULL <> ALL(...) would silently drop it.
Counting(row) == row.outcome \notin NonCountingOutcomes

\* The credential's rows of the rolling day, refusals included (rows_day).
\* There is no upper bound: a row received after `now` counts as well.
OwnDay(cred, now) ==
    {k \in RECORDED : /\ CredentialOf(k) = cred
                      /\ rows[k].received > now - WindowDay}

CountedDay(cred, now) == {k \in OwnDay(cred, now) : Counting(rows[k])}

\* In the code a row of the short window is also one of the rolling day.
CountedShort(cred, now) ==
    {k \in CountedDay(cred, now) : rows[k].received > now - WindowShort}

\* Mutant of ClassifyExisting: the grace is counted from the reception.
ClassifyExisting_GraceOnly(row, fp, now) ==
    CASE row.fingerprint # fp -> "CONFLICT"
      [] row.fingerprint = fp /\ row.state = "COMPLETED" -> "REPLAY"
      [] row.fingerprint = fp /\ row.state # "COMPLETED" ->
            IF now >= row.received + AbandonGrace THEN "ABANDONED" ELSE "IN_PROGRESS"

\* What a repeat of an existing key means.
ClassifyExisting(row, fp, now) ==
    CASE row.fingerprint # fp -> "CONFLICT"
      [] row.fingerprint = fp /\ row.state = "COMPLETED" -> "REPLAY"
      [] row.fingerprint = fp /\ row.state # "COMPLETED" ->
            IF now >= row.received + DeadlineOf[row.fingerprint] + AbandonGrace
            THEN "ABANDONED" ELSE "IN_PROGRESS"

\* Mutant of LedgerFull: the cap is tested with > instead of >=.
LedgerFull_OffByOne == Cardinality(RECORDED) > RowCap

LedgerFull == Cardinality(RECORDED) >= RowCap

\* Mutant of Throttled: the ceiling counts only what counts against the quota.
Throttled_CountedOnly(cred, now, quotaDay) ==
    Cardinality(CountedDay(cred, now)) >= RowsPerQuotaUnit * quotaDay

Throttled(cred, now, quotaDay) ==
    Cardinality(OwnDay(cred, now)) >= RowsPerQuotaUnit * quotaDay

\* evaluate_quota on the counts of the reservation.
QuotaAllows(cred, now, quotaShort, quotaDay) ==
    /\ Cardinality(CountedShort(cred, now)) < quotaShort
    /\ Cardinality(CountedDay(cred, now)) < quotaDay

ReserveKind(k, fp, now, quotaDay) ==
    CASE k \in RECORDED -> ClassifyExisting(rows[k], fp, now)
      [] k \notin RECORDED /\ LedgerFull -> "FULL"
      [] k \notin RECORDED /\ ~LedgerFull ->
            IF Throttled(CredentialOf(k), now, quotaDay)
            THEN "THROTTLED" ELSE "NEW"

Insert(k, row) ==
    rows' = [x \in RECORDED \cup {k} |-> IF x = k THEN row ELSE rows[x]]

-----------------------------------------------------------------------------
LedgerInit == rows = [k \in {} |-> NewRow(k, 0, FALSE)]

\* reserve() of a NEW key; every other kind leaves the table as it is.  The
\* counts may be older than the insert (see RadarLedgerTxn), so a grant may be
\* withheld that the rows would allow, but never given against them.
Reserve(k, fp, now, quotaShort, quotaDay) ==
    /\ ReserveKind(k, fp, now, quotaDay) = "NEW"
    /\ \E granted \in BOOLEAN :
        /\ granted => QuotaAllows(CredentialOf(k), now, quotaShort, quotaDay)
        /\ Insert(k, NewRow(fp, now, granted))

\* Mutant of Complete: the UPDATE forgets AND state = 'IN_PROGRESS'.
Complete_Unconditional(k, outcome) ==
    /\ k \in RECORDED
    /\ rows' = [rows EXCEPT ![k] = CompletedRow(rows[k], outcome)]

\* complete() and complete_success(): one UPDATE ... AND state = 'IN_PROGRESS'.
Complete(k, outcome) ==
    /\ k \in RECORDED
    /\ rows[k].state = "IN_PROGRESS"
    /\ rows' = [rows EXCEPT ![k] = CompletedRow(rows[k], outcome)]

\* The quotas are read from the environment on every call, within their bounds
\* and the shorter never above the longer.
QuotaPairs == {q \in (1..MaxQuotaShort) \X (1..MaxQuotaDay) : q[1] <= q[2]}

LedgerNext ==
    \/ \E k \in Keys, fp \in Fingerprints, now \in Times, q \in QuotaPairs :
            Reserve(k, fp, now, q[1], q[2])
    \/ \E k \in Keys, o \in Outcomes : Complete(k, o)

LedgerSpec == LedgerInit /\ [][LedgerNext]_rows

-----------------------------------------------------------------------------
(***************************************************************************)
(* Properties.                                                             *)
(***************************************************************************)

\* Every recorded row has the shape the table's CHECK constraints give it: a
\* pending row has no outcome, and a completed one has one (migration 0013,
\* arl_state_shape).
LedgerTypeOK ==
    /\ RECORDED \subseteq Keys
    /\ IsFiniteSet(RECORDED)
    /\ rows \in [RECORDED -> Row]
    /\ \A k \in RECORDED :
          rows[k].state = "IN_PROGRESS" <=> rows[k].outcome = "NONE"

\* The keys of `cred` received in the window of length `len` opening at `t`.
Received(cred, t, len) ==
    {k \in RECORDED : /\ CredentialOf(k) = cred
                      /\ t <= rows[k].received
                      /\ rows[k].received < t + len}

\* The capacity contract: the ledger never takes a row beyond its cap.
RowCapHolds == Cardinality(RECORDED) <= RowCap

\* The capacity contract: in ANY rolling day, wherever it is placed and in
\* whatever order the reservations arrived, a credential records at most
\* RowsPerQuotaUnit times the largest daily quota, refusals included.
DailyCeilingHolds ==
    \A cred \in Credentials, t \in Times :
        Cardinality(Received(cred, t, WindowDay))
            <= RowsPerQuotaUnit * MaxQuotaDay

\* The keys of the window whose call was let through to an analysis.
Spent(cred, t, len) ==
    {k \in Received(cred, t, len) : rows[k].granted /\ Counting(rows[k])}

\* The quotas: in any rolling 5 minutes, and in any rolling day, the calls that
\* were let through and that count never exceed the largest quota.
QuotaHolds ==
    \A cred \in Credentials, t \in Times :
        /\ WindowShort <= WindowDay =>
              Cardinality(Spent(cred, t, WindowShort)) <= MaxQuotaShort
        /\ Cardinality(Spent(cred, t, WindowDay)) <= MaxQuotaDay

\* Idempotency: no row ever disappears or changes its request, and a completed
\* row never changes again, so every replay of a key is the same answer.
RecordedIsFinal ==
    [][\A k \in RECORDED :
          /\ k \in RECORDED'
          /\ rows'[k].fingerprint = rows[k].fingerprint
          /\ rows'[k].received = rows[k].received
          /\ rows[k].state = "COMPLETED" => rows'[k] = rows[k]]_rows
=============================================================================
