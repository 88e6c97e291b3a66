------------------------- MODULE RadarLedgerProofs -------------------------
(* Theorems of RadarLedger for every number of credentials, requests and    *)
(* instants, every window and every quota.                                  *)
EXTENDS RadarLedger, FiniteSetTheorems, TLAPS

\* The daily ceiling at a smaller quota is below the one at the largest.
LEMMA CeilingGrows ==
    ASSUME NEW q \in 1..MaxQuotaDay
    PROVE  RowsPerQuotaUnit * q <= RowsPerQuotaUnit * MaxQuotaDay
<1>1. MaxQuotaDay \in Nat /\ RowsPerQuotaUnit \in Nat
  BY LedgerAssumption
<1>2. \A a, b, c \in Nat : b <= c => a * b <= a * c
  OBVIOUS
<1> QED
  BY <1>1, <1>2

\* Only an unrecorded key, below the cap and the ceiling, is reserved.
LEMMA NewKey ==
    ASSUME NEW k, NEW fp, NEW now, NEW quotaDay,
           ReserveKind(k, fp, now, quotaDay) = "NEW"
    PROVE  /\ k \notin RECORDED
           /\ ~LedgerFull
           /\ ~Throttled(CredentialOf(k), now, quotaDay)
<1>1. CASE k \in RECORDED
  <2>1. ReserveKind(k, fp, now, quotaDay) = ClassifyExisting(rows[k], fp, now)
    BY <1>1 DEF ReserveKind
  <2>2. ClassifyExisting(rows[k], fp, now) # "NEW"
    BY DEF ClassifyExisting
  <2> QED
    BY <2>1, <2>2
<1>2. CASE k \notin RECORDED
  BY <1>2 DEF ReserveKind
<1> QED
  BY <1>1, <1>2

\* What an INSERT does to the table.
LEMMA Inserted ==
    ASSUME NEW k, NEW row, k \notin RECORDED, Insert(k, row)
    PROVE  /\ RECORDED' = RECORDED \cup {k}
           /\ rows'[k] = row
           /\ \A x \in RECORDED : rows'[x] = rows[x]
BY DEF Insert, RECORDED

\* The initial table is empty, so it satisfies every invariant.
LEMMA InitRecorded == LedgerInit => RECORDED = {}
BY DEF LedgerInit, RECORDED

LEMMA InitTypeOK == LedgerInit => LedgerTypeOK
<1> SUFFICES ASSUME LedgerInit PROVE LedgerTypeOK
  OBVIOUS
<1>1. RECORDED = {}
  BY InitRecorded
<1>2. rows \in [RECORDED -> Row]
  BY <1>1 DEF LedgerInit, RECORDED
<1> QED
  BY <1>1, <1>2, FS_EmptySet DEF LedgerTypeOK

LEMMA ReserveTypeOK ==
    ASSUME LedgerTypeOK, NEW k \in Keys, NEW fp \in Fingerprints, NEW now \in Times,
           NEW qs, NEW qd, Reserve(k, fp, now, qs, qd)
    PROVE  LedgerTypeOK'
<1>1. k \notin RECORDED
  BY NewKey DEF Reserve
<1>2. PICK granted \in BOOLEAN : Insert(k, NewRow(fp, now, granted))
  BY DEF Reserve
<1>3. /\ RECORDED' = RECORDED \cup {k}
      /\ rows'[k] = NewRow(fp, now, granted)
      /\ \A x \in RECORDED : rows'[x] = rows[x]
  BY <1>1, <1>2, Inserted
<1>4. NewRow(fp, now, granted) \in Row
  BY DEF NewRow, Row
<1>5. RECORDED' \subseteq Keys /\ IsFiniteSet(RECORDED')
  BY <1>3, FS_AddElement DEF LedgerTypeOK
<1>6. rows' = [x \in RECORDED' |-> rows'[x]]
  BY <1>2 DEF Insert, RECORDED
<1>7. \A x \in RECORDED' : rows'[x] \in Row
  BY <1>3, <1>4 DEF LedgerTypeOK
<1>8. \A x \in RECORDED' :
         rows'[x].state = "IN_PROGRESS" <=> rows'[x].outcome = "NONE"
  BY <1>3 DEF LedgerTypeOK, NewRow
<1>9. rows' \in [RECORDED' -> Row]
  BY <1>6, <1>7
<1> QED
  BY <1>5, <1>8, <1>9 DEF LedgerTypeOK

\* No outcome of the catalogue is the absence of one.
LEMMA NoneIsNoOutcome == "NONE" \notin Outcomes
BY LedgerAssumption DEF Outcomes, NonCountingOutcomes

\* What an UPDATE does to the table.
LEMMA Completed ==
    ASSUME LedgerTypeOK, NEW k \in Keys, NEW o \in Outcomes, Complete(k, o)
    PROVE  /\ RECORDED' = RECORDED
           /\ k \in RECORDED
           /\ rows[k].state = "IN_PROGRESS"
           /\ rows'[k] = CompletedRow(rows[k], o)
           /\ \A x \in RECORDED : x # k => rows'[x] = rows[x]
           /\ rows' \in [RECORDED -> Row]
<1>1. rows \in [RECORDED -> Row] /\ k \in RECORDED
  BY DEF LedgerTypeOK, Complete
<1>2. CompletedRow(rows[k], o) \in Row
  BY <1>1 DEF Row, CompletedRow
<1> QED
  BY <1>1, <1>2 DEF Complete, RECORDED

LEMMA CompleteTypeOK ==
    ASSUME LedgerTypeOK, NEW k \in Keys, NEW o \in Outcomes, Complete(k, o)
    PROVE  LedgerTypeOK'
<1>1. /\ RECORDED' = RECORDED /\ k \in RECORDED
      /\ rows'[k] = CompletedRow(rows[k], o)
      /\ \A x \in RECORDED : x # k => rows'[x] = rows[x]
      /\ rows' \in [RECORDED -> Row]
  BY Completed
<1>2. rows'[k].state = "COMPLETED" /\ rows'[k].outcome # "NONE"
  BY <1>1, NoneIsNoOutcome DEF CompletedRow
<1>3. \A x \in RECORDED' :
         rows'[x].state = "IN_PROGRESS" <=> rows'[x].outcome = "NONE"
  BY <1>1, <1>2 DEF LedgerTypeOK
<1> QED
  BY <1>1, <1>3 DEF LedgerTypeOK

LEMMA StutterRecorded == rows' = rows => RECORDED' = RECORDED
BY DEF RECORDED

LEMMA NextTypeOK == LedgerTypeOK /\ [LedgerNext]_rows => LedgerTypeOK'
<1> SUFFICES ASSUME LedgerTypeOK, [LedgerNext]_rows PROVE LedgerTypeOK'
  OBVIOUS
<1>1. CASE \E k \in Keys, fp \in Fingerprints, now \in Times, q \in QuotaPairs :
              Reserve(k, fp, now, q[1], q[2])
  BY <1>1, ReserveTypeOK
<1>2. CASE \E k \in Keys, o \in Outcomes : Complete(k, o)
  BY <1>2, CompleteTypeOK
<1>3. CASE UNCHANGED rows
  BY <1>3, StutterRecorded DEF LedgerTypeOK
<1> QED
  BY <1>1, <1>2, <1>3 DEF LedgerNext

\* The ledger's rows keep the shape the table's CHECK constraints give them.
THEOREM LedgerTyped == LedgerSpec => []LedgerTypeOK
<1>1. LedgerInit => LedgerTypeOK
  BY InitTypeOK
<1>2. LedgerTypeOK /\ [LedgerNext]_rows => LedgerTypeOK'
  BY NextTypeOK
<1> QED
  BY <1>1, <1>2, PTL DEF LedgerSpec

-----------------------------------------------------------------------------
(***************************************************************************)
(* The capacity contract.  Both bounds are inductive with LedgerTypeOK: the      *)
(* guard of the insert counts every row the bound counts, because a window *)
(* that holds `now` opens after now minus its length.                      *)
(***************************************************************************)

LEMMA ReserveRowCap ==
    ASSUME LedgerTypeOK, RowCapHolds, NEW k, NEW fp, NEW now, NEW qs, NEW qd,
           Reserve(k, fp, now, qs, qd)
    PROVE  RowCapHolds'
<1>1. k \notin RECORDED /\ ~LedgerFull
  BY NewKey DEF Reserve
<1>2. RECORDED' = RECORDED \cup {k}
  BY <1>1, Inserted DEF Reserve
<1>3. IsFiniteSet(RECORDED)
  BY DEF LedgerTypeOK
<1>4. Cardinality(RECORDED') = Cardinality(RECORDED) + 1
  BY <1>1, <1>2, <1>3, FS_AddElement
<1>5. Cardinality(RECORDED) \in Nat /\ RowCap \in Nat
  BY <1>3, FS_CardinalityType, LedgerAssumption
<1> QED
  BY <1>1, <1>4, <1>5 DEF LedgerFull, RowCapHolds

\* The ledger never takes a row beyond its cap.
THEOREM LedgerRowCap == LedgerSpec => []RowCapHolds
<1>1. LedgerInit => RowCapHolds
  BY InitRecorded, FS_EmptySet, LedgerAssumption DEF RowCapHolds
<1>2. LedgerTypeOK /\ RowCapHolds /\ [LedgerNext]_rows => RowCapHolds'
  <2> SUFFICES ASSUME LedgerTypeOK, RowCapHolds, [LedgerNext]_rows PROVE RowCapHolds'
    OBVIOUS
  <2>1. CASE \E k \in Keys, fp \in Fingerprints, now \in Times, q \in QuotaPairs :
                Reserve(k, fp, now, q[1], q[2])
    BY <2>1, ReserveRowCap
  <2>2. CASE \E k \in Keys, o \in Outcomes : Complete(k, o)
    BY <2>2, Completed DEF RowCapHolds
  <2>3. CASE UNCHANGED rows
    BY <2>3, StutterRecorded DEF RowCapHolds
  <2> QED
    BY <2>1, <2>2, <2>3 DEF LedgerNext
<1> QED
  BY <1>1, <1>2, LedgerTyped, PTL DEF LedgerSpec

\* A window's rows are finitely many.
LEMMA WindowsFinite ==
    ASSUME LedgerTypeOK, NEW cred, NEW t, NEW len
    PROVE  /\ IsFiniteSet(Received(cred, t, len))
           /\ IsFiniteSet(OwnDay(cred, t))
           /\ IsFiniteSet(Spent(cred, t, len))
           /\ IsFiniteSet(CountedDay(cred, t))
           /\ IsFiniteSet(CountedShort(cred, t))
<1>1. IsFiniteSet(RECORDED)
  BY DEF LedgerTypeOK
<1>2. /\ Received(cred, t, len) \subseteq RECORDED
      /\ OwnDay(cred, t) \subseteq RECORDED
      /\ Spent(cred, t, len) \subseteq RECORDED
      /\ CountedDay(cred, t) \subseteq RECORDED
      /\ CountedShort(cred, t) \subseteq RECORDED
  BY DEF Received, OwnDay, Spent, CountedDay, CountedShort
<1> QED
  BY <1>1, <1>2, FS_Subset

\* The instant of every recorded row is an integer.
LEMMA ReceivedInt == LedgerTypeOK => \A k \in RECORDED : rows[k].received \in Int
BY LedgerAssumption DEF LedgerTypeOK, Row

\* A window that holds `now` is inside what the reservation at `now` counts.
LEMMA WindowCounted ==
    ASSUME LedgerTypeOK, NEW cred, NEW t \in Times, NEW now \in Times,
           t <= now, now < t + WindowDay
    PROVE  Received(cred, t, WindowDay) \subseteq OwnDay(cred, now)
<1>1. t \in Int /\ now \in Int /\ WindowDay \in Nat
  BY LedgerAssumption
<1>2. ASSUME NEW x \in RECORDED, t <= rows[x].received
      PROVE  rows[x].received > now - WindowDay
  BY <1>1, <1>2, ReceivedInt
<1> QED
  BY <1>2 DEF Received, OwnDay

\* What an insert adds to a window.
LEMMA ReceivedInserted ==
    ASSUME NEW k, NEW row, k \notin RECORDED, Insert(k, row),
           NEW cred, NEW t, NEW len
    PROVE  IF CredentialOf(k) = cred /\ t <= row.received /\ row.received < t + len
           THEN Received(cred, t, len)' = Received(cred, t, len) \cup {k}
           ELSE Received(cred, t, len)' = Received(cred, t, len)
BY Inserted DEF Received

LEMMA ReserveCeiling ==
    ASSUME LedgerTypeOK, DailyCeilingHolds, NEW k \in Keys, NEW fp, NEW now \in Times,
           NEW qs, NEW qd \in 1..MaxQuotaDay, Reserve(k, fp, now, qs, qd)
    PROVE  DailyCeilingHolds'
<1>1. k \notin RECORDED /\ ~Throttled(CredentialOf(k), now, qd)
  BY NewKey DEF Reserve
<1>2. PICK granted \in BOOLEAN : Insert(k, NewRow(fp, now, granted))
  BY DEF Reserve
<1> SUFFICES ASSUME NEW cred \in Credentials, NEW t \in Times
             PROVE  Cardinality(Received(cred, t, WindowDay)')
                        <= RowsPerQuotaUnit * MaxQuotaDay
  BY DEF DailyCeilingHolds
<1> DEFINE W == Received(cred, t, WindowDay)
           inside == CredentialOf(k) = cred /\ t <= now /\ now < t + WindowDay
<1>3. IF inside THEN W' = W \cup {k} ELSE W' = W
  BY <1>1, <1>2, ReceivedInserted DEF NewRow
<1>4. CASE inside
  <2>1. W \subseteq OwnDay(cred, now)
    BY <1>4, WindowCounted
  <2>2. IsFiniteSet(W) /\ IsFiniteSet(OwnDay(cred, now))
    BY WindowsFinite
  <2>3. Cardinality(W) <= Cardinality(OwnDay(cred, now))
    BY <2>1, <2>2, FS_Subset
  <2>4. /\ Cardinality(W) \in Nat /\ Cardinality(OwnDay(cred, now)) \in Nat
        /\ RowsPerQuotaUnit * qd \in Nat
        /\ RowsPerQuotaUnit * MaxQuotaDay \in Nat
    BY <2>2, FS_CardinalityType, LedgerAssumption
  <2>5. Cardinality(OwnDay(cred, now)) < RowsPerQuotaUnit * qd
    BY <1>1, <1>4, <2>4 DEF Throttled
  <2>6. k \notin W
    BY <1>1 DEF Received
  <2>7. Cardinality(W') = Cardinality(W) + 1
    BY <1>3, <1>4, <2>2, <2>6, FS_AddElement
  <2>8. RowsPerQuotaUnit * qd <= RowsPerQuotaUnit * MaxQuotaDay
    BY CeilingGrows
  <2> QED
    BY <2>3, <2>4, <2>5, <2>7, <2>8
<1>5. CASE ~inside
  BY <1>3, <1>5 DEF DailyCeilingHolds
<1> QED
  BY <1>4, <1>5

\* The completing UPDATE moves no row into or out of a window.
LEMMA ReceivedCompleted ==
    ASSUME LedgerTypeOK, NEW k \in Keys, NEW o \in Outcomes, Complete(k, o),
           NEW cred, NEW t, NEW len
    PROVE  Received(cred, t, len)' = Received(cred, t, len)
<1>1. RECORDED' = RECORDED
  BY Completed
<1>2. ASSUME NEW x \in RECORDED PROVE rows'[x].received = rows[x].received
  <2>1. CompletedRow(rows[k], o).received = rows[k].received
    BY DEF CompletedRow
  <2> QED
    BY <2>1, Completed
<1> QED
  BY <1>1, <1>2 DEF Received

LEMMA ReceivedStutter ==
    ASSUME rows' = rows, NEW cred, NEW t, NEW len
    PROVE  /\ Received(cred, t, len)' = Received(cred, t, len)
           /\ Spent(cred, t, len)' = Spent(cred, t, len)
BY StutterRecorded DEF Received, Spent, Counting

\* In any rolling day, wherever it is placed and in whatever order the
\* reservations arrive, a credential's rows stay under its ceiling.
THEOREM LedgerDailyCeiling == LedgerSpec => []DailyCeilingHolds
<1>1. LedgerInit => DailyCeilingHolds
  <2> SUFFICES ASSUME LedgerInit, NEW cred \in Credentials, NEW t \in Times
               PROVE  Cardinality(Received(cred, t, WindowDay))
                          <= RowsPerQuotaUnit * MaxQuotaDay
    BY DEF DailyCeilingHolds
  <2>1. Received(cred, t, WindowDay) = {}
    BY InitRecorded DEF Received
  <2>2. RowsPerQuotaUnit * MaxQuotaDay \in Nat
    BY LedgerAssumption
  <2> QED
    BY <2>1, <2>2, FS_EmptySet
<1>2. LedgerTypeOK /\ DailyCeilingHolds /\ [LedgerNext]_rows => DailyCeilingHolds'
  <2> SUFFICES ASSUME LedgerTypeOK, DailyCeilingHolds, [LedgerNext]_rows
               PROVE  DailyCeilingHolds'
    OBVIOUS
  <2>1. CASE \E k \in Keys, fp \in Fingerprints, now \in Times, q \in QuotaPairs :
                Reserve(k, fp, now, q[1], q[2])
    BY <2>1, ReserveCeiling DEF QuotaPairs
  <2>2. CASE \E k \in Keys, o \in Outcomes : Complete(k, o)
    BY <2>2, ReceivedCompleted DEF DailyCeilingHolds
  <2>3. CASE UNCHANGED rows
    BY <2>3, ReceivedStutter DEF DailyCeilingHolds
  <2> QED
    BY <2>1, <2>2, <2>3 DEF LedgerNext
<1> QED
  BY <1>1, <1>2, LedgerTyped, PTL DEF LedgerSpec

-----------------------------------------------------------------------------
(***************************************************************************)
(* The quotas.                                                             *)
(***************************************************************************)

\* What was let through in a window of length `len` that holds `now` is among
\* what the reservation at `now` counts.
LEMMA SpentCountedDay ==
    ASSUME LedgerTypeOK, NEW cred, NEW t \in Times, NEW now \in Times,
           t <= now, now < t + WindowDay
    PROVE  Spent(cred, t, WindowDay) \subseteq CountedDay(cred, now)
BY WindowCounted DEF Spent, CountedDay

LEMMA SpentCountedShort ==
    ASSUME LedgerTypeOK, NEW cred, NEW t \in Times, NEW now \in Times,
           WindowShort <= WindowDay, t <= now, now < t + WindowShort
    PROVE  Spent(cred, t, WindowShort) \subseteq CountedShort(cred, now)
<1>1. /\ t \in Int /\ now \in Int
      /\ WindowDay \in Nat /\ WindowShort \in Nat
  BY LedgerAssumption
<1>2. ASSUME NEW x \in RECORDED, t <= rows[x].received
      PROVE  /\ rows[x].received > now - WindowShort
             /\ rows[x].received > now - WindowDay
  BY <1>1, <1>2, ReceivedInt
<1> QED
  BY <1>2 DEF Spent, Received, CountedShort, CountedDay, OwnDay

\* What an insert adds to what was let through.
LEMMA SpentInserted ==
    ASSUME NEW k, NEW row, k \notin RECORDED, Insert(k, row),
           NEW cred, NEW t, NEW len
    PROVE  /\ k \notin Spent(cred, t, len)
           /\ Spent(cred, t, len)' = Spent(cred, t, len)
              \/ /\ Spent(cred, t, len)' = Spent(cred, t, len) \cup {k}
                 /\ row.granted /\ CredentialOf(k) = cred
                 /\ t <= row.received /\ row.received < t + len
<1>1. k \notin Spent(cred, t, len)
  BY DEF Spent, Received
<1>2. \A x \in RECORDED : x \in Spent(cred, t, len)' <=> x \in Spent(cred, t, len)
  BY Inserted DEF Spent, Received, Counting
<1>3. /\ Spent(cred, t, len)' \subseteq RECORDED \cup {k}
      /\ Spent(cred, t, len) \subseteq RECORDED
  BY Inserted DEF Spent, Received
<1>4. k \in Spent(cred, t, len)' =>
         /\ row.granted /\ CredentialOf(k) = cred
         /\ t <= row.received /\ row.received < t + len
  BY Inserted DEF Spent, Received
<1> QED
  BY <1>1, <1>2, <1>3, <1>4

\* One more in a window whose count was below its quota.
LEMMA OneMore ==
    ASSUME NEW S, NEW T, NEW k, NEW q \in Nat, NEW m \in Nat, q <= m,
           IsFiniteSet(S), IsFiniteSet(T), S \subseteq T, k \notin S,
           Cardinality(T) < q
    PROVE  Cardinality(S \cup {k}) <= m
<1>1. Cardinality(S) <= Cardinality(T)
  BY FS_Subset
<1>2. Cardinality(S) \in Nat /\ Cardinality(T) \in Nat
  BY FS_CardinalityType
<1>3. Cardinality(S \cup {k}) = Cardinality(S) + 1
  BY FS_AddElement
<1> QED
  BY <1>1, <1>2, <1>3

LEMMA ReserveQuota ==
    ASSUME LedgerTypeOK, QuotaHolds, NEW k \in Keys, NEW fp, NEW now \in Times,
           NEW qs \in 1..MaxQuotaShort, NEW qd \in 1..MaxQuotaDay,
           Reserve(k, fp, now, qs, qd)
    PROVE  QuotaHolds'
<1>1. k \notin RECORDED
  BY NewKey DEF Reserve
<1>2. PICK granted \in BOOLEAN :
         /\ granted => QuotaAllows(CredentialOf(k), now, qs, qd)
         /\ Insert(k, NewRow(fp, now, granted))
  BY DEF Reserve
<1>3. /\ qs \in Nat /\ qs <= MaxQuotaShort /\ MaxQuotaShort \in Nat
      /\ qd \in Nat /\ qd <= MaxQuotaDay /\ MaxQuotaDay \in Nat
  BY LedgerAssumption
<1> SUFFICES ASSUME NEW cred \in Credentials, NEW t \in Times
             PROVE  /\ WindowShort <= WindowDay =>
                         Cardinality(Spent(cred, t, WindowShort)') <= MaxQuotaShort
                    /\ Cardinality(Spent(cred, t, WindowDay)') <= MaxQuotaDay
  BY DEF QuotaHolds
<1>4. ASSUME NEW len
      PROVE  /\ k \notin Spent(cred, t, len)
             /\ Spent(cred, t, len)' = Spent(cred, t, len)
                \/ /\ Spent(cred, t, len)' = Spent(cred, t, len) \cup {k}
                   /\ granted /\ CredentialOf(k) = cred
                   /\ t <= now /\ now < t + len
  BY <1>1, <1>2, SpentInserted DEF NewRow
<1>5. Cardinality(Spent(cred, t, WindowDay)') <= MaxQuotaDay
  <2>1. CASE Spent(cred, t, WindowDay)' = Spent(cred, t, WindowDay)
    BY <2>1 DEF QuotaHolds
  <2>2. CASE /\ Spent(cred, t, WindowDay)' = Spent(cred, t, WindowDay) \cup {k}
             /\ granted /\ CredentialOf(k) = cred
             /\ t <= now /\ now < t + WindowDay
    <3>1. Spent(cred, t, WindowDay) \subseteq CountedDay(cred, now)
      BY <2>2, SpentCountedDay
    <3>2. Cardinality(CountedDay(cred, now)) < qd
      BY <1>2, <2>2 DEF QuotaAllows
    <3>3. IsFiniteSet(Spent(cred, t, WindowDay)) /\ IsFiniteSet(CountedDay(cred, now))
      BY WindowsFinite
    <3> QED
      BY <1>3, <1>4, <2>2, <3>1, <3>2, <3>3, OneMore
  <2> QED
    BY <1>4, <2>1, <2>2
<1>6. ASSUME WindowShort <= WindowDay
      PROVE  Cardinality(Spent(cred, t, WindowShort)') <= MaxQuotaShort
  <2>1. CASE Spent(cred, t, WindowShort)' = Spent(cred, t, WindowShort)
    BY <1>6, <2>1 DEF QuotaHolds
  <2>2. CASE /\ Spent(cred, t, WindowShort)' = Spent(cred, t, WindowShort) \cup {k}
             /\ granted /\ CredentialOf(k) = cred
             /\ t <= now /\ now < t + WindowShort
    <3>1. Spent(cred, t, WindowShort) \subseteq CountedShort(cred, now)
      BY <1>6, <2>2, SpentCountedShort
    <3>2. Cardinality(CountedShort(cred, now)) < qs
      BY <1>2, <2>2 DEF QuotaAllows
    <3>3. IsFiniteSet(Spent(cred, t, WindowShort)) /\ IsFiniteSet(CountedShort(cred, now))
      BY WindowsFinite
    <3> QED
      BY <1>3, <1>4, <2>2, <3>1, <3>2, <3>3, OneMore
  <2> QED
    BY <1>4, <2>1, <2>2
<1> QED
  BY <1>5, <1>6

\* A completion can only give quota back: a pending row already counts.
LEMMA CompleteQuota ==
    ASSUME LedgerTypeOK, QuotaHolds, NEW k \in Keys, NEW o \in Outcomes, Complete(k, o)
    PROVE  QuotaHolds'
<1>1. ASSUME NEW cred, NEW t, NEW len
      PROVE  Spent(cred, t, len)' \subseteq Spent(cred, t, len)
  <2> SUFFICES ASSUME NEW x \in Spent(cred, t, len)'
               PROVE  x \in Spent(cred, t, len)
    OBVIOUS
  <2>1. /\ x \in Received(cred, t, len) /\ x \in RECORDED
        /\ rows'[x].granted /\ Counting(rows'[x])
    BY ReceivedCompleted DEF Spent, Received
  <2>2. CASE x = k
    <3>1. rows[k].state = "IN_PROGRESS" /\ rows'[k] = CompletedRow(rows[k], o)
      BY Completed
    <3>2. CompletedRow(rows[k], o).granted = rows[k].granted
      BY DEF CompletedRow
    <3>3. Counting(rows[k])
      BY <2>1, <2>2, <3>1 DEF LedgerTypeOK, Counting, NonCountingOutcomes
    <3> QED
      BY <2>1, <2>2, <3>1, <3>2, <3>3 DEF Spent
  <2>3. CASE x # k
    BY <2>1, <2>3, Completed DEF Spent
  <2> QED
    BY <2>2, <2>3
<1> SUFFICES ASSUME NEW cred \in Credentials, NEW t \in Times
             PROVE  /\ WindowShort <= WindowDay =>
                         Cardinality(Spent(cred, t, WindowShort)') <= MaxQuotaShort
                    /\ Cardinality(Spent(cred, t, WindowDay)') <= MaxQuotaDay
  BY DEF QuotaHolds
<1>2. ASSUME NEW len
      PROVE  /\ Cardinality(Spent(cred, t, len)') <= Cardinality(Spent(cred, t, len))
             /\ Cardinality(Spent(cred, t, len)') \in Nat
             /\ Cardinality(Spent(cred, t, len)) \in Nat
  <2>1. IsFiniteSet(Spent(cred, t, len))
    BY WindowsFinite
  <2> QED
    BY <1>1, <2>1, FS_Subset, FS_CardinalityType
<1>3. MaxQuotaShort \in Nat /\ MaxQuotaDay \in Nat
  BY LedgerAssumption
<1>4. Cardinality(Spent(cred, t, WindowDay)') <= MaxQuotaDay
  <2>1. Cardinality(Spent(cred, t, WindowDay)) <= MaxQuotaDay
    BY DEF QuotaHolds
  <2> QED
    BY <1>2, <1>3, <2>1
<1>5. ASSUME WindowShort <= WindowDay
      PROVE  Cardinality(Spent(cred, t, WindowShort)') <= MaxQuotaShort
  <2>1. Cardinality(Spent(cred, t, WindowShort)) <= MaxQuotaShort
    BY <1>5 DEF QuotaHolds
  <2> QED
    BY <1>2, <1>3, <2>1
<1> QED
  BY <1>4, <1>5

\* In any rolling 5 minutes and any rolling day, the calls let through that
\* count never exceed the largest quota.
THEOREM LedgerQuota == LedgerSpec => []QuotaHolds
<1>1. LedgerInit => QuotaHolds
  <2> SUFFICES ASSUME LedgerInit, NEW cred \in Credentials, NEW t \in Times
               PROVE  /\ Cardinality(Spent(cred, t, WindowShort)) <= MaxQuotaShort
                      /\ Cardinality(Spent(cred, t, WindowDay)) <= MaxQuotaDay
    BY DEF QuotaHolds
  <2>1. Spent(cred, t, WindowShort) = {} /\ Spent(cred, t, WindowDay) = {}
    BY InitRecorded DEF Spent, Received
  <2>2. MaxQuotaShort \in Nat /\ MaxQuotaDay \in Nat
    BY LedgerAssumption
  <2> QED
    BY <2>1, <2>2, FS_EmptySet
<1>2. LedgerTypeOK /\ QuotaHolds /\ [LedgerNext]_rows => QuotaHolds'
  <2> SUFFICES ASSUME LedgerTypeOK, QuotaHolds, [LedgerNext]_rows PROVE QuotaHolds'
    OBVIOUS
  <2>1. CASE \E k \in Keys, fp \in Fingerprints, now \in Times, q \in QuotaPairs :
                Reserve(k, fp, now, q[1], q[2])
    BY <2>1, ReserveQuota DEF QuotaPairs
  <2>2. CASE \E k \in Keys, o \in Outcomes : Complete(k, o)
    BY <2>2, CompleteQuota
  <2>3. CASE UNCHANGED rows
    BY <2>3, ReceivedStutter DEF QuotaHolds
  <2> QED
    BY <2>1, <2>2, <2>3 DEF LedgerNext
<1> QED
  BY <1>1, <1>2, LedgerTyped, PTL DEF LedgerSpec

-----------------------------------------------------------------------------
\* Idempotency: no row disappears or changes its request, and a completed row
\* never changes again.
THEOREM LedgerFinal == LedgerSpec => RecordedIsFinal
<1> DEFINE Kept == \A k \in RECORDED :
                      /\ k \in RECORDED'
                      /\ rows'[k].fingerprint = rows[k].fingerprint
                      /\ rows'[k].received = rows[k].received
                      /\ rows[k].state = "COMPLETED" => rows'[k] = rows[k]
<1>1. LedgerTypeOK /\ [LedgerNext]_rows => [Kept]_rows
  <2> SUFFICES ASSUME LedgerTypeOK, [LedgerNext]_rows PROVE Kept
    OBVIOUS
  <2>1. CASE \E k \in Keys, fp \in Fingerprints, now \in Times, q \in QuotaPairs :
                Reserve(k, fp, now, q[1], q[2])
    <3>1. PICK k \in Keys, fp \in Fingerprints, now \in Times, q \in QuotaPairs :
                Reserve(k, fp, now, q[1], q[2])
      BY <2>1
    <3>2. k \notin RECORDED
      BY <3>1, NewKey DEF Reserve
    <3>3. PICK row : Insert(k, row)
      BY <3>1 DEF Reserve
    <3> QED
      BY <3>2, <3>3, Inserted
  <2>2. CASE \E k \in Keys, o \in Outcomes : Complete(k, o)
    <3>1. PICK k \in Keys, o \in Outcomes : Complete(k, o)
      BY <2>2
    <3>2. /\ CompletedRow(rows[k], o).fingerprint = rows[k].fingerprint
          /\ CompletedRow(rows[k], o).received = rows[k].received
      BY DEF CompletedRow
    <3> QED
      BY <3>1, <3>2, Completed
  <2>3. CASE UNCHANGED rows
    BY <2>3, StutterRecorded
  <2> QED
    BY <2>1, <2>2, <2>3 DEF LedgerNext
<1> QED
  BY <1>1, LedgerTyped, PTL DEF LedgerSpec, RecordedIsFinal
=============================================================================
