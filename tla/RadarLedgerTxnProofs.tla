------------------------ MODULE RadarLedgerTxnProofs ------------------------
(* Theorems of RadarLedgerTxn for every number of callers, keys and quotas: *)
(* the transactions implement the atomic ledger, tell the truth and end.    *)
EXTENDS RadarLedgerTxn, RadarLedgerProofs

-----------------------------------------------------------------------------
(***************************************************************************)
(* The inductive invariant.  Locking: the advisory lock belongs to the one *)
(* caller past pg_advisory_xact_lock, a row's lock to the completion that  *)
(* has written it.  Counts: what a reservation has read is still good when *)
(* it inserts, since nobody else can insert and a completion only takes    *)
(* away from the counts.  Owning: who may complete a key has a row, and    *)
(* who has written it holds a pending one.                                 *)
(***************************************************************************)
Locking ==
    \A c \in Callers :
        /\ phase[c] \in Reserving \ {"lock"} <=> lock = c
        /\ phase[c] = "written" => rowLock[Key(c)] = c
        /\ \A k \in Keys : rowLock[k] = c => Key(c) = k /\ phase[c] \in {"commit", "written"}

\* A reservation of a key that has no row.
Fresh(c) == phase[c] \in {"count", "total", "insert"}
               \/ (phase[c] = "commit" /\ kind[c] = "NEW")

Room(c) ==
    LET cred == CredentialOf(Key(c))
        now == ask[c].received
        q == ask[c].quota
    IN  /\ ~Throttled(cred, now, q[2])
        /\ grant[c] => QuotaAllows(cred, now, q[1], q[2])

Counts(c) ==
    /\ Fresh(c) => Key(c) \notin RECORDED
    /\ phase[c] \in {"total", "insert", "commit"} /\ kind[c] = "NEW" => Room(c)
    /\ phase[c] = "total" => kind[c] \in {"NEW", "THROTTLED"}
    /\ phase[c] = "insert" => kind[c] = "NEW" /\ ~LedgerFull
    /\ phase[c] = "commit" /\ kind[c] = "NEW" => ~LedgerFull
    /\ phase[c] = "commit" /\ kind[c] = "ABANDONED" => Key(c) \in RECORDED

Owning(c) ==
    /\ phase[c] = "reserved" => kind[c] \in {"NEW", "ABANDONED"}
    /\ phase[c] \in Completing \cup {"reserved"} => Key(c) \in RECORDED
    /\ phase[c] \in Completing => write[c] \in Outcomes
    /\ phase[c] = "written" => rows[Key(c)].state = "IN_PROGRESS"

Telling(c) ==
    /\ phase[c] = "idle" => reply[c] = "none"
    /\ reply[c] \in Outcomes => Key(c) \in RECORDED

TxnInv ==
    /\ TxnTypeOK /\ Locking
    /\ \A c \in Callers : Counts(c) /\ Owning(c) /\ Telling(c)
    /\ RepliesAreTrue

-----------------------------------------------------------------------------
(* What a step is, and what it leaves alone. *)

\* A step of the caller c.
Act(c) ==
    \/ \E k \in Keys, fp \in Fingerprints, now \in Times, q \in QuotaPairs :
          Begin(c, k, fp, now, q)
    \/ \E o \in Outcomes, at \in Times : Finish(c, o, at)
    \/ Statement(c) \/ Fail(c) \/ Disconnect(c) \/ ServerAbort(c)

LEMMA NextActs ==
    [TxnNext]_vars => (\E c \in Callers : Act(c)) \/ Tick \/ UNCHANGED vars
BY DEF TxnNext, Act

\* A step of c changes only what is c's.
Others(c) ==
    \A d \in Callers \ {c} :
        /\ phase'[d] = phase[d] /\ ask'[d] = ask[d] /\ kind'[d] = kind[d]
        /\ grant'[d] = grant[d] /\ write'[d] = write[d] /\ reply'[d] = reply[d]

\* The table changes by the commits alone.
TableStep(c) ==
    \/ rows' = rows
    \/ phase[c] = "commit" /\ kind[c] = "NEW" /\ CommitReserve(c)
    \/ phase[c] = "written" /\ CommitUpdate(c)

LEMMA Frame ==
    ASSUME TxnTypeOK, NEW c \in Callers, Act(c)
    PROVE  Others(c) /\ TableStep(c)
<1> USE DEF Others, TableStep, TxnTypeOK, Goto, Hear, Listening
<1>1. ASSUME NEW k \in Keys, NEW fp \in Fingerprints, NEW now \in Times,
             NEW q \in QuotaPairs, Begin(c, k, fp, now, q)
      PROVE  Others(c) /\ TableStep(c)
  BY <1>1 DEF Begin, read
<1>2. ASSUME NEW o \in Outcomes, NEW at \in Times, Finish(c, o, at)
      PROVE  Others(c) /\ TableStep(c)
  BY <1>2 DEF Finish, read
<1>3. ASSUME TakeLock(c) \/ InsertRow(c) PROVE Others(c) /\ TableStep(c)
  BY <1>3 DEF TakeLock, InsertRow, asked, read
<1>4. ASSUME SelectForUpdate(c) PROVE Others(c) /\ TableStep(c)
  BY <1>4 DEF SelectForUpdate, asked
<1>5. ASSUME CountRows(c) \/ CountTotal(c) PROVE Others(c) /\ TableStep(c)
  BY <1>5 DEF CountRows, CountTotal, asked
<1>6. ASSUME CommitReserve(c) PROVE Others(c) /\ TableStep(c)
  BY <1>6 DEF CommitReserve, asked, read
<1>7. ASSUME CommitUpdate(c) PROVE Others(c) /\ TableStep(c)
  BY <1>7 DEF CommitUpdate, asked, read
<1>8. ASSUME Update(c) \/ UpdateAfterWait(c) PROVE Others(c) /\ TableStep(c)
  BY <1>8 DEF Update, UpdateAfterWait, LockRow, NoRow, read
<1>9. ASSUME Fail(c) \/ Disconnect(c) \/ ServerAbort(c) PROVE Others(c) /\ TableStep(c)
  BY <1>9 DEF Fail, Disconnect, ServerAbort, asked, read
<1> QED
  BY <1>1, <1>2, <1>3, <1>4, <1>5, <1>6, <1>7, <1>8, <1>9 DEF Act, Statement

\* The commits are the two operations of the atomic ledger.
LEMMA CommitInserts ==
    ASSUME TxnInv, NEW c \in Callers, phase[c] = "commit", kind[c] = "NEW", CommitReserve(c)
    PROVE  /\ Key(c) \in Keys /\ Key(c) \notin RECORDED
           /\ Reserve(Key(c), ask[c].fp, ask[c].received, ask[c].quota[1], ask[c].quota[2])
           /\ Insert(Key(c), NewRow(ask[c].fp, ask[c].received, grant[c]))
           /\ ask[c].fp \in Fingerprints /\ ask[c].received \in Times
           /\ ask[c].quota \in QuotaPairs
<1>1. ask[c] \in Ask
  BY DEF TxnInv, TxnTypeOK
<1>2. /\ Key(c) \in Keys /\ ask[c].fp \in Fingerprints /\ ask[c].received \in Times
      /\ ask[c].quota \in QuotaPairs
  BY <1>1 DEF Ask, Key
<1>3. Key(c) \notin RECORDED /\ ~LedgerFull /\ Room(c)
  BY DEF TxnInv, Counts, Fresh
<1>4. ReserveKind(Key(c), ask[c].fp, ask[c].received, ask[c].quota[2]) = "NEW"
  BY <1>3 DEF ReserveKind, Room
<1>5. Insert(Key(c), NewRow(ask[c].fp, ask[c].received, grant[c]))
  BY DEF CommitReserve
<1>6. grant[c] \in BOOLEAN
  BY DEF TxnInv, TxnTypeOK
<1> QED
  BY <1>2, <1>3, <1>4, <1>5, <1>6 DEF Reserve, Room

LEMMA CommitCompletes ==
    ASSUME TxnInv, NEW c \in Callers, phase[c] = "written", CommitUpdate(c)
    PROVE  /\ Key(c) \in Keys /\ Key(c) \in RECORDED
           /\ write[c] \in Outcomes
           /\ Complete(Key(c), write[c])
<1>1. Key(c) \in RECORDED /\ rows[Key(c)].state = "IN_PROGRESS" /\ write[c] \in Outcomes
  BY DEF TxnInv, Owning, Completing
<1> QED
  BY <1>1 DEF TxnInv, TxnTypeOK, LedgerTypeOK, CommitUpdate, Complete

\* What a completion leaves alone of the table.
LEMMA CompletionKeeps ==
    ASSUME LedgerTypeOK, NEW k \in Keys, NEW o \in Outcomes, Complete(k, o)
    PROVE  /\ RECORDED' = RECORDED
           /\ LedgerFull' = LedgerFull
           /\ \A x \in RECORDED : /\ rows'[x].fingerprint = rows[x].fingerprint
                                  /\ rows'[x].received = rows[x].received
                                  /\ Counting(rows'[x]) => Counting(rows[x])
<1>1. /\ RECORDED' = RECORDED /\ k \in RECORDED
      /\ rows[k].state = "IN_PROGRESS"
      /\ rows'[k] = CompletedRow(rows[k], o)
      /\ \A x \in RECORDED : x # k => rows'[x] = rows[x]
  BY Completed
<1>2. Counting(rows[k])
  <2>1. rows[k].outcome = "NONE"
    BY <1>1 DEF LedgerTypeOK
  <2> QED
    BY <2>1 DEF Counting, NonCountingOutcomes
<1>3. LedgerFull' = LedgerFull
  BY <1>1 DEF LedgerFull
<1> QED
  BY <1>1, <1>2, <1>3 DEF CompletedRow

\* It only takes away from what is counted.
LEMMA CompletionCounts ==
    ASSUME LedgerTypeOK, NEW k \in Keys, NEW o \in Outcomes, Complete(k, o),
           NEW cred, NEW now, NEW qs \in Nat, NEW qd \in Nat
    PROVE  /\ Throttled(cred, now, qd)' = Throttled(cred, now, qd)
           /\ QuotaAllows(cred, now, qs, qd) => QuotaAllows(cred, now, qs, qd)'
<1>1. RECORDED' = RECORDED
      /\ \A x \in RECORDED : /\ rows'[x].received = rows[x].received
                             /\ Counting(rows'[x]) => Counting(rows[x])
  BY CompletionKeeps
<1>2. OwnDay(cred, now)' = OwnDay(cred, now)
  BY <1>1 DEF OwnDay
<1>3. CountedDay(cred, now)' \subseteq CountedDay(cred, now)
  BY <1>1, <1>2 DEF CountedDay, OwnDay
<1>4. CountedShort(cred, now)' \subseteq CountedShort(cred, now)
  BY <1>1, <1>3 DEF CountedShort, CountedDay, OwnDay
<1>5. IsFiniteSet(CountedDay(cred, now)) /\ IsFiniteSet(CountedShort(cred, now))
  BY WindowsFinite
<1>6. /\ Cardinality(CountedDay(cred, now)') \in Nat
      /\ Cardinality(CountedDay(cred, now)') <= Cardinality(CountedDay(cred, now))
      /\ Cardinality(CountedShort(cred, now)') \in Nat
      /\ Cardinality(CountedShort(cred, now)') <= Cardinality(CountedShort(cred, now))
      /\ Cardinality(CountedDay(cred, now)) \in Nat
      /\ Cardinality(CountedShort(cred, now)) \in Nat
  BY <1>3, <1>4, <1>5, FS_Subset, FS_CardinalityType
<1>7. Throttled(cred, now, qd)' = Throttled(cred, now, qd)
  BY <1>2 DEF Throttled
<1>8. QuotaAllows(cred, now, qs, qd) => QuotaAllows(cred, now, qs, qd)'
  BY <1>6 DEF QuotaAllows
<1> QED
  BY <1>7, <1>8

LEMMA TxnImplementsStep == TxnInv /\ [TxnNext]_vars => [LedgerNext]_rows
<1> SUFFICES ASSUME TxnInv, [TxnNext]_vars PROVE [LedgerNext]_rows
  OBVIOUS
<1>1. ASSUME NEW c \in Callers, Act(c) PROVE [LedgerNext]_rows
  <2>1. TableStep(c)
    BY <1>1, Frame DEF TxnInv
  <2>2. CASE rows' = rows
    BY <2>2
  <2>3. CASE phase[c] = "commit" /\ kind[c] = "NEW" /\ CommitReserve(c)
    BY <2>3, CommitInserts DEF LedgerNext
  <2>4. CASE phase[c] = "written" /\ CommitUpdate(c)
    BY <2>4, CommitCompletes DEF LedgerNext
  <2> QED
    BY <2>1, <2>2, <2>3, <2>4 DEF TableStep
<1>2. CASE Tick \/ UNCHANGED vars
  BY <1>2 DEF Tick, vars
<1> QED
  BY <1>1, <1>2, NextActs

-----------------------------------------------------------------------------
(* The invariant is kept. *)

LEMMA StepTyped ==
    ASSUME TxnInv, NEW c \in Callers, Act(c)
    PROVE  TxnTypeOK'
<1>0. LedgerTypeOK'
  <2>1. [LedgerNext]_rows
    <3>1. TableStep(c)
      BY Frame DEF TxnInv
    <3> QED
      BY <3>1, CommitInserts, CommitCompletes DEF TableStep, LedgerNext
  <2> QED
    BY <2>1, NextTypeOK DEF TxnInv, TxnTypeOK
<1>00. TxnTypeOK
  BY DEF TxnInv
<1> USE DEF TxnTypeOK, Phases, Reserving, Completing, Goto
<1>1. ASSUME NEW k \in Keys, NEW fp \in Fingerprints, NEW now \in Times,
             NEW q \in QuotaPairs, Begin(c, k, fp, now, q)
      PROVE  TxnTypeOK'
  <2>1. [key |-> k, fp |-> fp, received |-> now, quota |-> q] \in Ask
    BY DEF Ask
  <2> QED
    BY <1>0, <1>00, <1>1, <2>1 DEF Begin, read, locks
<1>2. ASSUME NEW o \in Outcomes, NEW at \in Times, Finish(c, o, at)
      PROVE  TxnTypeOK'
  BY <1>0, <1>00, <1>2, LedgerAssumption DEF Finish, read, locks
<1>3. ASSUME TakeLock(c) \/ InsertRow(c) PROVE TxnTypeOK'
  BY <1>0, <1>00, <1>3 DEF TakeLock, InsertRow, asked, read, locks
<1>4. ASSUME SelectForUpdate(c) PROVE TxnTypeOK'
  <2>1. ClassifyExisting(rows[Key(c)], ask[c].fp, ask[c].received) \in Kinds
    BY DEF ClassifyExisting, Kinds
  <2> QED
    BY <1>0, <1>00, <1>4, <2>1 DEF SelectForUpdate, asked, Key
<1>5. ASSUME CountRows(c) PROVE TxnTypeOK'
  BY <1>0, <1>00, <1>5 DEF CountRows, asked, locks, Kinds, QuotaAllows
<1>6. ASSUME CountTotal(c) PROVE TxnTypeOK'
  BY <1>0, <1>00, <1>6 DEF CountTotal, asked, locks, Kinds
<1>7. ASSUME CommitReserve(c) PROVE TxnTypeOK'
  BY <1>0, <1>00, <1>7 DEF CommitReserve, Release, Hear, Listening, asked, read
<1>8. ASSUME CommitUpdate(c) PROVE TxnTypeOK'
  <2>1. write[c] \in Outcomes
    BY <1>8 DEF CommitUpdate, TxnInv, Owning
  <2> QED
    BY <1>0, <1>00, <1>8, <2>1 DEF CommitUpdate, Release, Hear, Listening, asked, read
<1>9. ASSUME Update(c) \/ UpdateAfterWait(c) PROVE TxnTypeOK'
  <2>1. /\ UNCHANGED <<ask, deadline, kind, grant, gone>>
        /\ LockRow(c) \/ NoRow(c) \/ (Goto(c, "wait") /\ UNCHANGED <<write, reply, locks>>)
    BY <1>9 DEF Update, UpdateAfterWait, read
  <2>2. phase' \in [Callers -> Phases]
    BY <1>00, <2>1 DEF LockRow, NoRow, Hear
  <2>3. \A d \in Callers : phase'[d] # "idle" => phase[d] # "idle"
    BY <1>00, <1>9, Frame DEF Update, UpdateAfterWait, Others
  <2>4. "DEADLINE_EXCEEDED" \in Outcomes
    BY DEF Outcomes
  <2>5. /\ write' \in [Callers -> Outcomes \cup {"NONE"}]
        /\ reply' \in [Callers -> Outcomes \cup Kinds \cup {"none", "unavailable"}]
    BY <1>00, <2>1, <2>4 DEF LockRow, NoRow, Hear
  <2>6. lock' = lock /\ rowLock' \in [Keys -> Callers \cup {Nobody}]
    BY <1>00, <2>1 DEF LockRow, NoRow, locks
  <2>7. \A d \in Callers : phase'[d] # "idle" => ask'[d] \in Ask
    BY <1>00, <2>1, <2>3
  <2> QED
    BY <1>0, <1>00, <2>1, <2>2, <2>5, <2>6, <2>7
<1>10. ASSUME Fail(c) \/ ServerAbort(c) PROVE TxnTypeOK'
  <2>1. phase[c] # "idle" /\ Release(c) /\ UNCHANGED <<ask, write, deadline, kind, grant, gone>>
    BY <1>10 DEF Fail, ServerAbort, InTransaction, asked, read
  <2>2. /\ phase' = [phase EXCEPT ![c] = "done"]
        /\ reply' = reply \/ reply' = [reply EXCEPT ![c] = "unavailable"]
    BY <1>10 DEF Fail, ServerAbort, Hear, Listening
  <2>3. phase' \in [Callers -> Phases] /\ \A d \in Callers : phase'[d] # "idle" => phase[d] # "idle"
    BY <1>00, <2>1, <2>2
  <2>4. reply' \in [Callers -> Outcomes \cup Kinds \cup {"none", "unavailable"}]
    BY <1>00, <2>2
  <2>5. lock' \in Callers \cup {Nobody} /\ rowLock' \in [Keys -> Callers \cup {Nobody}]
    BY <1>00, <2>1 DEF Release
  <2> QED
    BY <1>0, <1>00, <2>1, <2>3, <2>4, <2>5
<1>11. ASSUME Disconnect(c) PROVE TxnTypeOK'
  BY <1>0, <1>00, <1>11 DEF Disconnect, asked, read, locks
<1> QED
  BY <1>1, <1>2, <1>3, <1>4, <1>5, <1>6, <1>7, <1>8, <1>9, <1>10, <1>11 DEF Act, Statement

\* The locks: a transaction's end frees what it holds, and nobody takes what is held.
LEMMA StepLocking ==
    ASSUME TxnInv, NEW c \in Callers, Act(c)
    PROVE  Locking'
<1>1. /\ TxnTypeOK /\ TxnTypeOK' /\ Others(c) /\ Nobody \notin Callers
      /\ \A d \in Callers : Key(d)' = Key(d) \/ phase[d] = "idle"
  <2>1. TxnTypeOK /\ TxnTypeOK' /\ Others(c) /\ Nobody \notin Callers
    BY StepTyped, Frame, TxnAssumption DEF TxnInv
  <2>2. Key(c)' = Key(c) \/ phase[c] = "idle"
    BY DEF Act, Begin, Finish, Statement, TakeLock, SelectForUpdate, CountRows, CountTotal,
        InsertRow, CommitReserve, Update, UpdateAfterWait, CommitUpdate, Fail, Disconnect,
        ServerAbort, asked, Key
  <2> QED
    BY <2>1, <2>2 DEF Others, Key
<1>2. \A d \in Callers : phase[d] # "idle" => Key(d) \in Keys
  BY <1>1 DEF TxnTypeOK, Ask, Key
<1>3. ASSUME phase'[c] \in {"reserved", "done"}, Release(c) PROVE Locking'
  <2>1. \A d \in Callers : (phase'[d] \in Reserving \ {"lock"}) <=> lock' = d
    BY <1>1, <1>3 DEF TxnInv, Locking, Release, Others, Reserving
  <2>2. \A d \in Callers : phase'[d] = "written" => rowLock'[Key(d)'] = d
    BY <1>1, <1>2, <1>3 DEF TxnInv, Locking, Release, Others, TxnTypeOK
  <2>3. \A d \in Callers, k \in Keys :
            rowLock'[k] = d => Key(d)' = k /\ phase'[d] \in {"commit", "written"}
    BY <1>1, <1>3 DEF TxnInv, Locking, Release, Others, TxnTypeOK
  <2> QED
    BY <2>1, <2>2, <2>3 DEF Locking
<1>4. ASSUME UNCHANGED locks,
             phase[c] \in Reserving \ {"lock"} <=> phase'[c] \in Reserving \ {"lock"},
             phase'[c] = "written" => phase[c] = "written",
             phase[c] \in {"commit", "written"} => phase'[c] = phase[c]
      PROVE  Locking'
  <2>1. \A d \in Callers : (phase'[d] \in Reserving \ {"lock"}) <=> lock' = d
    BY <1>1, <1>4 DEF TxnInv, Locking, Others, locks
  <2>2. \A d \in Callers : phase'[d] = "written" => rowLock'[Key(d)'] = d
    BY <1>1, <1>4 DEF TxnInv, Locking, Others, locks
  <2>3. \A d \in Callers, k \in Keys :
            rowLock'[k] = d => Key(d)' = k /\ phase'[d] \in {"commit", "written"}
    BY <1>1, <1>4 DEF TxnInv, Locking, Others, locks
  <2> QED
    BY <2>1, <2>2, <2>3 DEF Locking
<1>5. ASSUME rowLock[Key(c)] = Nobody, rowLock' = [rowLock EXCEPT ![Key(c)] = c],
             lock' = lock, phase[c] # "idle",
             phase[c] \in Reserving \ {"lock"} <=> phase'[c] \in Reserving \ {"lock"},
             phase[c] \notin {"commit", "written"}, phase'[c] \in {"commit", "written"}
      PROVE  Locking'
  <2>1. \A d \in Callers : (phase'[d] \in Reserving \ {"lock"}) <=> lock' = d
    BY <1>1, <1>5 DEF TxnInv, Locking, Others
  <2>2. \A d \in Callers : phase'[d] = "written" => rowLock'[Key(d)'] = d
    BY <1>1, <1>2, <1>5 DEF TxnInv, Locking, Others, TxnTypeOK
  <2>3. \A d \in Callers, k \in Keys :
            rowLock'[k] = d => Key(d)' = k /\ phase'[d] \in {"commit", "written"}
    BY <1>1, <1>2, <1>5 DEF TxnInv, Locking, Others, TxnTypeOK
  <2> QED
    BY <2>1, <2>2, <2>3 DEF Locking
<1>6. CASE TakeLock(c)
  <2>1. /\ lock = Nobody /\ lock' = c /\ rowLock' = rowLock
        /\ phase[c] = "lock" /\ phase'[c] = "select"
    BY <1>1, <1>6 DEF TakeLock, Goto, TxnTypeOK
  <2>2. \A d \in Callers : (phase'[d] \in Reserving \ {"lock"}) <=> lock' = d
    BY <1>1, <2>1 DEF TxnInv, Locking, Others, Reserving
  <2>3. \A d \in Callers : phase'[d] = "written" => rowLock'[Key(d)'] = d
    BY <1>1, <2>1 DEF TxnInv, Locking, Others
  <2>4. \A d \in Callers, k \in Keys :
            rowLock'[k] = d => Key(d)' = k /\ phase'[d] \in {"commit", "written"}
    BY <1>1, <2>1 DEF TxnInv, Locking, Others
  <2> QED
    BY <2>2, <2>3, <2>4 DEF Locking
<1> USE DEF Reserving, TxnTypeOK, Goto
<1>7. ASSUME NEW k \in Keys, NEW fp \in Fingerprints, NEW now \in Times,
             NEW q \in QuotaPairs, Begin(c, k, fp, now, q)
      PROVE  Locking'
  BY <1>1, <1>4, <1>7 DEF Begin
<1>8. ASSUME NEW o \in Outcomes, NEW at \in Times, Finish(c, o, at) PROVE Locking'
  BY <1>1, <1>4, <1>8 DEF Finish
<1>9. CASE SelectForUpdate(c)
  <2>1. CASE Key(c) \notin RECORDED
    BY <1>1, <1>4, <1>9, <2>1 DEF SelectForUpdate, locks
  <2>2. CASE Key(c) \in RECORDED
    BY <1>1, <1>5, <1>9, <2>2 DEF SelectForUpdate
  <2> QED
    BY <2>1, <2>2
<1>10. CASE CountRows(c) \/ CountTotal(c) \/ InsertRow(c)
  BY <1>1, <1>4, <1>10 DEF CountRows, CountTotal, InsertRow
<1>11. CASE Disconnect(c)
  BY <1>1, <1>4, <1>11 DEF Disconnect
<1>12. CASE CommitReserve(c) \/ CommitUpdate(c) \/ Fail(c) \/ ServerAbort(c)
  BY <1>1, <1>3, <1>12 DEF CommitReserve, CommitUpdate, Fail, ServerAbort, Hear
<1>13. CASE Update(c) \/ UpdateAfterWait(c)
  <2>1. CASE LockRow(c)
    BY <1>1, <1>5, <1>13, <2>1 DEF LockRow, Update, UpdateAfterWait
  <2>2. CASE NoRow(c)
    BY <1>1, <1>4, <1>13, <2>2 DEF NoRow, Hear, Update, UpdateAfterWait
  <2>3. CASE Goto(c, "wait") /\ UNCHANGED locks
    BY <1>1, <1>4, <1>13, <2>3 DEF Update, UpdateAfterWait, locks
  <2> QED
    BY <1>13, <2>1, <2>2, <2>3 DEF Update, UpdateAfterWait
<1> QED
  BY <1>6, <1>7, <1>8, <1>9, <1>10, <1>11, <1>12, <1>13 DEF Act, Statement

\* The key of a caller is what it asked for, once.
LEMMA KeyStays ==
    ASSUME TxnInv, NEW c \in Callers, Act(c), NEW d \in Callers, phase[d] # "idle"
    PROVE  ask'[d] = ask[d] /\ Key(d)' = Key(d) /\ Key(d) \in Keys
<1>1. Others(c) /\ ask[d] \in Ask
  BY Frame DEF TxnInv, TxnTypeOK
<1>2. CASE d = c
  BY <1>1, <1>2 DEF Act, Begin, Finish, Statement, TakeLock, SelectForUpdate, CountRows,
      CountTotal, InsertRow, CommitReserve, Update, UpdateAfterWait, CommitUpdate, Fail,
      Disconnect, ServerAbort, asked, Key, Ask
<1>3. CASE d # c
  BY <1>1, <1>3 DEF Others, Key, Ask
<1> QED
  BY <1>2, <1>3

\* What the table keeps of a row: a recorded key stays, as it was asked; and a row
\* changes only under the completion that holds it.
LEMMA TableKeeps ==
    ASSUME TxnInv, NEW c \in Callers, Act(c)
    PROVE  /\ RECORDED \subseteq RECORDED'
           /\ \A k \in RECORDED :
                 /\ rows'[k].fingerprint = rows[k].fingerprint
                 /\ rows'[k].received = rows[k].received
                 /\ rows'[k] = rows[k] \/ (phase[c] = "written" /\ k = Key(c))
<1>1. TableStep(c) /\ LedgerTypeOK
  BY Frame DEF TxnInv, TxnTypeOK
<1>2. CASE rows' = rows
  BY <1>2 DEF RECORDED
<1>3. CASE phase[c] = "commit" /\ kind[c] = "NEW" /\ CommitReserve(c)
  BY <1>3, CommitInserts, Inserted
<1>4. CASE phase[c] = "written" /\ CommitUpdate(c)
  <2>1. Complete(Key(c), write[c]) /\ Key(c) \in Keys /\ write[c] \in Outcomes
    BY <1>4, CommitCompletes
  <2>2. /\ RECORDED' = RECORDED
        /\ \A x \in RECORDED : x # Key(c) => rows'[x] = rows[x]
    BY <1>1, <2>1, Completed
  <2> QED
    BY <1>1, <1>4, <2>1, <2>2, CompletionKeeps
<1> QED
  BY <1>1, <1>2, <1>3, <1>4 DEF TableStep

\* What a reservation has counted stays good while others move.
LEMMA RoomStays ==
    ASSUME TxnInv, NEW c \in Callers, Act(c), NEW d \in Callers,
           phase[d] \in Reserving \ {"lock"},
           ~(c = d /\ CommitReserve(c)),
           grant'[d] = grant[d]
    PROVE  /\ RECORDED' = RECORDED /\ LedgerFull' = LedgerFull
           /\ Room(d) => Room(d)'
<1>1. TableStep(c) /\ LedgerTypeOK /\ ask'[d] = ask[d] /\ Key(d)' = Key(d)
  BY Frame, KeyStays DEF TxnInv, TxnTypeOK, Reserving
<1>2. ask[d].quota[1] \in Nat /\ ask[d].quota[2] \in Nat
  <2>1. ask[d].quota \in QuotaPairs
    BY DEF TxnInv, TxnTypeOK, Reserving, Ask
  <2> QED
    BY <2>1, LedgerAssumption DEF QuotaPairs
<1>3. CASE rows' = rows
  BY <1>1, <1>3 DEF RECORDED, LedgerFull, Room, Throttled, QuotaAllows, OwnDay, CountedDay,
      CountedShort, Counting
<1>4. CASE phase[c] = "commit" /\ CommitReserve(c)
  BY <1>4 DEF TxnInv, Locking, Reserving
<1>5. CASE phase[c] = "written" /\ CommitUpdate(c)
  <2>1. Complete(Key(c), write[c]) /\ Key(c) \in Keys /\ write[c] \in Outcomes
    BY <1>5, CommitCompletes
  <2>2. RECORDED' = RECORDED /\ LedgerFull' = LedgerFull
    BY <1>1, <2>1, CompletionKeeps
  <2>3. Room(d) => Room(d)'
    <3>0. PICK cred : cred = CredentialOf(Key(d))
      OBVIOUS
    <3>00. PICK now : now = ask[d].received
      OBVIOUS
    <3>1. PICK qs \in Nat, qd \in Nat : qs = ask[d].quota[1] /\ qd = ask[d].quota[2]
      BY <1>2
    <3>2. Room(d) => ~Throttled(cred, now, qd) /\ (grant[d] => QuotaAllows(cred, now, qs, qd))
      BY <3>0, <3>00, <3>1 DEF Room
    <3>3. ~Throttled(cred, now, qd)' /\ (grant[d] => QuotaAllows(cred, now, qs, qd)') => Room(d)'
      BY <1>1, <3>0, <3>00, <3>1 DEF Room, CredentialOf, Throttled, QuotaAllows, OwnDay, CountedDay,
          CountedShort
    <3>4. /\ Throttled(cred, now, qd)' = Throttled(cred, now, qd)
          /\ QuotaAllows(cred, now, qs, qd) => QuotaAllows(cred, now, qs, qd)'
      BY <1>1, <2>1, <3>1, CompletionCounts
    <3> QED
      BY <1>1, <3>2, <3>3, <3>4
  <2> QED
    BY <2>2, <2>3
<1> QED
  BY <1>1, <1>3, <1>4, <1>5 DEF TableStep

LEMMA StepCounts ==
    ASSUME TxnInv, NEW c \in Callers, Act(c), NEW d \in Callers
    PROVE  Counts(d)'
<1>0. /\ TxnTypeOK /\ Others(c) /\ Counts(d)
      /\ phase' \in [Callers -> Phases] /\ kind' \in [Callers -> Kinds \cup {"none"}]
  BY Frame, StepTyped DEF TxnInv, TxnTypeOK
<1> DEFINE AtCounts == {"count", "total", "insert", "commit"}
<1>1. CASE phase'[d] \notin AtCounts
  BY <1>1 DEF Counts, Fresh
<1>2. ASSUME phase[d] \in AtCounts, phase'[d] \in AtCounts, ~(c = d /\ CommitReserve(c)),
             grant'[d] = grant[d]
      PROVE  /\ RECORDED' = RECORDED /\ LedgerFull' = LedgerFull /\ Key(d)' = Key(d)
             /\ Room(d) => Room(d)'
  <2>1. phase[d] \in Reserving \ {"lock"} /\ phase[d] # "idle"
    BY <1>2 DEF Reserving
  <2> QED
    BY <1>2, <2>1, RoomStays, KeyStays
<1>3. CASE d # c /\ phase'[d] \in AtCounts
  <2>1. phase[d] \in AtCounts /\ grant'[d] = grant[d] /\ phase'[d] = phase[d] /\ kind'[d] = kind[d]
    BY <1>0, <1>3 DEF Others
  <2> HIDE DEF AtCounts
  <2>2. /\ RECORDED' = RECORDED /\ LedgerFull' = LedgerFull /\ Key(d)' = Key(d)
        /\ Room(d) => Room(d)'
    BY <1>2, <1>3, <2>1
  <2> QED
    BY <1>0, <2>1, <2>2 DEF Counts, Fresh
<1>4. ASSUME phase[c] \in AtCounts, phase'[c] \in AtCounts, ~CommitReserve(c), grant'[c] = grant[c],
             \/ kind'[c] = kind[c] /\ phase'[c] = phase[c]
             \/ phase[c] = "total" /\ kind'[c] = "FULL" /\ phase'[c] = "commit"
             \/ phase[c] = "total" /\ kind'[c] = kind[c] /\ ~LedgerFull
                /\ phase'[c] = IF kind[c] = "THROTTLED" THEN "commit" ELSE "insert"
             \/ phase[c] = "insert" /\ kind'[c] = kind[c] /\ phase'[c] = "commit",
             d = c
      PROVE  Counts(d)'
  <2>1. /\ RECORDED' = RECORDED /\ LedgerFull' = LedgerFull /\ Key(d)' = Key(d)
        /\ Room(d) => Room(d)'
    BY <1>2, <1>4
  <2> QED
    BY <1>0, <1>4, <2>1 DEF Counts, Fresh
<1> USE DEF Goto
<1>5. CASE SelectForUpdate(c) /\ d = c
  <2>1. rows' = rows /\ ask' = ask
    BY <1>5 DEF SelectForUpdate, asked
  <2>2. CASE Key(c) \notin RECORDED
    BY <1>0, <1>5, <2>1, <2>2 DEF SelectForUpdate, Counts, Fresh, TxnTypeOK, RECORDED, Key
  <2>3. CASE Key(c) \in RECORDED
    <3>1. ClassifyExisting(rows[Key(c)], ask[c].fp, ask[c].received) # "NEW"
      BY DEF ClassifyExisting
    <3>2. /\ kind'[c] = ClassifyExisting(rows[Key(c)], ask[c].fp, ask[c].received)
          /\ phase'[c] = "commit"
      BY <1>0, <1>5, <2>3 DEF SelectForUpdate, TxnTypeOK
    <3> QED
      BY <1>5, <2>1, <2>3, <3>1, <3>2 DEF Counts, Fresh, RECORDED, Key
  <2> QED
    BY <2>2, <2>3
<1>6. CASE CountRows(c) /\ d = c
  <2> DEFINE throttled == Throttled(CredentialOf(Key(c)), ask[c].received, ask[c].quota[2])
             allows == QuotaAllows(CredentialOf(Key(c)), ask[c].received, ask[c].quota[1],
                                   ask[c].quota[2])
  <2>1. /\ rows' = rows /\ ask' = ask /\ phase[c] = "count" /\ phase'[c] = "total"
        /\ kind'[c] = IF throttled THEN "THROTTLED" ELSE "NEW"
        /\ grant'[c] = allows
    BY <1>0, <1>6 DEF CountRows, asked, TxnTypeOK
  <2>2. throttled' = throttled /\ allows' = allows
    BY <2>1 DEF Key, CredentialOf, Throttled, QuotaAllows, OwnDay, CountedDay, CountedShort,
        Counting, RECORDED
  <2>3. kind'[c] = "NEW" => Room(c)'
    BY <2>1, <2>2 DEF Room
  <2>4. Key(c)' \notin RECORDED'
    BY <1>0, <1>6, <2>1 DEF Counts, Fresh, Key, RECORDED
  <2> HIDE DEF throttled, allows
  <2> QED
    BY <1>6, <2>1, <2>3, <2>4 DEF Counts, Fresh
<1>7. CASE CountTotal(c) /\ d = c
  BY <1>0, <1>4, <1>7 DEF CountTotal, CommitReserve, TxnTypeOK
<1>8. CASE InsertRow(c) /\ d = c
  BY <1>0, <1>4, <1>8 DEF InsertRow, CommitReserve, TxnTypeOK, read
<1>9. CASE Disconnect(c) /\ d = c /\ phase'[c] \in AtCounts
  <2>1. phase'[c] = phase[c] /\ kind'[c] = kind[c] /\ grant'[c] = grant[c]
    BY <1>9 DEF Disconnect, read
  <2>2. ~CommitReserve(c)
    BY <1>0, <1>9, <2>1 DEF CommitReserve, Hear, TxnTypeOK
  <2> HIDE DEF AtCounts
  <2> QED
    BY <1>4, <1>9, <2>1, <2>2
<1>10. ASSUME d = c, phase'[d] \in AtCounts
       PROVE  SelectForUpdate(c) \/ CountRows(c) \/ CountTotal(c) \/ InsertRow(c) \/ Disconnect(c)
  <2>1. ASSUME NEW k \in Keys, NEW fp \in Fingerprints, NEW now \in Times,
               NEW q \in QuotaPairs, Begin(c, k, fp, now, q)
        PROVE  phase'[c] = "lock"
    BY <1>0, <2>1 DEF Begin, TxnTypeOK
  <2>2. ASSUME NEW o \in Outcomes, NEW at \in Times, Finish(c, o, at)
        PROVE  phase'[c] = "update"
    BY <1>0, <2>2 DEF Finish, TxnTypeOK
  <2>3. TakeLock(c) => phase'[c] = "select"
    BY <1>0 DEF TakeLock, TxnTypeOK
  <2>4. CommitReserve(c) \/ CommitUpdate(c) \/ Fail(c) \/ ServerAbort(c)
           => phase'[c] \in {"reserved", "done"}
    BY <1>0 DEF CommitReserve, CommitUpdate, Fail, ServerAbort, Hear, TxnTypeOK
  <2>5. Update(c) \/ UpdateAfterWait(c) => phase'[c] \in {"written", "wait", "update", "done"}
    BY <1>0 DEF Update, UpdateAfterWait, LockRow, NoRow, Hear, TxnTypeOK
  <2> QED
    BY <1>10, <2>1, <2>2, <2>3, <2>4, <2>5 DEF Act, Statement
<1> HIDE DEF AtCounts
<1> QED
  BY <1>1, <1>3, <1>5, <1>6, <1>7, <1>8, <1>9, <1>10

LEMMA StepOwning ==
    ASSUME TxnInv, NEW c \in Callers, Act(c), NEW d \in Callers
    PROVE  Owning(d)'
<1>0. /\ TxnTypeOK /\ Others(c) /\ Owning(d) /\ Counts(d) /\ Locking
      /\ phase' \in [Callers -> Phases] /\ write' \in [Callers -> Outcomes \cup {"NONE"}]
      /\ RECORDED \subseteq RECORDED'
      /\ \A k \in RECORDED : rows'[k] = rows[k] \/ (phase[c] = "written" /\ k = Key(c))
  BY Frame, StepTyped, TableKeeps DEF TxnInv, TxnTypeOK
<1> USE DEF Owning, Completing
<1>1. CASE d # c
  <2>1. CASE phase[d] \in Completing \cup {"reserved"}
    <3>1. Key(d)' = Key(d) /\ Key(d) \in RECORDED
      BY <1>0, <2>1, KeyStays
    <3>2. ~(phase[c] = "written" /\ phase[d] = "written" /\ Key(d) = Key(c))
      BY <1>0, <1>1 DEF Locking
    <3> QED
      BY <1>0, <1>1, <2>1, <3>1, <3>2 DEF Others
  <2>2. CASE phase[d] \notin Completing \cup {"reserved"}
    BY <1>0, <1>1, <2>2 DEF Others
  <2> QED
    BY <2>1, <2>2
<1>2. CASE d = c /\ phase'[c] = phase[c] /\ kind'[c] = kind[c] /\ write'[c] = write[c] /\ rows' = rows
  <2>1. phase[c] # "idle" => Key(c)' = Key(c)
    BY KeyStays
  <2> QED
    BY <1>0, <1>2, <2>1 DEF RECORDED
<1>3. CASE d = c /\ phase'[c] \notin Completing \cup {"reserved"}
  BY <1>3
<1> USE DEF Goto, TxnTypeOK
<1>4. ASSUME NEW o \in Outcomes, NEW at \in Times, Finish(c, o, at), d = c
      PROVE  Owning(d)'
  BY <1>0, <1>4, KeyStays DEF Finish
<1>5. CASE CommitReserve(c) /\ d = c
  <2>1. phase[c] = "commit" /\ Key(c)' = Key(c)
    BY <1>5, KeyStays DEF CommitReserve
  <2>2. kind[c] = "NEW" => Key(c) \in RECORDED'
    BY <1>5, <2>1, CommitInserts, Inserted
  <2>3. kind[c] = "ABANDONED" => Key(c) \in RECORDED'
    BY <1>0, <1>5, <2>1 DEF Counts
  <2>4. phase'[c] \in {"reserved", "done"} /\ kind'[c] = kind[c]
        /\ (phase'[c] = "reserved" => kind[c] \in {"NEW", "ABANDONED"})
    BY <1>0, <1>5 DEF CommitReserve, Hear, read
  <2> QED
    BY <1>5, <2>1, <2>2, <2>3, <2>4
<1>6. CASE (Update(c) \/ UpdateAfterWait(c)) /\ d = c
  <2>1. phase[c] \in {"update", "wait"} /\ Key(c)' = Key(c) /\ rows' = rows
        /\ kind' = kind
    BY <1>6, KeyStays DEF Update, UpdateAfterWait, read
  <2>2. CASE LockRow(c)
    <3>1. InProgress(c)
      BY <1>0, <1>6, <2>2 DEF Update, UpdateAfterWait, LockRow, NoRow, Hear
    <3> QED
      BY <1>0, <1>6, <2>1, <2>2, <3>1 DEF LockRow, InProgress, RECORDED
  <2>3. CASE NoRow(c)
    <3>1. "DEADLINE_EXCEEDED" \in Outcomes
      BY DEF Outcomes
    <3> QED
      BY <1>0, <1>6, <2>1, <2>3, <3>1 DEF NoRow, Hear, RECORDED
  <2>4. CASE Goto(c, "wait") /\ UNCHANGED write
    BY <1>0, <1>6, <2>1, <2>4 DEF RECORDED
  <2> QED
    BY <1>6, <2>2, <2>3, <2>4 DEF Update, UpdateAfterWait
<1>7. CASE Disconnect(c) /\ d = c
  BY <1>2, <1>7 DEF Disconnect, asked, read
<1>8. ASSUME NEW k \in Keys, NEW fp \in Fingerprints, NEW now \in Times,
             NEW q \in QuotaPairs, Begin(c, k, fp, now, q)
      PROVE  phase'[c] = "lock"
  BY <1>0, <1>8 DEF Begin
<1>9. TakeLock(c) \/ SelectForUpdate(c) \/ CountRows(c) \/ CountTotal(c) \/ InsertRow(c)
         => phase'[c] \in {"select", "count", "commit", "total", "insert"}
  BY <1>0 DEF TakeLock, SelectForUpdate, CountRows, CountTotal, InsertRow
<1>10. CommitUpdate(c) \/ Fail(c) \/ ServerAbort(c) => phase'[c] = "done" \/ phase'[c] = "done"
  BY <1>0 DEF CommitUpdate, Fail, ServerAbort, Hear
<1> QED
  BY <1>1, <1>3, <1>4, <1>5, <1>6, <1>7, <1>8, <1>9, <1>10 DEF Act, Statement

\* What each caller knows is so, and stays so.
LEMMA StepReplies ==
    ASSUME TxnInv, NEW c \in Callers, Act(c)
    PROVE  RepliesAreTrue' /\ \A d \in Callers : Telling(d)'
<1> DEFINE new(d) ==
        /\ Key(d) \in RECORDED
        /\ rows[Key(d)].fingerprint = ask[d].fp
        /\ rows[Key(d)].received = ask[d].received
    settled(d) == Key(d) \in RECORDED /\ rows[Key(d)].outcome = reply[d]
<1>0. /\ TxnTypeOK /\ Others(c) /\ Locking /\ LedgerTypeOK
      /\ \A d \in Callers : Counts(d) /\ Owning(d) /\ Telling(d)
      /\ \A d \in Callers : /\ reply[d] = "NEW" => new(d)
                            /\ reply[d] \in Outcomes => settled(d)
      /\ \A d, e \in Callers : d # e /\ reply[d] = "NEW" /\ reply[e] = "NEW" => Key(d) # Key(e)
      /\ reply' \in [Callers -> Outcomes \cup Kinds \cup {"none", "unavailable"}]
      /\ phase' \in [Callers -> Phases]
  BY Frame, StepTyped DEF TxnInv, TxnTypeOK, RepliesAreTrue, Telling
<1>1. \A o \in Outcomes : o \notin {"none", "unavailable", "NEW", "REPLAY", "CONFLICT", "NONE",
                                   "IN_PROGRESS", "ABANDONED", "FULL", "THROTTLED"}
  BY TxnAssumption, NoneIsNoOutcome DEF Outcomes, NonCountingOutcomes
<1>2. \A d \in Callers : reply[d] # "none" => phase[d] # "idle"
  BY <1>0 DEF Telling
<1>3. ASSUME NEW d \in Callers, reply[d] = "NEW" PROVE new(d)' /\ Key(d)' = Key(d)
  <2>1. Key(d)' = Key(d) /\ ask'[d] = ask[d] /\ new(d)
    BY <1>0, <1>2, <1>3, KeyStays
  <2> QED
    BY <2>1, TableKeeps
<1>4. ASSUME NEW d \in Callers, reply[d] \in Outcomes, reply'[d] = reply[d] PROVE settled(d)'
  <2>1. Key(d)' = Key(d) /\ settled(d)
    BY <1>0, <1>1, <1>2, <1>4, KeyStays
  <2>2. ~(phase[c] = "written" /\ Key(d) = Key(c))
    <3>1. SUFFICES ASSUME phase[c] = "written", Key(d) = Key(c) PROVE FALSE
      OBVIOUS
    <3>2. rows[Key(c)].outcome = "NONE"
      BY <1>0, <3>1 DEF Owning, Completing, LedgerTypeOK
    <3> QED
      BY <1>1, <1>4, <2>1, <3>1, <3>2
  <2> QED
    BY <1>4, <2>1, <2>2, TableKeeps
<1>5. phase'[c] # "idle"
  <2> USE DEF Goto, TxnTypeOK, Hear
  <2>1. ASSUME NEW k \in Keys, NEW fp \in Fingerprints, NEW now \in Times,
               NEW q \in QuotaPairs, Begin(c, k, fp, now, q)
        PROVE  phase'[c] # "idle"
    BY <1>0, <2>1 DEF Begin
  <2>2. ASSUME NEW o \in Outcomes, NEW at \in Times, Finish(c, o, at) PROVE phase'[c] # "idle"
    BY <1>0, <2>2 DEF Finish
  <2>3. TakeLock(c) \/ SelectForUpdate(c) \/ CountRows(c) \/ CountTotal(c) \/ InsertRow(c)
           => phase'[c] # "idle"
    BY <1>0 DEF TakeLock, SelectForUpdate, CountRows, CountTotal, InsertRow
  <2>4. CommitReserve(c) \/ CommitUpdate(c) \/ Fail(c) \/ ServerAbort(c) => phase'[c] # "idle"
    BY <1>0 DEF CommitReserve, CommitUpdate, Fail, ServerAbort
  <2>5. Update(c) \/ UpdateAfterWait(c) => phase'[c] # "idle"
    BY <1>0 DEF Update, UpdateAfterWait, LockRow, NoRow
  <2>6. Disconnect(c) => phase'[c] # "idle"
    BY <1>0 DEF Disconnect, InTransaction, Reserving, Completing
  <2> QED
    BY <2>1, <2>2, <2>3, <2>4, <2>5, <2>6 DEF Act, Statement
<1>6. ASSUME reply'[c] = "NEW" => new(c)' /\ \A d \in Callers \ {c} : reply[d] = "NEW" => Key(d) # Key(c)',
             reply'[c] \in Outcomes => settled(c)'
      PROVE  RepliesAreTrue' /\ \A d \in Callers : Telling(d)'
  <2>1. \A d \in Callers \ {c} : reply'[d] = reply[d] /\ phase'[d] = phase[d]
    BY <1>0 DEF Others
  <2>2. \A d \in Callers : reply'[d] = "NEW" => new(d)'
    BY <1>3, <1>6, <2>1
  <2>3. \A d \in Callers : reply'[d] \in Outcomes => settled(d)'
    BY <1>4, <1>6, <2>1
  <2>4. \A d, e \in Callers : d # e /\ reply'[d] = "NEW" /\ reply'[e] = "NEW" => Key(d)' # Key(e)'
    BY <1>0, <1>3, <1>6, <2>1
  <2>5. \A d \in Callers : phase'[d] = "idle" => reply'[d] = "none"
    BY <1>0, <1>5, <2>1 DEF Telling
  <2> QED
    BY <2>2, <2>3, <2>4, <2>5 DEF RepliesAreTrue, Telling
<1>7. CASE reply'[c] = reply[c]
  <2>1. reply'[c] = "NEW" => new(c)' /\ Key(c)' = Key(c)
    BY <1>3, <1>7
  <2>2. reply'[c] \in Outcomes => settled(c)'
    BY <1>4, <1>7
  <2>3. \A d \in Callers \ {c} : reply'[c] = "NEW" /\ reply[d] = "NEW" => Key(d) # Key(c)'
    BY <1>0, <1>7, <2>1
  <2> QED
    BY <1>6, <2>1, <2>2, <2>3
<1>8. CASE reply'[c] = "unavailable"
  BY <1>1, <1>6, <1>8
<1>9. CASE CommitReserve(c) /\ reply'[c] = kind[c]
  <2>1. phase[c] = "commit" /\ Key(c)' = Key(c) /\ ask'[c] = ask[c] /\ kind[c] \notin Outcomes
    BY <1>0, <1>1, <1>9, KeyStays DEF CommitReserve, TxnTypeOK, Kinds
  <2>2. CASE kind[c] = "NEW"
    <3>1. /\ Key(c) \notin RECORDED /\ Key(c) \in RECORDED'
          /\ rows'[Key(c)] = NewRow(ask[c].fp, ask[c].received, grant[c])
      BY <1>9, <2>1, <2>2, CommitInserts, Inserted
    <3>2. new(c)'
      BY <2>1, <3>1 DEF NewRow
    <3>3. \A d \in Callers : reply[d] = "NEW" => Key(d) # Key(c)'
      BY <1>0, <2>1, <3>1
    <3> QED
      BY <1>6, <1>9, <2>1, <3>2, <3>3
  <2> QED
    BY <1>6, <1>9, <2>1, <2>2
<1>10. CASE CommitUpdate(c) /\ reply'[c] = write[c]
  <2>1. /\ phase[c] = "written" /\ Key(c)' = Key(c)
        /\ Complete(Key(c), write[c]) /\ Key(c) \in Keys /\ write[c] \in Outcomes
    BY <1>10, CommitCompletes, KeyStays DEF CommitUpdate
  <2>2. Key(c) \in RECORDED' /\ rows'[Key(c)] = CompletedRow(rows[Key(c)], write[c])
    BY <1>0, <2>1, Completed
  <2>3. settled(c)'
    BY <1>10, <2>1, <2>2 DEF CompletedRow
  <2> QED
    BY <1>1, <1>6, <1>10, <2>1, <2>3
<1>11. \/ reply'[c] = reply[c] \/ reply'[c] = "unavailable"
       \/ CommitReserve(c) /\ reply'[c] = kind[c]
       \/ CommitUpdate(c) /\ reply'[c] = write[c]
  BY <1>0 DEF Act, Begin, Finish, Statement, TakeLock, SelectForUpdate, CountRows, CountTotal,
      InsertRow, CommitReserve, Update, UpdateAfterWait, LockRow, NoRow, CommitUpdate, Fail,
      Disconnect, ServerAbort, Hear, TxnTypeOK
<1> QED
  BY <1>7, <1>8, <1>9, <1>10, <1>11

LEMMA TxnInvariant == TxnSpec => []TxnInv
<1>1. TxnInit => TxnInv
  <2> SUFFICES ASSUME TxnInit PROVE TxnInv
    OBVIOUS
  <2>1. LedgerTypeOK
    BY InitTypeOK DEF TxnInit
  <2>2. "none" \notin Outcomes
    BY TxnAssumption DEF Outcomes, NonCountingOutcomes
  <2>3. TxnTypeOK
    BY <2>1 DEF TxnInit, TxnTypeOK, Phases
  <2>4. Locking
    BY TxnAssumption DEF TxnInit, Locking, Reserving
  <2>5. \A c \in Callers : Counts(c) /\ Owning(c) /\ Telling(c)
    BY <2>2 DEF TxnInit, Counts, Fresh, Owning, Telling, Completing
  <2>6. RepliesAreTrue
    BY <2>2 DEF TxnInit, RepliesAreTrue
  <2> QED
    BY <2>3, <2>4, <2>5, <2>6 DEF TxnInv
<1>2. TxnInv /\ [TxnNext]_vars => TxnInv'
  <2> SUFFICES ASSUME TxnInv, [TxnNext]_vars PROVE TxnInv'
    OBVIOUS
  <2>1. ASSUME NEW c \in Callers, Act(c) PROVE TxnInv'
    BY <2>1, StepTyped, StepLocking, StepCounts, StepOwning, StepReplies DEF TxnInv
  <2>2. CASE Tick \/ UNCHANGED vars
    <3>1. UNCHANGED <<rows, phase, ask, write, deadline, kind, grant, gone, reply, lock, rowLock>>
      BY <2>2 DEF Tick, vars, asked, read, locks
    <3>2. TxnTypeOK'
      BY <3>1 DEF TxnInv, TxnTypeOK, LedgerTypeOK, RECORDED
    <3>3. Locking'
      BY <3>1 DEF TxnInv, Locking, Key
    <3>4. ASSUME NEW c \in Callers PROVE (Counts(c) /\ Owning(c) /\ Telling(c))'
      <4>1. Room(c) => Room(c)'
        BY <3>1 DEF Room, Key, CredentialOf, Throttled, QuotaAllows, OwnDay, CountedDay,
            CountedShort, Counting, RECORDED
      <4>2. Counts(c)'
        BY <3>1, <4>1 DEF TxnInv, Counts, Fresh, Key, RECORDED, LedgerFull
      <4> QED
        BY <3>1, <4>2 DEF TxnInv, Owning, Telling, Key, RECORDED
    <3>5. RepliesAreTrue'
      BY <3>1 DEF TxnInv, RepliesAreTrue, Key, RECORDED
    <3> QED
      BY <3>2, <3>3, <3>4, <3>5 DEF TxnInv
  <2> QED
    BY <2>1, <2>2, NextActs
<1> QED
  BY <1>1, <1>2, PTL DEF TxnSpec

-----------------------------------------------------------------------------
(* The theorems. *)

\* The state keeps its shape.
THEOREM TxnTyped == TxnSpec => []TxnTypeOK
<1>1. TxnInv => TxnTypeOK
  BY DEF TxnInv
<1> QED
  BY <1>1, TxnInvariant, PTL

\* The transactions of automation/ledger.py, interleaved statement by statement, with
\* lost replies, late commits and aborts, implement its atomic operations.
THEOREM TxnImplementsLedger == TxnSpec => ImplementsLedger
<1>1. TxnInit => LedgerInit
  BY DEF TxnInit
<1> QED
  BY <1>1, TxnInvariant, TxnImplementsStep, PTL DEF TxnSpec, ImplementsLedger, LedgerSpec

\* So no interleaving of reservations takes the table past the capacity contract.
THEOREM TxnRowCap == TxnSpec => []RowCapHolds
BY TxnImplementsLedger, LedgerRowCap, PTL DEF ImplementsLedger

\* And in every rolling window the calls let through stay within the largest quota,
\* although they were let through on counts older than their rows.
THEOREM TxnQuota == TxnSpec => []QuotaHolds
BY TxnImplementsLedger, LedgerQuota, PTL DEF ImplementsLedger

\* What a caller is told is so: one caller holds a NEW key, and an outcome is recorded.
THEOREM TxnRepliesAreTrue == TxnSpec => []RepliesAreTrue
<1>1. TxnInv => RepliesAreTrue
  BY DEF TxnInv
<1> QED
  BY <1>1, TxnInvariant, PTL

\* Nobody waits for ever: whom a transaction waits for is itself running, and waits at
\* most for one that waits for nobody.
THEOREM TxnWaitsEnd == TxnSpec => []WaitsEnd
<1>1. TxnInv => WaitsEnd
  <2> SUFFICES ASSUME TxnInv, NEW c \in Callers, NEW d \in Blocking(c)
               PROVE  InTransaction(d) /\ \A e \in Blocking(d) : Blocking(e) = {}
    BY DEF WaitsEnd
  <2>0. Locking /\ \A x \in Callers : phase[x] # "idle" => Key(x) \in Keys
    BY DEF TxnInv, TxnTypeOK, Ask, Key
  <2>1. ASSUME NEW x \in Callers, NEW y \in Blocking(x)
        PROVE  /\ y \in Callers
               /\ \/ phase[x] = "lock" /\ phase[y] \in Reserving \ {"lock"}
                  \/ phase[y] \in {"commit", "written"}
    BY <2>0, <2>1 DEF Blocking, Locking
  <2>2. ASSUME NEW x \in Callers, phase[x] \in {"commit", "written"}
        PROVE  Blocking(x) = {}
    BY <2>2 DEF Blocking
  <2>3. InTransaction(d)
    BY <2>1 DEF InTransaction, Reserving, Completing
  <2>4. ASSUME NEW e \in Blocking(d) PROVE Blocking(e) = {}
    <3>1. phase[d] # "lock" \/ phase[d] \in {"commit", "written"}
      BY <2>1 DEF Reserving
    <3>2. e \in Callers /\ phase[e] \in {"commit", "written"}
      BY <2>1, <2>4, <3>1
    <3> QED
      BY <2>2, <3>2
  <2> QED
    BY <2>3, <2>4
<1> QED
  BY <1>1, TxnInvariant, PTL
=============================================================================
