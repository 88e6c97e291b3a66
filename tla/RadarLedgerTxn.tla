--------------------------- MODULE RadarLedgerTxn ---------------------------
(***************************************************************************)
(* PostgresAutomationLedger of automation/ledger.py, statement by          *)
(* statement: every reserve, complete and complete_success is a            *)
(* transaction of its own connection, at READ COMMITTED.  `rows` is what   *)
(* is committed.  A reservation holds the ledger's advisory lock and reads *)
(* its row FOR UPDATE; a completion is an UPDATE that takes the row's lock *)
(* only, and so runs beside the reservations.                              *)
(*                                                                         *)
(* What PostgreSQL does with a statement is modelled from how the code     *)
(* uses it.  An UPDATE that waited for a row lock evaluates its WHERE      *)
(* clause again only if the row was changed meanwhile, not if it was only  *)
(* locked.  A client may stop waiting at any point (a timeout, a lost      *)
(* connection): its transaction is rolled back, at once or later, unless   *)
(* the COMMIT was on its way.                                              *)
(***************************************************************************)
EXTENDS RadarLedger

CONSTANTS
    Callers,        \* the calls: each reserves, then may complete
    Nobody,         \* not a caller: the holder of a free lock
    MaxClock        \* bound: the database clock stops here

ASSUME TxnAssumption ==
    /\ Nobody \notin Callers
    /\ Times = 0..MaxClock
    /\ AnalysisRefusals \cap {"none", "unavailable", "NEW", "REPLAY", "CONFLICT",
                              "IN_PROGRESS", "ABANDONED", "FULL", "THROTTLED"} = {}

VARIABLES           \* beside rows, the committed table
    clock,      \* the database's clock
    phase,      \* the next statement of each caller's transaction
    ask,        \* what each caller reserves
    kind,       \* the reservation's result, as its transaction read it
    grant,      \* whether the counts it read leave room under the quotas
    write,      \* the outcome each completion writes
    deadline,   \* deadline_at_utc of each complete_success
    gone,       \* the callers that no longer listen to their transaction
    reply,      \* what each caller knows
    lock,       \* the advisory lock's holder
    rowLock     \* each row lock's holder

locks == <<lock, rowLock>>
asked == <<ask, write, deadline>>
read == <<kind, grant>>
vars == <<rows, clock, phase, asked, read, gone, reply, locks>>

-----------------------------------------------------------------------------
\* The statements of a reservation and of a completion; in the last of each the
\* COMMIT is on its way.
Reserving == {"lock", "select", "count", "total", "insert", "commit"}
Completing == {"update", "wait", "written"}

InTransaction(c) == phase[c] \in Reserving \cup Completing

Listening(c) == c \notin gone

Key(c) == ask[c].key

Goto(c, label) == phase' = [phase EXCEPT ![c] = label]

\* The end of a transaction frees whatever it has locked.
Release(c) ==
    /\ lock' = IF lock = c THEN Nobody ELSE lock
    /\ rowLock' = [k \in Keys |-> IF rowLock[k] = c THEN Nobody ELSE rowLock[k]]

\* The caller learns `what` and moves on to `label`, unless it has gone.
Hear(c, what, label) ==
    /\ reply' = IF Listening(c) THEN [reply EXCEPT ![c] = what] ELSE reply
    /\ Goto(c, IF Listening(c) THEN label ELSE "done")

Unasked == [key |-> "none"]

-----------------------------------------------------------------------------
TxnInit ==
    /\ LedgerInit
    /\ clock = 0
    /\ phase = [c \in Callers |-> "idle"]
    /\ ask = [c \in Callers |-> Unasked]
    /\ kind = [c \in Callers |-> "none"]
    /\ grant = [c \in Callers |-> FALSE]
    /\ write = [c \in Callers |-> "NONE"]
    /\ deadline = [c \in Callers |-> 0]
    /\ gone = {}
    /\ reply = [c \in Callers |-> "none"]
    /\ lock = Nobody
    /\ rowLock = [k \in Keys |-> Nobody]

\* The caller connects and sends its first statement.  Its reception was stamped
\* before, by another clock.
Begin(c, k, fp, now, q) ==
    /\ phase[c] = "idle"
    /\ ask' = [ask EXCEPT ![c] = [key |-> k, fp |-> fp, received |-> now, quota |-> q]]
    /\ Goto(c, "lock")
    /\ UNCHANGED <<rows, clock, write, deadline, read, gone, reply, locks>>

\* Mutant of TakeLock: one lock per credential.
TakeLock_PerCredential(c) ==
    /\ phase[c] = "lock" /\ Listening(c)
    /\ \A d \in Callers \ {c} :
          phase[d] \in Reserving \ {"lock"}
              => CredentialOf(Key(d)) # CredentialOf(Key(c))
    /\ Goto(c, "select")
    /\ UNCHANGED <<rows, clock, asked, read, gone, reply, locks>>

\* pg_advisory_xact_lock: one lock for the whole ledger.
TakeLock(c) ==
    /\ phase[c] = "lock" /\ Listening(c)
    /\ lock = Nobody
    /\ lock' = c
    /\ Goto(c, "select")
    /\ UNCHANGED <<rows, clock, asked, read, gone, reply, rowLock>>

\* SELECT ... FOR UPDATE: waits for the row's lock, then reads what is committed.
SelectForUpdate(c) ==
    /\ phase[c] = "select" /\ Listening(c)
    /\ \/ /\ Key(c) \notin RECORDED
          /\ Goto(c, "count")
          /\ UNCHANGED <<kind, rowLock>>
       \/ /\ Key(c) \in RECORDED
          /\ rowLock[Key(c)] = Nobody
          /\ rowLock' = [rowLock EXCEPT ![Key(c)] = c]
          /\ kind' = [kind EXCEPT ![c] =
                         ClassifyExisting(rows[Key(c)], ask[c].fp, ask[c].received)]
          /\ Goto(c, "commit")
    /\ UNCHANGED <<rows, clock, asked, grant, gone, reply, lock>>

\* The counts of the credential's windows, in a snapshot of their own.
CountRows(c) ==
    LET cred == CredentialOf(Key(c))
        now == ask[c].received
        q == ask[c].quota
    IN  /\ phase[c] = "count" /\ Listening(c)
        /\ kind' = [kind EXCEPT ![c] =
                       IF Throttled(cred, now, q[2]) THEN "THROTTLED" ELSE "NEW"]
        /\ grant' = [grant EXCEPT ![c] = QuotaAllows(cred, now, q[1], q[2])]
        /\ Goto(c, "total")
        /\ UNCHANGED <<rows, clock, asked, gone, reply, locks>>

\* The rows of the whole ledger: the cap is decided first, then the ceiling.
CountTotal(c) ==
    /\ phase[c] = "total" /\ Listening(c)
    /\ \/ LedgerFull /\ kind' = [kind EXCEPT ![c] = "FULL"] /\ Goto(c, "commit")
       \/ /\ ~LedgerFull /\ UNCHANGED kind
          /\ Goto(c, IF kind[c] = "THROTTLED" THEN "commit" ELSE "insert")
    /\ UNCHANGED <<rows, clock, asked, grant, gone, reply, locks>>

\* The row is written, and nobody sees it before the commit.  The primary key
\* makes a second INSERT of the same key wait for the first, and fail.
InsertRow(c) ==
    /\ phase[c] = "insert" /\ Listening(c)
    /\ Key(c) \notin RECORDED
    /\ \A d \in Callers \ {c} :
          ~(phase[d] = "commit" /\ kind[d] = "NEW" /\ Key(d) = Key(c))
    /\ Goto(c, "commit")
    /\ UNCHANGED <<rows, clock, asked, read, gone, reply, locks>>

\* Mutant of CommitReserve: a session's lock, which a pooled connection keeps.
CommitReserve_SessionLock(c) ==
    /\ phase[c] = "commit"
    /\ IF kind[c] = "NEW"
       THEN Insert(Key(c), NewRow(ask[c].fp, ask[c].received, grant[c]))
       ELSE UNCHANGED rows
    /\ rowLock' = [k \in Keys |-> IF rowLock[k] = c THEN Nobody ELSE rowLock[k]]
    /\ Hear(c, kind[c], IF kind[c] \in {"NEW", "ABANDONED"} THEN "reserved" ELSE "done")
    /\ UNCHANGED <<clock, asked, read, gone, lock>>

\* The reservation's commit; only a NEW one has written anything.
CommitReserve(c) ==
    /\ phase[c] = "commit"
    /\ IF kind[c] = "NEW"
       THEN Insert(Key(c), NewRow(ask[c].fp, ask[c].received, grant[c]))
       ELSE UNCHANGED rows
    /\ Release(c)
    /\ Hear(c, kind[c], IF kind[c] \in {"NEW", "ABANDONED"} THEN "reserved" ELSE "done")
    /\ UNCHANGED <<clock, asked, read, gone>>

-----------------------------------------------------------------------------
\* What a caller may complete its key with: the closing of an abandoned key, the
\* quota's refusal, any other refusal, or the evidence.
Completion(c) ==
    CASE kind[c] = "ABANDONED" -> {"DEADLINE_EXCEEDED"}
      [] kind[c] = "NEW" /\ ~grant[c] -> {"QUOTA_EXCEEDED"}
      [] kind[c] = "NEW" /\ grant[c] -> Outcomes \ {"QUOTA_EXCEEDED"}

\* complete, and complete_success with its deadline: a new connection.
Finish(c, o, at) ==
    /\ phase[c] = "reserved"
    /\ o \in Completion(c)
    /\ o # "SUCCEEDED" => at = 0
    /\ write' = [write EXCEPT ![c] = o]
    /\ deadline' = [deadline EXCEPT ![c] = at]
    /\ Goto(c, "update")
    /\ UNCHANGED <<rows, clock, ask, read, gone, reply, locks>>

InProgress(c) == rows[Key(c)].state = "IN_PROGRESS"

\* Only the success's UPDATE also has clock_timestamp() <= deadline_at_utc.
InTime(c) == write[c] = "SUCCEEDED" => clock <= deadline[c]

\* The UPDATE finds no row: a success is tried again as the lateness it is, and
\* anything else fails, LedgerUnavailable.
NoRow(c) ==
    /\ \/ /\ write[c] = "SUCCEEDED"
          /\ write' = [write EXCEPT ![c] = "DEADLINE_EXCEEDED"]
          /\ Goto(c, "update")
          /\ UNCHANGED reply
       \/ /\ write[c] # "SUCCEEDED"
          /\ Hear(c, "unavailable", "done")
          /\ UNCHANGED write
    /\ UNCHANGED locks

LockRow(c) ==
    /\ rowLock[Key(c)] = Nobody
    /\ rowLock' = [rowLock EXCEPT ![Key(c)] = c]
    /\ Goto(c, "written")
    /\ UNCHANGED <<write, reply, lock>>

\* Mutant of Update: the state is not part of the WHERE clause.
Update_AnyState(c) ==
    /\ phase[c] = "update" /\ Listening(c)
    /\ \/ InTime(c) /\ LockRow(c)
       \/ ~InTime(c) /\ NoRow(c)
    /\ UNCHANGED <<rows, clock, ask, deadline, read, gone>>

\* UPDATE ... WHERE state = 'IN_PROGRESS' [AND the clock]: the clause is evaluated
\* on the committed row; a row that satisfies it is locked, or waited for.
Update(c) ==
    /\ phase[c] = "update" /\ Listening(c)
    /\ \/ InProgress(c) /\ InTime(c) /\ LockRow(c)
       \/ /\ InProgress(c) /\ InTime(c) /\ rowLock[Key(c)] # Nobody
          /\ Goto(c, "wait")
          /\ UNCHANGED <<write, reply, locks>>
       \/ ~(InProgress(c) /\ InTime(c)) /\ NoRow(c)
    /\ UNCHANGED <<rows, clock, ask, deadline, read, gone>>

\* The row's lock is free again.  Changed, the row no longer satisfies the clause;
\* only locked, it is updated without another look at the clock.
UpdateAfterWait(c) ==
    /\ phase[c] = "wait" /\ Listening(c)
    /\ rowLock[Key(c)] = Nobody
    /\ \/ InProgress(c) /\ LockRow(c)
       \/ ~InProgress(c) /\ NoRow(c)
    /\ UNCHANGED <<rows, clock, ask, deadline, read, gone>>

CommitUpdate(c) ==
    /\ phase[c] = "written"
    /\ rows' = [rows EXCEPT ![Key(c)] = CompletedRow(rows[Key(c)], write[c])]
    /\ Release(c)
    /\ Hear(c, write[c], "done")
    /\ UNCHANGED <<clock, asked, read, gone>>

-----------------------------------------------------------------------------
\* A statement fails or times out, or there is no connection: rolled back.
Fail(c) ==
    /\ InTransaction(c) /\ Listening(c)
    /\ Release(c)
    /\ Hear(c, "unavailable", "done")
    /\ UNCHANGED <<rows, clock, asked, read, gone>>

\* The caller's connection breaks, or its process dies, and the server does not
\* know yet: the locks stay, and a COMMIT already sent may still be executed.
Disconnect(c) ==
    /\ InTransaction(c) /\ Listening(c)
    /\ gone' = gone \cup {c}
    /\ reply' = [reply EXCEPT ![c] = "unavailable"]
    /\ UNCHANGED <<rows, clock, phase, asked, read, locks>>

ServerAbort(c) ==
    /\ InTransaction(c) /\ c \in gone
    /\ Release(c)
    /\ Goto(c, "done")
    /\ UNCHANGED <<rows, clock, asked, read, gone, reply>>

\* Bound: MaxClock.
Tick ==
    /\ clock < MaxClock
    /\ clock' = clock + 1
    /\ UNCHANGED <<rows, phase, asked, read, gone, reply, locks>>

\* What the transaction does when nothing fails.
Statement(c) ==
    \/ TakeLock(c) \/ SelectForUpdate(c) \/ CountRows(c) \/ CountTotal(c)
    \/ InsertRow(c) \/ CommitReserve(c)
    \/ Update(c) \/ UpdateAfterWait(c) \/ CommitUpdate(c)

TxnNext ==
    \/ \E c \in Callers :
          \/ \E k \in Keys, fp \in Fingerprints, now \in Times, q \in QuotaPairs :
                Begin(c, k, fp, now, q)
          \/ \E o \in Outcomes, at \in Times : Finish(c, o, at)
          \/ Statement(c) \/ Fail(c) \/ Disconnect(c) \/ ServerAbort(c)
    \/ Tick

TxnSpec == TxnInit /\ [][TxnNext]_vars

-----------------------------------------------------------------------------
(***************************************************************************)
(* Properties.                                                             *)
(***************************************************************************)
Phases == {"idle", "reserved", "done"} \cup Reserving \cup Completing

Ask == [key : Keys, fp : Fingerprints, received : Times, quota : QuotaPairs]

Kinds == {"NEW", "REPLAY", "CONFLICT", "IN_PROGRESS", "ABANDONED", "FULL", "THROTTLED"}

\* The shape of the state.
TxnTypeOK ==
    /\ LedgerTypeOK
    /\ phase \in [Callers -> Phases]
    /\ ask \in [Callers -> Ask \cup {Unasked}]
    /\ \A c \in Callers : phase[c] # "idle" => ask[c] \in Ask
    /\ kind \in [Callers -> Kinds \cup {"none"}]
    /\ grant \in [Callers -> BOOLEAN]
    /\ write \in [Callers -> Outcomes \cup {"NONE"}]
    /\ deadline \in [Callers -> Int]
    /\ reply \in [Callers -> Outcomes \cup Kinds \cup {"none", "unavailable"}]
    /\ gone \subseteq Callers
    /\ lock \in Callers \cup {Nobody}
    /\ rowLock \in [Keys -> Callers \cup {Nobody}]

\* Nobody is told what is not so: a caller told NEW holds the one row of its
\* request, and a caller told an outcome finds it recorded, whatever the other
\* transactions did, lost or committed late.
RepliesAreTrue ==
    \A c \in Callers :
        /\ reply[c] = "NEW" =>
              /\ Key(c) \in RECORDED
              /\ rows[Key(c)].fingerprint = ask[c].fp
              /\ rows[Key(c)].received = ask[c].received
              /\ \A d \in Callers \ {c} : reply[d] = "NEW" => Key(d) # Key(c)
        /\ reply[c] \in Outcomes => rows[Key(c)].outcome = reply[c]

\* The transactions implement the ledger's atomic operations.
ImplementsLedger == LedgerSpec

\* Whom the next statement of c waits for.
Blocking(c) ==
    {d \in Callers \ {c} :
        \/ phase[c] = "lock" /\ d = lock
        \/ phase[c] = "select" /\ Key(c) \in RECORDED /\ d = rowLock[Key(c)]
        \/ phase[c] = "wait" /\ d = rowLock[Key(c)]}

\* No transaction waits for ever, even if no timeout ever fires: whoever is waited for
\* is a transaction that has not ended, and waits, if at all, for one that waits for
\* nobody.  The advisory lock and the row locks are neither waited for in a circle nor
\* kept by the dead.
WaitsEnd ==
    \A c \in Callers : \A d \in Blocking(c) :
        InTransaction(d) /\ \A e \in Blocking(d) : Blocking(e) = {}
=============================================================================
