----------------------------- MODULE RadarRoute -----------------------------
(***************************************************************************)
(* POST /v1/automation/radar-evidence: RadarEvidenceService of             *)
(* src/crypto_probability_engine/automation/service.py over the ledger.    *)
(* Every call is a thread of its own; it reserves its key, takes a slot,   *)
(* submits the analysis, waits for it within its deadline, and records the *)
(* outcome before it answers.  Threads interleave at every lock, database  *)
(* round trip and wait.  The process may crash between any two steps; the  *)
(* ledger survives.                                                        *)
(*                                                                         *)
(* A ledger operation takes effect at one instant here, or not at all; its *)
(* reply may be lost on the way back, and the call is then told            *)
(* LEDGER_UNAVAILABLE.  The statement that records a success reads the     *)
(* clock before that instant: it may wait for the row in between, and the  *)
(* commit follows it.  Admission (the switch, the credential) is           *)
(* RadarAdmission's: the calls of this module are the admitted ones.       *)
(*                                                                         *)
(* Clocks: `mono` is the monotonic clock and the database's; the           *)
(* application's wall clock is mono + skew and may step.                   *)
(***************************************************************************)
EXTENDS RadarLedger

CONSTANTS
    Calls,              \* the HTTP requests; a retry is another call
    QuotaChoices,       \* the quota pairs the environment may configure
    MaxConcurrent,      \* MAX_CONCURRENT_ANALYSES
    RecordReserve,      \* RECORD_RESERVE_SECONDS
    MinRecord,          \* MIN_RECORD_SECONDS
    CommitReserve,      \* COMMIT_RESERVE_SECONDS
    MaxSkew,            \* how far the wall clock ever steps
    MaxTime             \* bound: the monotonic clock stops here

VARIABLES           \* beside rows, the ledger
    pc,         \* where each call is
    req,        \* what each call asked, and when
    code,       \* the outcome a call is about to record
    job,        \* the analysis each call submitted
    answer,     \* what each caller was told
    free,       \* the concurrency gate: slots left
    mono, skew  \* the clocks

callVars == <<pc, req, code, job, answer>>
vars == <<rows, callVars, free, mono, skew>>

-----------------------------------------------------------------------------
WallClock == mono + skew

BudgetEnd(c) == req[c].arrived + DeadlineOf[req[c].fp]

\* What a call is told that is no recorded outcome.
Unrecorded == {"MALFORMED_REQUEST", "LEDGER_UNAVAILABLE", "UNRECORDED_FAILURE",
               "THROTTLED", "IDEMPOTENCY_CONFLICT", "REQUEST_IN_PROGRESS"}

\* THROTTLED is answered as QUOTA_EXCEEDED, and UNRECORDED_FAILURE, the catch-all
\* of handle_admitted, as ANALYSIS_FAILED: here they keep names of their own, to
\* tell them from the refusals of the same code that are recorded.
Answers == Outcomes \cup Unrecorded

\* _analysis_error: how an analysis that raised is refused.  A TimeoutError of
\* its own is taken for the one of the wait, and refused as the deadline.
JobRefusals == (AnalysisRefusals \ {"CONTRACT_VIOLATION"})
                   \cup {"DEADLINE_EXCEEDED"}

\* build_radar_evidence: evidence off live data, or that breaks the contract.
BuildRefusals == AnalysisRefusals \ {"ANALYSIS_FAILED", "UNSUPPORTED_SYMBOL"}

Endings == {"none", "running", "evidence", "dead"}
JobStates == Endings \cup JobRefusals

ASSUME RouteAssumption ==
    /\ QuotaChoices \subseteq QuotaPairs
    /\ {"ANALYSIS_FAILED", "CONTRACT_VIOLATION"} \subseteq AnalysisRefusals
    /\ AnalysisRefusals \cap (Unrecorded \cup Endings) = {}
    /\ IsFiniteSet(Calls)
    /\ Times = 0..(MaxTime + MaxSkew)
    /\ MaxConcurrent \in Nat \ {0}
    /\ RecordReserve \in Nat /\ MinRecord \in Nat /\ CommitReserve \in Nat
    /\ MaxSkew \in Nat /\ MaxTime \in Nat

Unasked == [key |-> "none"]

Goto(c, label) == pc' = [pc EXCEPT ![c] = label]

Tell(c, what) ==
    /\ Goto(c, "done")
    /\ answer' = [answer EXCEPT ![c] = what]

\* _finish: the refusal to be recorded against the reserved key.
Refuse(c, what) ==
    /\ Goto(c, "finish")
    /\ code' = [code EXCEPT ![c] = what]

\* The calls that hold a slot: between the gate and the submit, and while the
\* analysis thread has not ended with its done-callback run.
Holders == {c \in Calls : pc[c] = "submit" \/ job[c].slot}

Clocks == <<mono, skew>>

-----------------------------------------------------------------------------
Init ==
    /\ LedgerInit
    /\ pc = [c \in Calls |-> "idle"]
    /\ req = [c \in Calls |-> Unasked]
    /\ code = [c \in Calls |-> "none"]
    /\ job = [c \in Calls |-> [state |-> "none", slot |-> FALSE]]
    /\ answer = [c \in Calls |-> "none"]
    /\ free = MaxConcurrent
    /\ mono = 0
    /\ skew = 0

\* The route stamps the arrival on the monotonic clock, and _admit the reception
\* on the wall clock, both before the credential is looked up and the body read.
\* Bound: a call arrives early enough for its deadline to pass.
Arrive(c, k, fp, q) ==
    /\ pc[c] = "idle"
    /\ mono + DeadlineOf[fp] <= MaxTime
    /\ req' = [req EXCEPT ![c] =
                  [key |-> k, fp |-> fp, quota |-> q, arrived |-> mono,
                   received |-> WallClock, deadlineAt |-> 0]]
    /\ Goto(c, "prepare")
    /\ UNCHANGED <<rows, code, job, answer, free, Clocks>>

\* The deadline as an instant of the wall clock: now plus what is left.
DeadlineAt(c) == WallClock + (BudgetEnd(c) - mono)

\* The body is read (too large, too slow or malformed: refused), the request
\* parsed and its deadline turned into a wall-clock instant.  Anything unexpected
\* is answered by the catch-all of handle_admitted.
Prepare(c) ==
    /\ pc[c] = "prepare"
    /\ \/ /\ req' = [req EXCEPT ![c].deadlineAt = DeadlineAt(c)]
          /\ Goto(c, "reserve")
          /\ UNCHANGED answer
       \/ /\ \E what \in {"MALFORMED_REQUEST", "UNRECORDED_FAILURE"} : Tell(c, what)
          /\ UNCHANGED req
    /\ UNCHANGED <<rows, code, job, free, Clocks>>

\* The ledger operation fails and leaves no trace.
LedgerFails(c) ==
    /\ pc[c] \in {"reserve", "finish", "record", "write"}
    /\ Tell(c, "LEDGER_UNAVAILABLE")
    /\ UNCHANGED <<rows, req, code, job, free, Clocks>>

KindOf(c) ==
    ReserveKind(req[c].key, req[c].fp, req[c].received, req[c].quota[2])

\* A NEW key: its row is inserted with the counts of its windows, and the call
\* goes on to the gate, or refuses itself when a quota is used up.
ReserveNew(c) ==
    LET r == req[c]
        granted == QuotaAllows(r.key[1], r.received, r.quota[1], r.quota[2])
    IN  /\ pc[c] = "reserve"
        /\ KindOf(c) = "NEW"
        /\ Insert(r.key, NewRow(r.fp, r.received, granted))
        /\ \/ granted /\ Goto(c, "gate") /\ UNCHANGED <<code, answer>>
           \/ ~granted /\ Refuse(c, "QUOTA_EXCEEDED") /\ UNCHANGED answer
           \/ Tell(c, "LEDGER_UNAVAILABLE") /\ UNCHANGED code
        /\ UNCHANGED <<req, job, free, Clocks>>

\* Mutant of ReserveKnown: an abandoned key is handed to the repeat to run.
ReserveKnown_RunsAgain(c) ==
    /\ pc[c] = "reserve"
    /\ LET kind == KindOf(c) IN
         \/ kind = "ABANDONED" /\ Goto(c, "gate") /\ UNCHANGED <<code, answer>>
         \/ /\ kind = "REPLAY"
            /\ Tell(c, rows[req[c].key].outcome) /\ UNCHANGED code
         \/ /\ kind \in {"IN_PROGRESS", "CONFLICT", "FULL", "THROTTLED"}
            /\ Tell(c, "REQUEST_IN_PROGRESS") /\ UNCHANGED code
    /\ UNCHANGED <<rows, req, job, free, Clocks>>

\* Every other kind writes nothing: the recorded answer is replayed, an
\* abandoned key is closed, never run again, and the rest is refused.
ReserveKnown(c) ==
    /\ pc[c] = "reserve"
    /\ LET kind == KindOf(c) IN
         \/ /\ kind = "ABANDONED"
            /\ Refuse(c, "DEADLINE_EXCEEDED") /\ UNCHANGED answer
         \/ /\ kind = "REPLAY"
            /\ Tell(c, rows[req[c].key].outcome) /\ UNCHANGED code
         \/ /\ kind = "IN_PROGRESS"
            /\ Tell(c, "REQUEST_IN_PROGRESS") /\ UNCHANGED code
         \/ /\ kind = "CONFLICT"
            /\ Tell(c, "IDEMPOTENCY_CONFLICT") /\ UNCHANGED code
         \/ kind = "FULL" /\ Tell(c, "LEDGER_UNAVAILABLE") /\ UNCHANGED code
         \/ kind = "THROTTLED" /\ Tell(c, "THROTTLED") /\ UNCHANGED code
    /\ UNCHANGED <<rows, req, job, free, Clocks>>

\* ConcurrencyGate.try_acquire: a busy gate refuses at once.
TryAcquire(c) ==
    /\ pc[c] = "gate"
    /\ \/ /\ free > 0
          /\ free' = free - 1
          /\ Goto(c, "submit")
          /\ UNCHANGED code
       \/ /\ free = 0
          /\ Refuse(c, "CONCURRENCY_LIMIT")
          /\ UNCHANGED free
    /\ UNCHANGED <<rows, req, job, answer, Clocks>>

\* No budget left for an analysis, or the executor refuses the job.
SubmitRefused(c) ==
    /\ pc[c] = "submit"
    /\ free' = free + 1
    /\ \/ BudgetEnd(c) - mono - RecordReserve <= 0 /\ Refuse(c, "DEADLINE_EXCEEDED")
       \/ BudgetEnd(c) - mono - RecordReserve > 0 /\ Refuse(c, "ANALYSIS_FAILED")
    /\ UNCHANGED <<rows, req, job, answer, Clocks>>

Submit(c) ==
    /\ pc[c] = "submit"
    /\ BudgetEnd(c) - mono - RecordReserve > 0
    /\ job' = [job EXCEPT ![c] = [state |-> "running", slot |-> TRUE]]
    /\ Goto(c, "wait")
    /\ UNCHANGED <<rows, req, code, answer, free, Clocks>>

\* The analysis ends, whether or not its caller still waits.
JobEnd(c) ==
    /\ job[c].state = "running"
    /\ \E result \in JobRefusals \cup {"evidence"} :
          job' = [job EXCEPT ![c].state = result]
    /\ UNCHANGED <<rows, pc, req, code, answer, free, Clocks>>

\* Mutant of SlotRelease: the slot is given back although the analysis runs on.
SlotRelease_OnTimeout(c) ==
    /\ job[c].slot
    /\ job[c].state # "running" \/ pc[c] # "wait"
    /\ job' = [job EXCEPT ![c].slot = FALSE]
    /\ free' = free + 1
    /\ UNCHANGED <<rows, pc, req, code, answer, Clocks>>

\* The future's done-callback gives the slot back, after the result is visible.
SlotRelease(c) ==
    /\ job[c].slot
    /\ job[c].state # "running"
    /\ job' = [job EXCEPT ![c].slot = FALSE]
    /\ free' = free + 1
    /\ UNCHANGED <<rows, pc, req, code, answer, Clocks>>

\* Mutant of WaitResult: an analysis that failed is taken for evidence.
WaitResult_Unchecked(c) ==
    /\ pc[c] = "wait"
    /\ job[c].state # "running"
    /\ Goto(c, "build")
    /\ UNCHANGED <<rows, req, code, job, answer, free, Clocks>>

\* future.result(timeout): the result as soon as there is one.
WaitResult(c) ==
    /\ pc[c] = "wait"
    /\ job[c].state # "running"
    /\ \/ job[c].state = "evidence" /\ Goto(c, "build") /\ UNCHANGED code
       \/ job[c].state # "evidence" /\ Refuse(c, job[c].state)
    /\ UNCHANGED <<rows, req, job, answer, free, Clocks>>

\* Mutant of WaitTimeout: the wait has no timeout.
WaitTimeout_Unbounded(c) == FALSE /\ c \in Calls

WaitTimeout(c) ==
    /\ pc[c] = "wait"
    /\ job[c].state = "running"
    /\ mono >= BudgetEnd(c) - RecordReserve
    /\ Refuse(c, "DEADLINE_EXCEEDED")
    /\ UNCHANGED <<rows, req, job, answer, free, Clocks>>

\* The evidence body is built and validated; a body that breaks the contract or
\* its size bound is withheld, and one built too late is refused.  What nobody
\* expected goes to the catch-all, and the row stays pending.
Build(c) ==
    /\ pc[c] = "build"
    /\ \/ /\ \E refusal \in BuildRefusals : Refuse(c, refusal)
          /\ UNCHANGED answer
       \/ /\ BudgetEnd(c) - mono < MinRecord
          /\ Refuse(c, "DEADLINE_EXCEEDED") /\ UNCHANGED answer
       \/ /\ BudgetEnd(c) - mono >= MinRecord
          /\ Goto(c, "record") /\ UNCHANGED <<code, answer>>
       \/ Tell(c, "UNRECORDED_FAILURE") /\ UNCHANGED code
    /\ UNCHANGED <<rows, req, job, free, Clocks>>

Pending(c) ==
    /\ req[c].key \in DOMAIN rows
    /\ rows[req[c].key].state = "IN_PROGRESS"

\* Mutant of OnTime: the commit's margin is not kept back.
OnTime_NoMargin(c) == mono <= req[c].deadlineAt

\* clock_timestamp() <= deadline_at_utc, the commit's margin kept back.
OnTime(c) == mono <= req[c].deadlineAt - CommitReserve

\* complete_success up to its verdict: the UPDATE's clause is evaluated on the
\* pending row, before the row is locked or waited for.  A row that fails it by
\* the clock is left to the second UPDATE of the transaction, the lateness.
CheckDeadline(c) ==
    /\ pc[c] = "record"
    /\ Pending(c)
    /\ code' = [code EXCEPT ![c] = IF OnTime(c) THEN "SUCCEEDED"
                                               ELSE "DEADLINE_EXCEEDED"]
    /\ Goto(c, "write")
    /\ UNCHANGED <<rows, req, job, answer, free, Clocks>>

\* The rest of it, at any later instant: a row that was only locked meanwhile is
\* written, without another look at the clock, and committed.
RecordSuccess(c) ==
    /\ pc[c] = "write"
    /\ Pending(c)
    /\ Complete(req[c].key, code[c])
    /\ Tell(c, code[c]) \/ Tell(c, "LEDGER_UNAVAILABLE")
    /\ UNCHANGED <<req, code, job, free, Clocks>>

\* Mutant of RecordRefusal: the UPDATE overwrites whatever is recorded.
RecordRefusal_Overwrites(c) ==
    /\ pc[c] = "finish"
    /\ rows' = [rows EXCEPT ![req[c].key] =
                    CompletedRow(rows[req[c].key], code[c])]
    /\ Tell(c, code[c])
    /\ UNCHANGED <<req, code, job, free, Clocks>>

\* complete, called by _finish: the refusal is recorded, then answered.
RecordRefusal(c) ==
    /\ pc[c] = "finish"
    /\ Pending(c)
    /\ Complete(req[c].key, code[c])
    /\ Tell(c, code[c]) \/ Tell(c, "LEDGER_UNAVAILABLE")
    /\ UNCHANGED <<req, code, job, free, Clocks>>

\* No UPDATE finds the row in progress: somebody else closed it, before it was
\* looked at or while it was waited for.
AlreadyClosed(c) ==
    /\ pc[c] \in {"finish", "record", "write"}
    /\ ~Pending(c)
    /\ Tell(c, "LEDGER_UNAVAILABLE")
    /\ UNCHANGED <<rows, req, code, job, free, Clocks>>

-----------------------------------------------------------------------------
\* The process dies: calls, analyses and slots with it.
Crash ==
    /\ pc' = [c \in Calls |-> IF pc[c] \in {"idle", "done"} THEN pc[c] ELSE "lost"]
    /\ pc' # pc \/ \E c \in Calls : job[c].slot
    /\ job' = [c \in Calls |->
                  IF job[c].state = "none" THEN job[c]
                  ELSE [state |-> "dead", slot |-> FALSE]]
    /\ free' = MaxConcurrent
    /\ UNCHANGED <<rows, req, code, answer, Clocks>>

\* Bound: MaxTime.
Tick ==
    /\ mono < MaxTime
    /\ mono' = mono + 1
    /\ UNCHANGED <<rows, callVars, free, skew>>

\* The wall clock is stepped (NTP), forward or back.
StepWallClock ==
    /\ skew' \in (0..MaxSkew) \ {skew}
    /\ UNCHANGED <<rows, callVars, free, mono>>

\* What the call's own thread does.
CallStep(c) ==
    \/ Prepare(c) \/ LedgerFails(c) \/ ReserveNew(c) \/ ReserveKnown(c)
    \/ TryAcquire(c) \/ SubmitRefused(c) \/ Submit(c)
    \/ WaitResult(c) \/ WaitTimeout(c) \/ Build(c)
    \/ CheckDeadline(c) \/ RecordSuccess(c) \/ RecordRefusal(c) \/ AlreadyClosed(c)

Next ==
    \/ \E c \in Calls :
          \/ \E k \in Keys, fp \in Fingerprints, q \in QuotaChoices : Arrive(c, k, fp, q)
          \/ CallStep(c) \/ JobEnd(c) \/ SlotRelease(c)
    \/ Crash \/ Tick \/ StepWallClock

Spec == Init /\ [][Next]_vars

\* Threads are scheduled, every ledger operation ends within its timeouts, and
\* time passes.  Nothing makes an analysis end, a caller come back or a process
\* survive.
Fairness ==
    /\ WF_vars(Tick)
    /\ \A c \in Calls : WF_vars(CallStep(c))

FairSpec == Spec /\ Fairness

-----------------------------------------------------------------------------
(***************************************************************************)
(* Properties.                                                             *)
(***************************************************************************)
Labels == {"idle", "prepare", "reserve", "gate", "submit", "wait", "build",
           "record", "write", "finish", "done", "lost"}

Request == [key : Keys, fp : Fingerprints, quota : QuotaChoices,
            arrived : 0..MaxTime, received : Times,
            deadlineAt : Int]

\* The shape of the state; a call past its arrival has a request.
TypeOK ==
    /\ LedgerTypeOK
    /\ pc \in [Calls -> Labels]
    /\ req \in [Calls -> Request \cup {Unasked}]
    /\ \A c \in Calls : pc[c] # "idle" => req[c] \in Request
    /\ code \in [Calls -> Outcomes \cup {"none"}]
    /\ job \in [Calls -> [state : JobStates, slot : BOOLEAN]]
    /\ answer \in [Calls -> Answers \cup {"none"}]
    /\ free \in 0..MaxConcurrent
    /\ mono \in 0..MaxTime
    /\ skew \in 0..MaxSkew

\* Idempotency: whatever is retried, lost or crashed, a key is analysed at most
\* once in its life.
AnalysedOnce ==
    \A c, d \in Calls :
        (c # d /\ job[c].state # "none" /\ job[d].state # "none")
            => req[c].key # req[d].key

\* The ledger never says less than the caller was told: every outcome a caller
\* holds is the one its row records, so all its repeats are told the same.
ToldIsRecorded ==
    \A c \in Calls :
        answer[c] \in Outcomes =>
            /\ req[c].key \in DOMAIN rows
            /\ rows[req[c].key].outcome = answer[c]

\* Only evidence succeeds: a row says SUCCEEDED only for a key whose own analysis
\* yielded evidence, or did until the process died.
SuccessHasEvidence ==
    \A k \in DOMAIN rows :
        rows[k].outcome = "SUCCEEDED" =>
            \E c \in Calls : pc[c] # "idle" /\ req[c].key = k
                              /\ job[c].state \in {"evidence", "dead"}

\* A slot is held by exactly one call and none is lost: what the gate has left
\* and what is held always add up, so at most MaxConcurrent analyses run.
SlotsAddUp ==
    /\ free + Cardinality(Holders) = MaxConcurrent
    /\ \A c \in Calls : job[c].state = "running" => job[c].slot

\* The statement lets the outcome of c through as a success.
LetsThrough(c) == pc[c] = "record" /\ pc'[c] = "write" /\ code'[c] = "SUCCEEDED"

\* The deadline contract, as the service states it: whatever records a success was
\* let through while the caller's own budget, counted from the arrival, still had
\* the commit's margin left, up to the gap between the two clocks.  The write and
\* its commit follow the check, and no deadline bounds them.
SuccessOnTime ==
    [][/\ \A c \in Calls :
              LetsThrough(c) => mono + CommitReserve <= BudgetEnd(c) + MaxSkew
       /\ \A k \in DOMAIN rows :
              (rows[k].state = "IN_PROGRESS" /\ rows'[k].outcome = "SUCCEEDED")
                  => \E c \in Calls : /\ pc[c] = "write" /\ code[c] = "SUCCEEDED"
                                      /\ req[c].key = k]_vars

\* Nobody closes a key under a call that can still win: while the grace covers
\* the clock's steps, a repeat closes it only when the call's budget is spent.
ClosedOnlyWhenSpent ==
    [][AbandonGrace >= MaxSkew =>
         \A c, d \in Calls :
            (/\ c # d
             /\ pc[c] \in {"gate", "submit", "wait", "build", "record", "write"}
             /\ pc[d] = "finish" /\ pc'[d] = "done"
             /\ req[c].key = req[d].key
             /\ rows'[req[c].key] # rows[req[c].key])
                => mono >= BudgetEnd(c)]_vars

\* Every admitted call is answered, even one whose analysis never ends, unless
\* the process dies under it.
EveryCallAnswered ==
    \A c \in Calls : pc[c] = "prepare" ~> pc[c] \in {"done", "lost"}

\* The service uses the ledger as RadarLedger specifies it.
ImplementsLedger == LedgerSpec

Settled == [k \in Keys |-> IF k \in DOMAIN rows /\ rows[k].state = "COMPLETED"
                           THEN rows[k].outcome ELSE "none"]

Analysed == {<<c, req[c].key>> : c \in {d \in Calls : job[d].state # "none"}}

Told == {<<c, req[c].key, answer[c]>> :
            c \in {d \in Calls : answer[d] \in Outcomes}}

Promise == INSTANCE RadarPromise
    WITH Callers <- Calls, Outcomes <- Outcomes,
         claimed <- DOMAIN rows,
         analysed <- Analysed, settled <- Settled, told <- Told

\* The service keeps the promise the consumers rely on: claimed once, analysed at
\* most once, settled once, and told only what is settled.
KeepsPromise == Promise!Spec
=============================================================================
