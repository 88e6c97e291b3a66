---------------------------- MODULE SavePipeline ----------------------------
(***************************************************************************)
(* The background save of an analysis (api/analysis_service.py): a bounded *)
(* queue and two worker threads, the circuit of the REST repository        *)
(* (persistence/repository.py), the one-transaction bundle of migration    *)
(* 0017, the receipt it settles, and the reconciliation of unknown commits *)
(* (api/commit_reconciliation.py).                                         *)
(*                                                                         *)
(* A transaction whose client has given up may still commit: the server    *)
(* decides it in a step of its own.  Run ids are fresh, so a bundle never  *)
(* conflicts with a stored one.  The rows written before the bundle share  *)
(* one representative, the timeframe result.                               *)
(***************************************************************************)
EXTENDS SaveReceipts, FiniteSets

CONSTANTS
    Workers,            \* max_workers of _PERSISTENCE_EXECUTOR
    MaxJobs,            \* _MAX_IN_FLIGHT_PERSISTENCE_JOBS
    UnknownCapacity,    \* CAPACITY of UnknownCommits
    MaxAttempts         \* MAX_ATTEMPTS of decide

ASSUME PipelineAssumption ==
    /\ Workers \in Nat \ {0} /\ MaxJobs \in Nat \ {0}
    /\ UnknownCapacity \in Nat \ {0} /\ MaxAttempts \in Nat \ {0}

VARIABLES
    stage,      \* stage[r]: how far the save of run r has come
    bundle,     \* bundle[r]: what the analysis left to be saved
    auxOk,      \* auxOk[r]: no row before the bundle was refused
    receipt,    \* receipt[r]: the confirmation's receipt of plan 8.1
    due,        \* due[r]: the unknown commits this worker still has to read
    answer,     \* answer[r]: what its strict read returned
    permits,    \* _PERSISTENCE_ADMISSION
    queue,      \* the queue of the executor
    circuit,    \* the circuit of the repository
    unknown,    \* _UNKNOWN_COMMITS, oldest first
    rpc,        \* rpc[r]: the transaction of save_forecast_bundle
    finals      \* finals[r]: the final persistence_reconciled events, in order

workVars == <<stage, bundle, auxOk, receipt, due, answer>>
sharedVars == <<permits, queue, circuit, unknown, rpc, finals>>
pipelineVars == <<receiptVars, workVars, sharedVars>>

-----------------------------------------------------------------------------
UnknownCommit == [run : Runs, attempts : Nat]
Reasons == {"COMMITTED", "NOT_COMMITTED", "EXPIRED"}

Admitted == {"queued", "aux", "auxwait", "bundle", "send", "sent",
             "settle", "reconcile", "round", "reading", "decide"}
Running == Admitted \ {"queued"}
InFlight == {"auxwait", "sent", "reading"}
In(stages) == {r \in Runs : stage[r] \in stages}

Goto(r, next) == stage' = [stage EXCEPT ![r] = next]

\* The permit is released when the work ends, in whatever way it ends.
Finish(r) == Goto(r, "done") /\ permits' = permits + 1

-----------------------------------------------------------------------------
\* The circuit: closed while the last request succeeded, open while it cools,
\* and half open afterwards, when one trial request may be sent.
Closed == [status |-> "OK", cooling |-> FALSE, trial |-> FALSE]
Unavailable == [status |-> "UNAVAILABLE", cooling |-> TRUE, trial |-> FALSE]
CircuitOpen == circuit.status = "UNAVAILABLE" /\ circuit.cooling

CanAttempt == circuit.status = "OK" \/ (~circuit.cooling /\ ~circuit.trial)
Attempt == circuit' = [circuit EXCEPT !.trial = @ \/ circuit.status # "OK"]
MarkOk == circuit' = Closed

\* Mutant of MarkUnavailable: the trial that has failed is not given back.
MarkUnavailable_KeepsTrial ==
    circuit' = [Unavailable EXCEPT !.trial = circuit.trial]

MarkUnavailable == circuit' = Unavailable

Cool ==
    /\ circuit.cooling
    /\ circuit' = [circuit EXCEPT !.cooling = FALSE]
    /\ UNCHANGED <<receiptVars, workVars, permits, queue, unknown, rpc, finals>>

-----------------------------------------------------------------------------
PipelineInit ==
    /\ ReceiptsInit /\ stateless = FALSE
    /\ stage = [r \in Runs |-> "none"]
    /\ bundle = [r \in Runs |-> "none"]
    /\ auxOk = [r \in Runs |-> TRUE]
    /\ receipt = [r \in Runs |-> "NONE"]
    /\ due = [r \in Runs |-> <<>>]
    /\ answer = [r \in Runs |-> "none"]
    /\ permits = MaxJobs
    /\ queue = <<>>
    /\ circuit = Closed
    /\ unknown = <<>>
    /\ rpc = [r \in Runs |-> "none"]
    /\ finals = [r \in Runs |-> <<>>]

Analyse(r) == Put(r) /\ UNCHANGED <<workVars, sharedVars>>

\* The response is sent with the save scheduled, and with a receipt if a user
\* asked for the analysis.  The analysis may have no forecast row (demo data),
\* or a snapshot that could not be built.
Schedule(r) ==
    /\ stage[r] = "none"
    /\ \/ Open(r)
       \/ /\ r \in OtherOrigin /\ request[r] = "scheduled"
          /\ UNCHANGED receiptVars
    /\ Goto(r, "scheduled")
    /\ \E kind \in {"whole", "partial", "none"} :
          bundle' = [bundle EXCEPT ![r] = kind]
    /\ UNCHANGED <<auxOk, receipt, due, answer, sharedVars>>

Submit(r) ==
    /\ stage[r] = "scheduled"
    /\ permits > 0
    /\ permits' = permits - 1
    /\ queue' = Append(queue, r)
    /\ Goto(r, "queued")
    /\ UNCHANGED <<receiptVars, bundle, auxOk, receipt, due, answer,
                   circuit, unknown, rpc, finals>>

\* The queue is full, or the executor takes no more work: nothing is sent.
SubmitRefused(r) ==
    /\ stage[r] = "scheduled"
    /\ MarkUnavailable
    /\ SettleRecord(r, "FAILED")
    /\ Goto(r, "done")
    /\ UNCHANGED <<bundle, auxOk, receipt, due, answer,
                   permits, queue, unknown, rpc, finals>>

StartSave(r) ==
    /\ queue # <<>> /\ r = Head(queue)
    /\ Cardinality(In(Running)) < Workers
    /\ queue' = Tail(queue)
    /\ Goto(r, "aux")
    /\ UNCHANGED <<receiptVars, bundle, auxOk, receipt, due, answer,
                   permits, circuit, unknown, rpc, finals>>

-----------------------------------------------------------------------------
\* _persist_work_confirmed: the rows before the bundle, then the bundle.
SaveAux(r) ==
    /\ stage[r] = "aux"
    /\ IF CanAttempt
       THEN Attempt /\ Goto(r, "auxwait") /\ UNCHANGED auxOk
       ELSE Goto(r, "bundle") /\ auxOk' = [auxOk EXCEPT ![r] = FALSE]
            /\ UNCHANGED circuit
    /\ UNCHANGED <<receiptVars, bundle, receipt, due, answer,
                   permits, queue, unknown, rpc, finals>>

AuxReply(r, ok) ==
    /\ stage[r] = "auxwait"
    /\ IF ok THEN MarkOk ELSE MarkUnavailable
    /\ auxOk' = [auxOk EXCEPT ![r] = ok]
    /\ Goto(r, "bundle")
    /\ UNCHANGED <<receiptVars, bundle, receipt, due, answer,
                   permits, queue, unknown, rpc, finals>>

Receipt(r, state) ==
    /\ receipt' = [receipt EXCEPT ![r] = state]
    /\ Goto(r, "settle")

\* An exception while no bundle is being written: it was not attempted.
SaveRaises(r) ==
    /\ stage[r] = "aux"
    /\ MarkUnavailable
    /\ Receipt(r, IF bundle[r] = "none" THEN "NONE" ELSE "NOT_SAVED")
    /\ UNCHANGED <<receiptVars, bundle, auxOk, due, answer,
                   permits, queue, unknown, rpc, finals>>

\* Without a prediction row there is no bundle; an open circuit would refuse it.
CheckCircuit(r) ==
    /\ stage[r] = "bundle"
    /\ IF bundle[r] = "none" THEN Receipt(r, "NONE")
       ELSE IF CircuitOpen THEN Receipt(r, "NOT_SAVED")
       ELSE Goto(r, "send") /\ UNCHANGED receipt
    /\ UNCHANGED <<receiptVars, bundle, auxOk, due, answer, sharedVars>>

\* The circuit may have opened since, or another trial may be running: the
\* request is refused unsent, and its receipt is UNAVAILABLE like a lost one.
SendBundle(r) ==
    /\ stage[r] = "send"
    /\ IF CanAttempt
       THEN /\ Attempt
            /\ Goto(r, "sent")
            /\ rpc' = [rpc EXCEPT ![r] = "open"]
            /\ UNCHANGED receipt
       ELSE Receipt(r, "COMMIT_UNKNOWN") /\ UNCHANGED <<circuit, rpc>>
    /\ UNCHANGED <<receiptVars, bundle, auxOk, due, answer,
                   permits, queue, unknown, finals>>

\* The server's own steps: it commits the transaction, or it does not, also
\* after its client has given up or died.  A run no user asked for is stored
\* without the detail a receipt is about.
ServerCommits(r) ==
    /\ rpc[r] = "open"
    /\ rpc' = [rpc EXCEPT ![r] = "committed"]
    /\ IF r \in OtherOrigin THEN UNCHANGED receiptVars ELSE Commit(r)
    /\ UNCHANGED <<workVars, permits, queue, circuit, unknown, finals>>

ServerRollsBack(r) ==
    /\ rpc[r] = "open"
    /\ rpc' = [rpc EXCEPT ![r] = "rolledback"]
    /\ UNCHANGED <<receiptVars, workVars, permits, queue, circuit, unknown, finals>>

\* _bundle_receipt of a confirmed answer.
Confirmed(r) == IF bundle[r] = "whole" THEN "SAVED" ELSE "NOT_SAVED"

BundleConfirmed(r) ==
    /\ stage[r] = "sent"
    /\ rpc[r] = "committed"
    /\ MarkOk
    /\ Receipt(r, Confirmed(r))
    /\ UNCHANGED <<receiptVars, bundle, auxOk, due, answer,
                   permits, queue, unknown, rpc, finals>>

\* Mutant of BundleUnconfirmed: no confirmation is taken for no commit.
BundleUnconfirmed_NotSaved(r) ==
    /\ stage[r] = "sent"
    /\ MarkUnavailable
    /\ Receipt(r, "NOT_SAVED")
    /\ UNCHANGED <<receiptVars, bundle, auxOk, due, answer,
                   permits, queue, unknown, rpc, finals>>

\* A timeout, an error, or an answer that cannot be read.
BundleUnconfirmed(r) ==
    /\ stage[r] = "sent"
    /\ MarkUnavailable
    /\ Receipt(r, "COMMIT_UNKNOWN")
    /\ UNCHANGED <<receiptVars, bundle, auxOk, due, answer,
                   permits, queue, unknown, rpc, finals>>

\* An incomplete bundle opens the circuit although the store has answered.
SnapshotIssue(r) == receipt[r] = "NOT_SAVED" /\ rpc[r] = "committed" /\ auxOk[r]

\* Mutant of SettleReceipt: an unknown commit is hoped for.
SettleReceipt_Optimistic(r) ==
    /\ stage[r] = "settle"
    /\ IF SnapshotIssue(r) THEN MarkUnavailable ELSE UNCHANGED circuit
    /\ SettleRecord(r, IF receipt[r] \in {"SAVED", "COMMIT_UNKNOWN"}
                       THEN "SAVED" ELSE "FAILED")
    /\ IF receipt[r] \in {"SAVED", "COMMIT_UNKNOWN"}
       THEN Goto(r, "reconcile") /\ UNCHANGED permits
       ELSE Finish(r)
    /\ UNCHANGED <<bundle, auxOk, receipt, due, answer, queue, unknown, rpc, finals>>

\* Mutant of SettleReceipt: an unknown commit waits for its reconciliation.
SettleReceipt_AwaitsRead(r) ==
    /\ stage[r] = "settle"
    /\ IF SnapshotIssue(r) THEN MarkUnavailable ELSE UNCHANGED circuit
    /\ IF receipt[r] = "COMMIT_UNKNOWN" THEN UNCHANGED receiptVars
       ELSE SettleRecord(r, IF receipt[r] = "SAVED" THEN "SAVED" ELSE "FAILED")
    /\ IF receipt[r] \in {"SAVED", "COMMIT_UNKNOWN"}
       THEN Goto(r, "reconcile") /\ UNCHANGED permits
       ELSE Finish(r)
    /\ UNCHANGED <<bundle, auxOk, receipt, due, answer, queue, unknown, rpc, finals>>

\* The end of _persist_work_confirmed, and _settle_save_receipt.
SettleReceipt(r) ==
    /\ stage[r] = "settle"
    /\ IF SnapshotIssue(r) THEN MarkUnavailable ELSE UNCHANGED circuit
    /\ SettleRecord(r, IF receipt[r] = "SAVED" THEN "SAVED" ELSE "FAILED")
    /\ IF receipt[r] \in {"SAVED", "COMMIT_UNKNOWN"}
       THEN Goto(r, "reconcile") /\ UNCHANGED permits
       ELSE Finish(r)
    /\ UNCHANGED <<bundle, auxOk, receipt, due, answer, queue, unknown, rpc, finals>>

-----------------------------------------------------------------------------
\* _reconcile_unknown_commits.  UnknownCommits.add: the oldest is evicted.
AddUnknown(r) ==
    /\ stage[r] = "reconcile"
    /\ receipt[r] = "COMMIT_UNKNOWN"
    /\ LET all == Append(unknown, [run |-> r, attempts |-> 0])
       IN  IF Len(all) > UnknownCapacity
           THEN /\ unknown' = Tail(all)
                /\ finals' = [finals EXCEPT ![Head(all).run] = Append(@, "EXPIRED")]
           ELSE unknown' = all /\ UNCHANGED finals
    /\ Finish(r)
    /\ UNCHANGED <<receiptVars, bundle, auxOk, receipt, due, answer,
                   queue, circuit, rpc>>

\* The lock is held for the copy only: the reads go on without it.
TakeDue(r) ==
    /\ stage[r] = "reconcile"
    /\ receipt[r] = "SAVED"
    /\ due' = [due EXCEPT ![r] = unknown]
    /\ Goto(r, "round")
    /\ UNCHANGED <<receiptVars, bundle, auxOk, receipt, answer, sharedVars>>

RoundEnds(r) ==
    /\ stage[r] = "round"
    /\ due[r] = <<>>
    /\ Finish(r)
    /\ UNCHANGED <<receiptVars, bundle, auxOk, receipt, due, answer,
                   queue, circuit, unknown, rpc, finals>>

Answered(r, what, next) ==
    answer' = [answer EXCEPT ![r] = what] /\ Goto(r, next)

\* read_core_strict.
ReadCore(r) ==
    /\ stage[r] = "round"
    /\ due[r] # <<>>
    /\ IF CanAttempt
       THEN Attempt /\ Goto(r, "reading") /\ UNCHANGED answer
       ELSE Answered(r, "unreadable", "decide") /\ UNCHANGED circuit
    /\ UNCHANGED <<receiptVars, bundle, auxOk, receipt, due,
                   permits, queue, unknown, rpc, finals>>

\* An answer that is not what was asked for is unreadable, and closes the circuit.
ReadReply(r, readable) ==
    /\ stage[r] = "reading"
    /\ IF readable
       THEN /\ MarkOk
            /\ Answered(r, IF rpc[Head(due[r]).run] = "committed" THEN "stored"
                                                                  ELSE "absent", "decide")
       ELSE (MarkOk \/ MarkUnavailable) /\ Answered(r, "unreadable", "decide")
    /\ UNCHANGED <<receiptVars, bundle, auxOk, receipt, due,
                   permits, queue, unknown, rpc, finals>>

\* decide: old says that the entry's TTL had passed when the round began.
Final(pending, what, old) ==
    what # "unreadable" \/ pending.attempts + 1 >= MaxAttempts \/ old

Reason(what) ==
    CASE what = "stored" -> "COMMITTED"
      [] what = "absent" -> "NOT_COMMITTED"
      [] what = "unreadable" -> "EXPIRED"

\* UnknownCommits.apply: an entry another worker has removed is left alone.
Listed == {unknown[i].run : i \in 1 .. Len(unknown)}
Position(r) == CHOOSE i \in 1 .. Len(unknown) : unknown[i].run = r

\* Mutant of Applied: an entry that is gone is written back.
Applied_WritesBack(pending, final) ==
    IF pending.run \notin Listed
    THEN IF final THEN unknown
         ELSE Newest(UnknownCapacity, Append(unknown, [pending EXCEPT !.attempts = @ + 1]))
    ELSE IF final THEN RemoveAt(unknown, Position(pending.run))
    ELSE [unknown EXCEPT ![Position(pending.run)].attempts = @ + 1]

Applied(pending, final) ==
    IF pending.run \notin Listed THEN unknown
    ELSE IF final THEN RemoveAt(unknown, Position(pending.run))
    ELSE [unknown EXCEPT ![Position(pending.run)].attempts = @ + 1]

\* The decision is applied and told; an unreadable store ends the round.
Decide(r, old) ==
    /\ stage[r] = "decide"
    /\ LET pending == Head(due[r])
           final == Final(pending, answer[r], old)
       IN  /\ unknown' = Applied(pending, final)
           /\ finals' = IF final
                        THEN [finals EXCEPT ![pending.run] = Append(@, Reason(answer[r]))]
                        ELSE finals
    /\ due' = [due EXCEPT ![r] = IF answer[r] = "unreadable" THEN <<>> ELSE Tail(@)]
    /\ Answered(r, "none", "round")
    /\ UNCHANGED <<receiptVars, bundle, auxOk, receipt,
                   permits, queue, circuit, rpc>>

-----------------------------------------------------------------------------
\* The process ends and another starts: the server keeps its transactions.
ProcessRestart ==
    /\ Restart /\ stateless' = FALSE
    /\ stage' = [r \in Runs |-> IF stage[r] = "none" THEN "none" ELSE "past"]
    /\ auxOk' = [r \in Runs |-> TRUE]
    /\ receipt' = [r \in Runs |-> "NONE"]
    /\ due' = [r \in Runs |-> <<>>]
    /\ answer' = [r \in Runs |-> "none"]
    /\ permits' = MaxJobs
    /\ queue' = <<>>
    /\ circuit' = Closed
    /\ unknown' = <<>>
    /\ UNCHANGED <<bundle, rpc, finals>>

WorkerStep(r) ==
    \/ StartSave(r) \/ SaveAux(r) \/ SaveRaises(r)
    \/ \E ok \in BOOLEAN : AuxReply(r, ok) \/ ReadReply(r, ok) \/ Decide(r, ok)
    \/ CheckCircuit(r) \/ SendBundle(r) \/ BundleConfirmed(r) \/ BundleUnconfirmed(r)
    \/ SettleReceipt(r) \/ AddUnknown(r) \/ TakeDue(r) \/ RoundEnds(r) \/ ReadCore(r)

SubmitStep(r) == Submit(r) \/ SubmitRefused(r)

PipelineNext ==
    \/ \E r \in Runs :
          \/ Analyse(r) \/ Schedule(r) \/ SubmitStep(r) \/ WorkerStep(r)
          \/ ServerCommits(r) \/ ServerRollsBack(r)
    \/ Cool
    \/ ProcessRestart

PipelineSpec == PipelineInit /\ [][PipelineNext]_pipelineVars

\* The background task and the worker threads keep running, and every request
\* ends: each of its phases has a timeout of its own.
PipelineLive ==
    PipelineSpec /\ \A r \in Runs : WF_pipelineVars(SubmitStep(r))
                                    /\ WF_pipelineVars(WorkerStep(r))

-----------------------------------------------------------------------------
\* The state keeps its shape, and the list of unknown commits its bound.
PipelineTypeOK ==
    /\ stage \in [Runs -> Admitted \cup {"none", "scheduled", "done", "past"}]
    /\ bundle \in [Runs -> {"whole", "partial", "none"}]
    /\ auxOk \in [Runs -> BOOLEAN]
    /\ receipt \in [Runs -> {"NONE", "SAVED", "NOT_SAVED", "COMMIT_UNKNOWN"}]
    /\ due \in [Runs -> Seq(UnknownCommit)]
    /\ answer \in [Runs -> {"none", "stored", "absent", "unreadable"}]
    /\ permits \in 0 .. MaxJobs
    /\ queue \in Seq(Runs) /\ ToSet(queue) = In({"queued"})
    /\ circuit \in [status : {"OK", "UNAVAILABLE"}, cooling : BOOLEAN, trial : BOOLEAN]
    /\ unknown \in Seq(UnknownCommit) /\ Len(unknown) <= UnknownCapacity
    /\ rpc \in [Runs -> {"none", "open", "committed", "rolledback"}]
    /\ finals \in [Runs -> Seq(Reasons)]

\* The permits left and the jobs admitted always add up: no ending of a save
\* loses one, and no refusal gives one back that it never had.
PermitsAddUp == permits + Cardinality(In(Admitted)) = MaxJobs

\* The trial of a half-open circuit belongs to a request that will end: with
\* nobody to end it, the repository would refuse every request for good.
TrialIsInFlight == circuit.trial => In(InFlight) # {}

\* What a save takes it gives back, however it ends: its permit, and the trial of
\* the circuit.
NothingIsLeaked == PermitsAddUp /\ TrialIsInFlight

\* A receipt that says SAVED is of a run whose whole bundle is committed.
SavedIsWhole ==
    \A r \in Runs : record[r] = "SAVED" => bundle[r] = "whole" /\ rpc[r] = "committed"

\* The criterion C5 of scripts/persistence_rehearsal/fault_injection.py:44:
\* NOT_SAVED only when the submission stored no complete bundle, nor ever will.
NotSavedIsExact ==
    \A r \in Runs :
        receipt[r] = "NOT_SAVED" => bundle[r] # "whole" \/ rpc[r] = "none"

\* A commit reconciled as SAVED did happen.  No more is so: the read looks at the run
\* and its predictions, so the bundle may lack a snapshot.
ReconciledIsCommitted ==
    \A r \in Runs : "COMMITTED" \in ToSet(finals[r]) => rpc[r] = "committed"

\* Whatever replies are lost and whenever the server commits, the receipt of a save
\* is true: SAVED is of a whole bundle in the database, NOT_SAVED of a save that
\* stored no whole bundle and never will.  Its reconciliation tells SAVED only after a
\* commit; that the bundle is whole then, or that a run found absent will not commit
\* later, is not so and is not stated.
ReceiptsAreTrue == SavedIsWhole /\ NotSavedIsExact /\ ReconciledIsCommitted

\* No unknown commit is lost while the process lives: it waits in the list, or
\* a final decision about it was told.
UnknownIsAccounted ==
    \A r \in Runs :
        receipt[r] = "COMMIT_UNKNOWN" /\ stage[r] = "done" =>
            r \in Listed \/ finals[r] # <<>>

\* A run whose fate was told is off the list, whatever older snapshot of the
\* list another worker is still reading from: no later round asks about it.
DecidedLeavesTheList == \A r \in Listed : finals[r] = <<>>

\* The bounded list, edited by workers that read older copies of it, holds the commits
\* nobody has decided, and no other: none is lost and none comes back.
ListIsExact == UnknownIsAccounted /\ DecidedLeavesTheList

\* The save settles receipts as they promise to be settled.
ImplementsReceipts == ReceiptsSpec

\* Every save that was scheduled settles its receipt, unless the process ends
\* or the receipt is evicted first.
EverySaveSettles ==
    \A r \in Runs : record[r] = "PENDING" ~> record[r] # "PENDING"
=============================================================================
