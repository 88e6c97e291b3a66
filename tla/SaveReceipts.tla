---------------------------- MODULE SaveReceipts ----------------------------
(***************************************************************************)
(* What a person is told about the saving of an analysis: the receipt of   *)
(* src/crypto_probability_engine/api/save_receipt.py, read over            *)
(* GET /v1/analyze/receipt/{run_id} (api/app.py), next to the run store of *)
(* persistence/run_store.py.  Both are bounded, both lie in the memory of  *)
(* the process, and the answer relates them to what the database holds.    *)
(*                                                                         *)
(* How a save comes to commit and to be settled is left open here: this is *)
(* the promise SavePipeline implements.                                    *)
(***************************************************************************)
EXTENDS Naturals, Sequences, SequencesExt

CONSTANTS
    Runs,               \* run_id values
    OtherOrigin,        \* the runs that no user requested: they have no receipt
    RunLimit,           \* settings.recent_run_limit
    ReceiptLimit,       \* LIMIT of save_receipt
    MaxRequests         \* requests served at once: the server's thread pool

ASSUME ReceiptsAssumption ==
    /\ OtherOrigin \subseteq Runs
    /\ RunLimit \in Nat \ {0} /\ ReceiptLimit \in Nat \ {0}
    /\ MaxRequests \in Nat \ {0}

VARIABLES
    request,    \* request[r]: how far the request that makes run r has come
    held,       \* InMemoryRunStore.runs, oldest first
    opened,     \* SaveReceipts._states: its keys, oldest first
    record,     \* SaveReceipts._states: its values
    stored,     \* the runs whose whole detail the database holds
    stateless,  \* no durable repository is configured
    poll,       \* the receipt request that waits for the database, if any
    told        \* told[r]: the last answer a receipt request was given

receiptVars == <<request, held, opened, record, stored, stateless, poll, told>>

-----------------------------------------------------------------------------
Settled == {"SAVED", "FAILED"}
States == Settled \cup {"PENDING", "NOT_RETAINED"}
NoRecord == "NO_RECORD"
NotFound == "NOT_FOUND"
NoAnswer == "NO_ANSWER"
Idle == [run |-> NoAnswer, held |-> FALSE]

\* Mutant of Newest: popitem() without last=False: the newest entry is dropped.
Newest_DropsNewest(limit, s) == IF Len(s) > limit THEN SubSeq(s, 1, limit) ELSE s

\* popitem(last=False) until the limit is kept.
Newest(limit, s) ==
    IF Len(s) > limit THEN SubSeq(s, Len(s) - limit + 1, Len(s)) ELSE s

Serving == {r \in Runs : request[r] = "analysed"}

ReceiptsInit ==
    /\ request = [r \in Runs |-> "none"]
    /\ held = <<>>
    /\ opened = <<>>
    /\ record = [r \in Runs |-> NoRecord]
    /\ stored = {}
    /\ stateless \in BOOLEAN
    /\ poll = Idle
    /\ told = [r \in Runs |-> NoAnswer]

\* The end of analyze_request: the run enters the run store, which drops its
\* oldest runs.  A run of another origin is not scheduled under a receipt.
Put(r) ==
    /\ request[r] = "none"
    /\ Cardinality(Serving) < MaxRequests
    /\ request' = [request EXCEPT ![r] = IF r \in OtherOrigin THEN "scheduled"
                                                              ELSE "analysed"]
    /\ held' = Newest(RunLimit, Append(held, r))
    /\ UNCHANGED <<opened, record, stored, stateless, poll, told>>

\* schedule_best_effort_persist: the receipt is opened, PENDING when something
\* durable can follow, and the oldest receipts are evicted.
Open(r) ==
    /\ request[r] = "analysed"
    /\ request' = [request EXCEPT ![r] = "scheduled"]
    /\ opened' = Newest(ReceiptLimit, Append(opened, r))
    /\ record' = [x \in Runs |->
            IF x \notin ToSet(opened') THEN NoRecord
            ELSE IF x = r THEN IF stateless THEN "NOT_RETAINED" ELSE "PENDING"
            ELSE record[x]]
    /\ UNCHANGED <<held, stored, stateless, poll, told>>

\* Mutant of SettledRecord: a settled state is not final.
SettledRecord_Overwrites(r, state) ==
    IF record[r] # NoRecord THEN [record EXCEPT ![r] = state] ELSE record

\* SaveReceipts.settle: only a PENDING record is settled.
SettledRecord(r, state) ==
    IF record[r] = "PENDING" THEN [record EXCEPT ![r] = state] ELSE record

SettleRecord(r, state) ==
    /\ record' = SettledRecord(r, state)
    /\ UNCHANGED <<request, held, opened, stored, stateless, poll, told>>

\* The promise to a reader: SAVED is settled only for what the database holds.
Settle(r, state) ==
    /\ request[r] = "scheduled"
    /\ state = "SAVED" => r \in stored
    /\ SettleRecord(r, state)

\* The save of a run commits, whether its process still lives or not.
Commit(r) ==
    /\ request[r] \in {"scheduled", "past"}
    /\ r \notin OtherOrigin
    /\ stored' = stored \cup {r}
    /\ UNCHANGED <<request, held, opened, record, stateless, poll, told>>

\* analyze_receipt, up to the record: a run of another origin is not found,
\* and a record of this process is the answer.  The page asks once it has the
\* response that names the run, and one question at a time.
PollRecord(r) ==
    /\ poll = Idle
    /\ request[r] \in {"scheduled", "past"}
    /\ IF r \in OtherOrigin /\ r \in ToSet(held)
       THEN /\ told' = [told EXCEPT ![r] = NotFound]
            /\ UNCHANGED poll
       ELSE IF record[r] # NoRecord
       THEN /\ told' = [told EXCEPT ![r] = record[r]]
            /\ UNCHANGED poll
       ELSE /\ poll' = [run |-> r, held |-> r \in ToSet(held)]
            /\ UNCHANGED told
    /\ UNCHANGED <<request, held, opened, record, stored, stateless>>

\* unrecorded_state: without a record only the repository can answer.  A
\* stateless one answers from the memory of the process, and a read that fails
\* (readable = FALSE) proves no save.
Unrecorded(r, isHeld, found) ==
    IF stateless THEN IF isHeld \/ found THEN "NOT_RETAINED" ELSE NotFound
    ELSE IF found THEN "SAVED"
    ELSE IF isHeld THEN "FAILED" ELSE NotFound

\* Mutant of Returns: a failed read is answered from the process's mirror.
Returns_FromMirror(r, readable) ==
    \/ ~readable /\ request[r] = "scheduled" /\ r \notin OtherOrigin
    \/ readable /\ r \in stored

\* What the repository returns of a run's detail.
Returns(r, readable) ==
    /\ readable
    /\ IF stateless THEN request[r] = "scheduled" /\ r \notin OtherOrigin
                    ELSE r \in stored

PollStore(readable) ==
    /\ poll # Idle
    /\ told' = [told EXCEPT ![poll.run] =
                    Unrecorded(poll.run, poll.held, Returns(poll.run, readable))]
    /\ poll' = Idle
    /\ UNCHANGED <<request, held, opened, record, stored, stateless>>

\* The process restarts, perhaps with another environment: only the database
\* keeps anything.
Restart ==
    /\ request' = [r \in Runs |-> IF request[r] = "none" THEN "none" ELSE "past"]
    /\ held' = <<>>
    /\ opened' = <<>>
    /\ record' = [r \in Runs |-> NoRecord]
    /\ stateless' \in BOOLEAN
    /\ poll' = Idle
    /\ UNCHANGED <<stored, told>>

ReceiptsNext ==
    \/ \E r \in Runs :
          \/ Put(r) \/ Open(r) \/ Commit(r) \/ PollRecord(r)
          \/ \E state \in Settled : Settle(r, state)
    \/ \E readable \in BOOLEAN : PollStore(readable)
    \/ Restart

ReceiptsSpec == ReceiptsInit /\ [][ReceiptsNext]_receiptVars

-----------------------------------------------------------------------------
\* The state keeps its shape: the receipts held are exactly the keys that were
\* opened and not evicted, within both limits.
ReceiptsTypeOK ==
    /\ request \in [Runs -> {"none", "analysed", "scheduled", "past"}]
    /\ held \in Seq(Runs) /\ Len(held) <= RunLimit
    /\ opened \in Seq(Runs) /\ Len(opened) <= ReceiptLimit
    /\ record \in [Runs -> States \cup {NoRecord}]
    /\ \A r \in Runs : record[r] = NoRecord <=> r \notin ToSet(opened)
    /\ stored \subseteq Runs \ OtherOrigin
    /\ stateless \in BOOLEAN
    /\ poll \in [run : Runs, held : BOOLEAN] \cup {Idle}
    /\ told \in [Runs -> States \cup {NotFound, NoAnswer}]

\* The comment at save_receipt.py:31: a run this process still shows keeps its
\* receipt.  It needs the margin between the two limits to cover the requests
\* that overtake one another between the run store and the receipt.
ShownKeepsReceipt ==
    \A r \in ToSet(held) \ OtherOrigin :
        request[r] = "scheduled" => record[r] # NoRecord

\* Whoever was told SAVED was told of a run the database holds, also when the
\* answer outlived the record and the process.
ToldSavedIsStored == \A r \in Runs : told[r] = "SAVED" => r \in stored

\* A run once told SAVED is never told FAILED, PENDING or NOT_RETAINED again:
\* not by a later settle, an eviction, an unreadable database or a restart.
SavedIsNotTakenBack ==
    [][\A r \in Runs : told[r] = "SAVED" => told'[r] \in {"SAVED", NotFound}]_told
=============================================================================
