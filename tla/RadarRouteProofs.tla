-------------------------- MODULE RadarRouteProofs --------------------------
(* Theorems of RadarRoute for every number of calls, keys and slots, every  *)
(* deadline, reserve and quota.                                             *)
EXTENDS RadarRoute, RadarLedgerProofs

-----------------------------------------------------------------------------
(***************************************************************************)
(* The inductive invariant.  AnalysedOnce is not inductive: a call between *)
(* its reservation and its submit has no analysis yet and will have one.   *)
(* An Owner is a call that analysed its key or still may; owners have rows *)
(* and no two own the same key, because only an unrecorded key is handed   *)
(* to a new owner.                                                         *)
(***************************************************************************)
Owner(c) == \/ pc[c] \in {"gate", "submit", "wait", "build", "record", "write"}
            \/ job[c].state # "none"

\* Before the submit there is no analysis; after it there is, and only evidence
\* is built and recorded.
Jobs == \A c \in Calls :
    /\ pc[c] \in {"idle", "prepare", "reserve", "gate", "submit"}
          => job[c].state = "none" /\ ~job[c].slot
    /\ pc[c] = "wait" => job[c].state \notin {"none", "dead"}
    /\ pc[c] \in {"build", "record", "write"} => job[c].state = "evidence"
    /\ job[c].slot => job[c].state # "none"

\* A refusal is recorded under its own name, what was checked is written as it
\* was, and nobody is told before the end.
Codes == \A c \in Calls :
    /\ pc[c] = "write" => code[c] \in {"SUCCEEDED", "DEADLINE_EXCEEDED"}
    /\ pc[c] = "finish" => code[c] \in Outcomes \ {"SUCCEEDED"}
    /\ pc[c] # "done" => answer[c] = "none"

Owners ==
    /\ \A c \in Calls : Owner(c) \/ pc[c] = "finish" => req[c].key \in RECORDED
    /\ \A c, d \in Calls : c # d /\ Owner(c) /\ Owner(d) => req[c].key # req[d].key

Local == Jobs /\ Codes

-----------------------------------------------------------------------------
\* What a waiting call refuses with is an outcome, and never a success.
LEMMA RefusalsAreOutcomes ==
    /\ JobRefusals \subseteq Outcomes \ {"SUCCEEDED"}
    /\ BuildRefusals \subseteq Outcomes \ {"SUCCEEDED"}
    /\ {"QUOTA_EXCEEDED", "CONCURRENCY_LIMIT", "DEADLINE_EXCEEDED",
        "ANALYSIS_FAILED"} \subseteq Outcomes \ {"SUCCEEDED"}
    /\ Endings \cap JobRefusals = {}
    /\ Unrecorded \cap Outcomes = {}
    /\ "none" \notin Outcomes
BY RouteAssumption, LedgerAssumption
   DEF JobRefusals, BuildRefusals, Outcomes, NonCountingOutcomes, Endings, Unrecorded

LEMMA NextLocal == TypeOK /\ Local /\ [Next]_vars => Local'
<1> SUFFICES ASSUME TypeOK, Local, [Next]_vars PROVE Local'
  OBVIOUS
<1> USE DEF TypeOK, Local, Jobs, Codes
<1>1. ASSUME NEW c \in Calls, NEW k, NEW fp, NEW q, Arrive(c, k, fp, q)
      PROVE  Local'
  BY <1>1 DEF Arrive, Goto
<1>2. ASSUME NEW c \in Calls, Prepare(c) PROVE Local'
  BY <1>2 DEF Prepare, Goto, Tell
<1>3. ASSUME NEW c \in Calls, LedgerFails(c) PROVE Local'
  BY <1>3 DEF LedgerFails, Goto, Tell
<1>4. ASSUME NEW c \in Calls, ReserveNew(c) PROVE Local'
  BY <1>4, RefusalsAreOutcomes DEF ReserveNew, Goto, Tell, Refuse
<1>5. ASSUME NEW c \in Calls, ReserveKnown(c) PROVE Local'
  BY <1>5, RefusalsAreOutcomes DEF ReserveKnown, Goto, Tell, Refuse
<1>6. ASSUME NEW c \in Calls, TryAcquire(c) PROVE Local'
  BY <1>6, RefusalsAreOutcomes DEF TryAcquire, Goto, Refuse
<1>7. ASSUME NEW c \in Calls, SubmitRefused(c) PROVE Local'
  BY <1>7, RefusalsAreOutcomes DEF SubmitRefused, Goto, Refuse
<1>8. ASSUME NEW c \in Calls, Submit(c) PROVE Local'
  BY <1>8 DEF Submit, Goto
<1>9. ASSUME NEW c \in Calls, WaitResult(c) PROVE Local'
  <2>1. job[c].state \in JobRefusals \cup {"evidence"}
    BY <1>9 DEF WaitResult, JobStates, Endings
  <2> QED
    BY <1>9, <2>1, RefusalsAreOutcomes DEF WaitResult, Goto, Refuse
<1>10. ASSUME NEW c \in Calls, WaitTimeout(c) PROVE Local'
  BY <1>10, RefusalsAreOutcomes DEF WaitTimeout, Goto, Refuse
<1>11. ASSUME NEW c \in Calls, Build(c) PROVE Local'
  BY <1>11, RefusalsAreOutcomes DEF Build, Goto, Tell, Refuse
<1>12. ASSUME NEW c \in Calls, CheckDeadline(c) PROVE Local'
  BY <1>12 DEF CheckDeadline, Goto
<1>21. ASSUME NEW c \in Calls, RecordSuccess(c) PROVE Local'
  BY <1>21 DEF RecordSuccess, Goto, Tell
<1>13. ASSUME NEW c \in Calls, RecordRefusal(c) PROVE Local'
  BY <1>13 DEF RecordRefusal, Goto, Tell
<1>14. ASSUME NEW c \in Calls, AlreadyClosed(c) PROVE Local'
  BY <1>14 DEF AlreadyClosed, Goto, Tell
<1>15. ASSUME NEW c \in Calls, JobEnd(c) PROVE Local'
  BY <1>15, RefusalsAreOutcomes DEF JobEnd, Endings
<1>16. ASSUME NEW c \in Calls, SlotRelease(c) PROVE Local'
  BY <1>16 DEF SlotRelease
<1>17. ASSUME Crash PROVE Local'
  BY <1>17 DEF Crash
<1>18. ASSUME Tick PROVE Local'
  BY <1>18 DEF Tick, callVars
<1>19. ASSUME StepWallClock PROVE Local'
  BY <1>19 DEF StepWallClock, callVars
<1>20. ASSUME UNCHANGED vars PROVE Local'
  BY <1>20 DEF vars, callVars
<1> QED
  BY <1>1, <1>2, <1>3, <1>4, <1>5, <1>6, <1>7, <1>8, <1>9, <1>10, <1>11, <1>12,
     <1>13, <1>14, <1>15, <1>16, <1>17, <1>18, <1>19, <1>20, <1>21
     DEF Next, CallStep

-----------------------------------------------------------------------------
(* What a step does to the table, whoever takes it. *)

\* The rows a step of the route leaves: they are kept, and a completed row is
\* left as it is.
RowsKept ==
    \A k \in RECORDED :
        /\ k \in RECORDED'
        /\ rows[k].state = "COMPLETED" => rows'[k] = rows[k]

LEMMA NewKeyOfCall ==
    ASSUME NEW c \in Calls, ReserveNew(c)
    PROVE  req[c].key \notin RECORDED
BY NewKey DEF ReserveNew, KindOf

LEMMA ReserveNewRows ==
    ASSUME NEW c \in Calls, ReserveNew(c)
    PROVE  /\ RECORDED' = RECORDED \cup {req[c].key}
           /\ \A x \in RECORDED : rows'[x] = rows[x]
           /\ rows'[req[c].key].state = "IN_PROGRESS"
           /\ rows'[req[c].key].outcome = "NONE"
<1>1. PICK granted : Insert(req[c].key, NewRow(req[c].fp, req[c].received, granted))
  BY DEF ReserveNew
<1> QED
  BY <1>1, NewKeyOfCall, Inserted DEF NewRow

LEMMA CompleteRows ==
    ASSUME TypeOK, NEW k, NEW o, Complete(k, o)
    PROVE  /\ RECORDED' = RECORDED
           /\ k \in RECORDED
           /\ rows[k].state = "IN_PROGRESS"
           /\ rows'[k] = CompletedRow(rows[k], o)
           /\ rows'[k].state = "COMPLETED" /\ rows'[k].outcome = o
           /\ \A x \in RECORDED : x # k => rows'[x] = rows[x]
BY DEF TypeOK, LedgerTypeOK, Complete, RECORDED, CompletedRow

\* A step inserts a new key, completes a pending one, or leaves the table.
LEMMA RowsStep ==
    ASSUME TypeOK, [Next]_vars
    PROVE  \/ rows' = rows
           \/ \E c \in Calls : ReserveNew(c)
           \/ \E c \in Calls : RecordSuccess(c)
           \/ \E c \in Calls : RecordRefusal(c)
BY DEF Next, CallStep, vars, Arrive, Prepare, LedgerFails, ReserveKnown,
       TryAcquire, SubmitRefused, Submit, WaitResult, WaitTimeout, Build, CheckDeadline,
       AlreadyClosed, JobEnd, SlotRelease, Crash, Tick, StepWallClock

LEMMA NextRowsKept == TypeOK /\ [Next]_vars => RowsKept
<1> SUFFICES ASSUME TypeOK, [Next]_vars PROVE RowsKept
  OBVIOUS
<1>1. CASE rows' = rows
  BY <1>1 DEF RowsKept, RECORDED
<1>2. ASSUME NEW c \in Calls, ReserveNew(c) PROVE RowsKept
  BY <1>2, ReserveNewRows DEF RowsKept
<1>3. ASSUME NEW k, NEW o, Complete(k, o) PROVE RowsKept
  BY <1>3, CompleteRows DEF RowsKept
<1> QED
  BY <1>1, <1>2, <1>3, RowsStep DEF RecordSuccess, RecordRefusal

-----------------------------------------------------------------------------
LEMMA NextOwners == TypeOK /\ Local /\ Owners /\ [Next]_vars => Owners'
<1> SUFFICES ASSUME TypeOK, Local, Owners, [Next]_vars PROVE Owners'
  OBVIOUS
<1>0. RECORDED \subseteq RECORDED'
  BY NextRowsKept DEF RowsKept
<1> USE <1>0 DEF TypeOK, Local, Jobs, Owners, Owner
<1>1. ASSUME NEW c \in Calls, NEW k, NEW fp, NEW q, Arrive(c, k, fp, q)
      PROVE  Owners'
  BY <1>1 DEF Arrive, Goto
<1>2. ASSUME NEW c \in Calls, Prepare(c) PROVE Owners'
  <2>1. \A d \in Calls : d # c => req'[d] = req[d]
    BY <1>2 DEF Prepare
  <2>2. RECORDED' = RECORDED /\ job' = job
    BY <1>2 DEF Prepare, RECORDED
  <2>3. pc[c] = "prepare" /\ pc'[c] \in {"reserve", "done"}
    BY <1>2 DEF Prepare, Goto, Tell
  <2>4. \A d \in Calls : d # c => pc'[d] = pc[d]
    BY <1>2 DEF Prepare, Goto, Tell
  <2>5. ~Owner(c)' /\ pc'[c] # "finish"
    BY <2>2, <2>3
  <2>6. \A d \in Calls : d # c => (Owner(d)' <=> Owner(d))
    BY <2>2, <2>4
  <2> HIDE DEF TypeOK, Local, Jobs, Owner
  <2> QED
    BY <2>1, <2>2, <2>4, <2>5, <2>6
<1>3. ASSUME NEW c \in Calls, LedgerFails(c) PROVE Owners'
  BY <1>3 DEF LedgerFails, Goto, Tell
<1>4. ASSUME NEW c \in Calls, ReserveNew(c) PROVE Owners'
  <2>1. req[c].key \notin RECORDED /\ req[c].key \in RECORDED'
    BY <1>4, NewKeyOfCall, ReserveNewRows
  <2> QED
    BY <1>4, <2>1 DEF ReserveNew, Goto, Tell, Refuse
<1>5. ASSUME NEW c \in Calls, ReserveKnown(c) PROVE Owners'
  <2>1. KindOf(c) = "ABANDONED" => req[c].key \in RECORDED
    BY DEF KindOf, ReserveKind
  <2> QED
    BY <1>5, <2>1 DEF ReserveKnown, Goto, Tell, Refuse
<1>6. ASSUME NEW c \in Calls, TryAcquire(c) PROVE Owners'
  BY <1>6 DEF TryAcquire, Goto, Refuse
<1>7. ASSUME NEW c \in Calls, SubmitRefused(c) PROVE Owners'
  BY <1>7 DEF SubmitRefused, Goto, Refuse
<1>8. ASSUME NEW c \in Calls, Submit(c) PROVE Owners'
  BY <1>8 DEF Submit, Goto
<1>9. ASSUME NEW c \in Calls, WaitResult(c) PROVE Owners'
  BY <1>9 DEF WaitResult, Goto, Refuse
<1>10. ASSUME NEW c \in Calls, WaitTimeout(c) PROVE Owners'
  BY <1>10 DEF WaitTimeout, Goto, Refuse
<1>11. ASSUME NEW c \in Calls, Build(c) PROVE Owners'
  BY <1>11 DEF Build, Goto, Tell, Refuse
<1>12. ASSUME NEW c \in Calls, CheckDeadline(c) PROVE Owners'
  BY <1>12 DEF CheckDeadline, Goto
<1>21. ASSUME NEW c \in Calls, RecordSuccess(c) PROVE Owners'
  BY <1>21 DEF RecordSuccess, Goto, Tell
<1>13. ASSUME NEW c \in Calls, RecordRefusal(c) PROVE Owners'
  BY <1>13 DEF RecordRefusal, Goto, Tell
<1>14. ASSUME NEW c \in Calls, AlreadyClosed(c) PROVE Owners'
  BY <1>14 DEF AlreadyClosed, Goto, Tell
<1>15. ASSUME NEW c \in Calls, JobEnd(c) PROVE Owners'
  BY <1>15 DEF JobEnd
<1>16. ASSUME NEW c \in Calls, SlotRelease(c) PROVE Owners'
  BY <1>16 DEF SlotRelease
<1>17. ASSUME Crash PROVE Owners'
  BY <1>17 DEF Crash
<1>18. ASSUME Tick PROVE Owners'
  BY <1>18 DEF Tick, callVars
<1>19. ASSUME StepWallClock PROVE Owners'
  BY <1>19 DEF StepWallClock, callVars
<1>20. ASSUME UNCHANGED vars PROVE Owners'
  BY <1>20 DEF vars, callVars
<1> QED
  BY <1>1, <1>2, <1>3, <1>4, <1>5, <1>6, <1>7, <1>8, <1>9, <1>10, <1>11, <1>12,
     <1>13, <1>14, <1>15, <1>16, <1>17, <1>18, <1>19, <1>20, <1>21
     DEF Next, CallStep

-----------------------------------------------------------------------------
(* Who is told what. *)

\* A step tells nothing new, and leaves the request of whoever has an answer or
\* an analysis; or it replays, or it records and may tell.
Quiet ==
    \A c \in Calls :
        /\ answer'[c] = answer[c] \/ answer'[c] \notin Outcomes
        /\ answer[c] # "none" => answer'[c] = answer[c] /\ req'[c] = req[c]
        /\ job[c].state # "none" => req'[c] = req[c]

LEMMA QuietStep ==
    ASSUME TypeOK, Local, [Next]_vars
    PROVE  \/ Quiet
           \/ \E c \in Calls : ReserveKnown(c) /\ KindOf(c) = "REPLAY"
           \/ \E c \in Calls : RecordSuccess(c)
           \/ \E c \in Calls : RecordRefusal(c)
<1> USE RefusalsAreOutcomes DEF TypeOK, Local, Jobs, Codes, Quiet, Unrecorded
<1>1. ASSUME NEW c \in Calls, NEW k, NEW fp, NEW q, Arrive(c, k, fp, q)
      PROVE  Quiet
  BY <1>1 DEF Arrive, Goto
<1>2. ASSUME NEW c \in Calls, Prepare(c) PROVE Quiet
  <2>1. \A d \in Calls : d # c => req'[d] = req[d] /\ answer'[d] = answer[d]
    BY <1>2 DEF Prepare, Tell
  <2>2. answer'[c] \notin Outcomes \/ answer'[c] = answer[c]
    BY <1>2 DEF Prepare, Tell
  <2>3. answer[c] = "none" /\ job[c].state = "none"
    BY <1>2 DEF Prepare
  <2> QED
    BY <2>1, <2>2, <2>3
<1>3. ASSUME NEW c \in Calls, LedgerFails(c) PROVE Quiet
  BY <1>3 DEF LedgerFails, Goto, Tell
<1>4. ASSUME NEW c \in Calls, ReserveNew(c) PROVE Quiet
  BY <1>4 DEF ReserveNew, Goto, Tell, Refuse
<1>5. ASSUME NEW c \in Calls, ReserveKnown(c), KindOf(c) # "REPLAY" PROVE Quiet
  BY <1>5 DEF ReserveKnown, Goto, Tell, Refuse
<1>6. ASSUME NEW c \in Calls, TryAcquire(c) PROVE Quiet
  BY <1>6 DEF TryAcquire
<1>7. ASSUME NEW c \in Calls, SubmitRefused(c) PROVE Quiet
  BY <1>7 DEF SubmitRefused
<1>8. ASSUME NEW c \in Calls, Submit(c) PROVE Quiet
  BY <1>8 DEF Submit
<1>9. ASSUME NEW c \in Calls, WaitResult(c) \/ WaitTimeout(c) PROVE Quiet
  BY <1>9 DEF WaitResult, WaitTimeout
<1>11. ASSUME NEW c \in Calls, Build(c) PROVE Quiet
  BY <1>11 DEF Build, Goto, Tell, Refuse
<1>12. ASSUME NEW c \in Calls, CheckDeadline(c) PROVE Quiet
  BY <1>12 DEF CheckDeadline
<1>14. ASSUME NEW c \in Calls, AlreadyClosed(c) PROVE Quiet
  BY <1>14 DEF AlreadyClosed, Goto, Tell
<1>15. ASSUME NEW c \in Calls, JobEnd(c) \/ SlotRelease(c) PROVE Quiet
  BY <1>15 DEF JobEnd, SlotRelease
<1>17. ASSUME Crash \/ Tick \/ StepWallClock \/ UNCHANGED vars PROVE Quiet
  BY <1>17 DEF Crash, Tick, StepWallClock, vars, callVars
<1> QED
  BY <1>1, <1>2, <1>3, <1>4, <1>5, <1>6, <1>7, <1>8, <1>9, <1>11,
     <1>12, <1>14, <1>15, <1>17 DEF Next, CallStep

\* The outcome of a row that has one is final.
LEMMA OutcomeCompletes ==
    ASSUME TypeOK, NEW k \in RECORDED
    PROVE  rows[k].outcome \in Outcomes <=> rows[k].state = "COMPLETED"
BY RefusalsAreOutcomes, NoneIsNoOutcome DEF TypeOK, LedgerTypeOK, Row

\* A replayed row has an outcome.
LEMMA ReplayIsCompleted ==
    ASSUME TypeOK, NEW c \in Calls, KindOf(c) = "REPLAY"
    PROVE  /\ req[c].key \in RECORDED
           /\ rows[req[c].key].state = "COMPLETED"
           /\ rows[req[c].key].outcome \in Outcomes
<1>1. req[c].key \in RECORDED
  BY DEF KindOf, ReserveKind
<1>2. ClassifyExisting(rows[req[c].key], req[c].fp, req[c].received) = "REPLAY"
  BY <1>1 DEF KindOf, ReserveKind
<1>3. rows[req[c].key].state = "COMPLETED"
  BY <1>2 DEF ClassifyExisting
<1> QED
  BY <1>1, <1>3, OutcomeCompletes

LEMMA NextTold == TypeOK /\ Local /\ ToldIsRecorded /\ [Next]_vars => ToldIsRecorded'
<1> SUFFICES ASSUME TypeOK, Local, ToldIsRecorded, [Next]_vars,
                    NEW c \in Calls, answer'[c] \in Outcomes
             PROVE  /\ req'[c].key \in RECORDED'
                    /\ rows'[req'[c].key].outcome = answer'[c]
  BY DEF ToldIsRecorded, RECORDED
<1>1. CASE answer[c] \in Outcomes /\ answer'[c] = answer[c] /\ req'[c] = req[c]
  <2>1. req[c].key \in RECORDED /\ rows[req[c].key].outcome = answer[c]
    BY <1>1 DEF ToldIsRecorded, RECORDED
  <2>2. rows[req[c].key].state = "COMPLETED"
    BY <1>1, <2>1, OutcomeCompletes
  <2> QED
    BY <1>1, <2>1, <2>2, NextRowsKept DEF RowsKept
<1>2. CASE Quiet
  BY <1>1, <1>2, RefusalsAreOutcomes DEF Quiet
<1>3. ASSUME NEW d \in Calls, ReserveKnown(d), KindOf(d) = "REPLAY"
      PROVE  /\ req'[c].key \in RECORDED'
             /\ rows'[req'[c].key].outcome = answer'[c]
  <2>1. /\ rows' = rows /\ req' = req
        /\ answer' = [answer EXCEPT ![d] = rows[req[d].key].outcome]
    BY <1>3 DEF ReserveKnown, Tell
  <2>2. CASE c = d
    BY <2>1, <2>2, <1>3, ReplayIsCompleted DEF TypeOK, RECORDED
  <2>3. CASE c # d
    BY <1>1, <2>1, <2>3 DEF TypeOK
  <2> QED
    BY <2>2, <2>3
<1>4. ASSUME NEW d \in Calls, NEW o, Complete(req[d].key, o), req' = req,
             answer' = [answer EXCEPT ![d] = o]
             \/ answer' = [answer EXCEPT ![d] = "LEDGER_UNAVAILABLE"]
      PROVE  /\ req'[c].key \in RECORDED'
             /\ rows'[req'[c].key].outcome = answer'[c]
  <2>1. CASE c = d
    <3>1. answer'[c] = o
      BY <1>4, <2>1, RefusalsAreOutcomes DEF TypeOK, Unrecorded
    <3> QED
      BY <1>4, <2>1, <3>1, CompleteRows
  <2>2. CASE c # d
    BY <1>1, <1>4, <2>2 DEF TypeOK
  <2> QED
    BY <2>1, <2>2
<1>5. ASSUME NEW d \in Calls, RecordSuccess(d)
      PROVE  /\ req'[c].key \in RECORDED'
             /\ rows'[req'[c].key].outcome = answer'[c]
  BY <1>4, <1>5 DEF RecordSuccess, Tell
<1>6. ASSUME NEW d \in Calls, RecordRefusal(d)
      PROVE  /\ req'[c].key \in RECORDED'
             /\ rows'[req'[c].key].outcome = answer'[c]
  BY <1>4, <1>6 DEF RecordRefusal, Tell
<1> QED
  BY <1>2, <1>3, <1>5, <1>6, QuietStep

-----------------------------------------------------------------------------
(* The slots of the gate. *)

LEMMA HoldersFinite == IsFiniteSet(Holders) /\ Cardinality(Holders) \in Nat
<1>1. Holders \subseteq Calls
  BY DEF Holders
<1> QED
  BY <1>1, RouteAssumption, FS_Subset, FS_CardinalityType

LEMMA NextSlots == TypeOK /\ Local /\ SlotsAddUp /\ [Next]_vars => SlotsAddUp'
<1> SUFFICES ASSUME TypeOK, Local, SlotsAddUp, [Next]_vars PROVE SlotsAddUp'
  OBVIOUS
<1> USE DEF TypeOK, Local, Jobs
<1>a. free \in Int /\ MaxConcurrent \in Nat
  BY RouteAssumption
<1>b. ASSUME free' = free, Holders' = Holders,
             \A c \in Calls : job'[c].state = "running" => job'[c].slot
      PROVE  SlotsAddUp'
  BY <1>b DEF SlotsAddUp
<1>c. ASSUME NEW c \in Holders, free' = free + 1, Holders' = Holders \ {c},
             \A d \in Calls : job'[d].state = "running" => job'[d].slot
      PROVE  SlotsAddUp'
  <2>1. Cardinality(Holders') = Cardinality(Holders) - 1
    BY <1>c, HoldersFinite, FS_RemoveElement
  <2>2. free + Cardinality(Holders) = MaxConcurrent /\ Cardinality(Holders) \in Nat
    BY HoldersFinite DEF SlotsAddUp
  <2>3. free' + Cardinality(Holders') = MaxConcurrent
    BY <1>a, <1>c, <2>1, <2>2
  <2> QED
    BY <1>c, <2>3 DEF SlotsAddUp
<1>1. ASSUME NEW c \in Calls, NEW k, NEW fp, NEW q, Arrive(c, k, fp, q)
      PROVE  SlotsAddUp'
  <2>1. /\ job' = job /\ free' = free
        /\ pc[c] = "idle" /\ pc' = [pc EXCEPT ![c] = "prepare"]
    BY <1>1 DEF Arrive, Goto
  <2>2. Holders' = Holders
    BY <2>1 DEF Holders
  <2> QED
    BY <2>1, <2>2, <1>b DEF SlotsAddUp
<1>2. ASSUME NEW c \in Calls, Prepare(c) \/ LedgerFails(c) PROVE SlotsAddUp'
  <2>1. job' = job /\ free' = free
    BY <1>2 DEF Prepare, LedgerFails
  <2>2. pc[c] \in {"prepare", "reserve", "finish", "record", "write"}
    BY <1>2 DEF Prepare, LedgerFails
  <2>3. pc' = [pc EXCEPT ![c] = "reserve"] \/ pc' = [pc EXCEPT ![c] = "done"]
    BY <1>2 DEF Prepare, LedgerFails, Goto, Tell
  <2>4. Holders' = Holders
    BY <2>1, <2>2, <2>3 DEF Holders
  <2> QED
    BY <1>b, <2>1, <2>4 DEF SlotsAddUp
<1>3. ASSUME NEW c \in Calls, ReserveNew(c) \/ ReserveKnown(c) PROVE SlotsAddUp'
  BY <1>3, <1>b DEF ReserveNew, ReserveKnown, Goto, Tell, Refuse, Holders, SlotsAddUp
<1>4. ASSUME NEW c \in Calls, TryAcquire(c) PROVE SlotsAddUp'
  <2>1. CASE free > 0 /\ free' = free - 1 /\ Goto(c, "submit")
    <3>1. c \notin Holders /\ Holders' = Holders \cup {c}
      BY <1>4, <2>1 DEF TryAcquire, Goto, Holders
    <3>2. Cardinality(Holders') = Cardinality(Holders) + 1
      BY <3>1, HoldersFinite, FS_AddElement
    <3>3. \A d \in Calls : job'[d].state = "running" => job'[d].slot
      BY <1>4 DEF TryAcquire, SlotsAddUp
    <3>4. free' + Cardinality(Holders') = MaxConcurrent
      <4>1. free' = free - 1 /\ free + Cardinality(Holders) = MaxConcurrent
        BY <2>1 DEF SlotsAddUp
      <4> HIDE DEF TypeOK, Local, Jobs
      <4> QED
        BY <1>a, <3>2, <4>1, HoldersFinite
    <3> QED
      BY <3>3, <3>4 DEF SlotsAddUp
  <2>2. CASE free = 0 /\ Refuse(c, "CONCURRENCY_LIMIT") /\ UNCHANGED free
    BY <1>4, <1>b, <2>2 DEF TryAcquire, Refuse, Goto, Holders, SlotsAddUp
  <2> QED
    BY <1>4, <2>1, <2>2 DEF TryAcquire
<1>5. ASSUME NEW c \in Calls, SubmitRefused(c) PROVE SlotsAddUp'
  <2>1. c \in Holders /\ Holders' = Holders \ {c}
    BY <1>5 DEF SubmitRefused, Refuse, Goto, Holders
  <2> QED
    BY <1>5, <1>c, <2>1 DEF SubmitRefused, SlotsAddUp
<1>6. ASSUME NEW c \in Calls, Submit(c) PROVE SlotsAddUp'
  BY <1>6, <1>b DEF Submit, Goto, Holders, SlotsAddUp
<1>7. ASSUME NEW c \in Calls, WaitResult(c) \/ WaitTimeout(c) \/ Build(c)
      PROVE  SlotsAddUp'
  BY <1>7, <1>b DEF WaitResult, WaitTimeout, Build, Goto, Tell, Refuse, Holders, SlotsAddUp
<1>13. ASSUME NEW c \in Calls, CheckDeadline(c) PROVE SlotsAddUp'
  BY <1>13, <1>b DEF CheckDeadline, Goto, Holders, SlotsAddUp
<1>8. ASSUME NEW c \in Calls, RecordSuccess(c) \/ RecordRefusal(c) \/ AlreadyClosed(c)
      PROVE  SlotsAddUp'
  BY <1>8, <1>b
     DEF RecordSuccess, RecordRefusal, AlreadyClosed, Goto, Tell, Holders, SlotsAddUp
<1>9. ASSUME NEW c \in Calls, JobEnd(c) PROVE SlotsAddUp'
  <2>1. \A d \in Calls : job'[d].slot = job[d].slot
    BY <1>9 DEF JobEnd
  <2>2. \A d \in Calls : job'[d].state = "running" => job[d].state = "running"
    BY <1>9 DEF JobEnd
  <2> QED
    BY <1>9, <1>b, <2>1, <2>2 DEF JobEnd, Holders, SlotsAddUp
<1>10. ASSUME NEW c \in Calls, SlotRelease(c) PROVE SlotsAddUp'
  <2>1. /\ \A d \in Calls : job'[d].state = job[d].state
        /\ \A d \in Calls : d # c => job'[d].slot = job[d].slot
        /\ ~job'[c].slot /\ job[c].slot
    BY <1>10 DEF SlotRelease
  <2>2. c \in Holders /\ Holders' = Holders \ {c}
    BY <1>10, <2>1 DEF SlotRelease, Holders
  <2> QED
    BY <1>10, <1>c, <2>1, <2>2 DEF SlotRelease, SlotsAddUp
<1>11. ASSUME Crash PROVE SlotsAddUp'
  <2>1. \A d \in Calls : ~job'[d].slot /\ job'[d].state # "running"
    BY <1>11 DEF Crash
  <2>2. Holders' = {}
    BY <1>11, <2>1 DEF Crash, Holders
  <2> QED
    BY <1>11, <1>a, <2>1, <2>2, FS_EmptySet DEF Crash, SlotsAddUp
<1>12. ASSUME Tick \/ StepWallClock \/ UNCHANGED vars PROVE SlotsAddUp'
  BY <1>12, <1>b DEF Tick, StepWallClock, vars, callVars, Holders, SlotsAddUp
<1> QED
  BY <1>1, <1>2, <1>3, <1>4, <1>5, <1>6, <1>7, <1>8, <1>9, <1>10, <1>11, <1>12,
     <1>13 DEF Next, CallStep

-----------------------------------------------------------------------------
(* The route's steps are steps of the ledger. *)

LEMMA RequestParts ==
    ASSUME TypeOK, NEW c \in Calls, pc[c] # "idle"
    PROVE  /\ req[c].key \in Keys /\ req[c].fp \in Fingerprints
           /\ req[c].received \in Times /\ req[c].quota \in QuotaPairs
           /\ req[c].arrived \in 0..MaxTime /\ req[c].deadlineAt \in Int
           /\ req[c].arrived \in Int /\ req[c].received \in Int
           /\ DeadlineOf[req[c].fp] \in Nat /\ BudgetEnd(c) \in Int
<1>1. req[c] \in Request
  BY DEF TypeOK
<1>2. req[c].fp \in Fingerprints /\ req[c].arrived \in 0..MaxTime
  BY <1>1 DEF Request
<1>3. DeadlineOf[req[c].fp] \in Nat
  BY <1>2, LedgerAssumption
<1>4. req[c].received \in Int /\ req[c].arrived \in Int
  BY <1>1, <1>2, RouteAssumption, LedgerAssumption DEF Request
<1> QED
  BY <1>1, <1>2, <1>3, <1>4, RouteAssumption DEF Request, BudgetEnd

LEMMA ReserveNewReserves ==
    ASSUME TypeOK, NEW c \in Calls, ReserveNew(c)
    PROVE  Reserve(req[c].key, req[c].fp, req[c].received,
                   req[c].quota[1], req[c].quota[2])
<1> DEFINE r == req[c]
           granted == QuotaAllows(r.key[1], r.received, r.quota[1], r.quota[2])
<1>1. KindOf(c) = "NEW" /\ Insert(r.key, NewRow(r.fp, r.received, granted))
  BY DEF ReserveNew
<1>2. granted \in BOOLEAN
  BY DEF QuotaAllows
<1> QED
  BY <1>1, <1>2 DEF Reserve, KindOf, CredentialOf

\* What a call records is an outcome, for a key of the ledger.
LEMMA RecordsOutcome ==
    ASSUME TypeOK, Local, NEW c \in Calls, RecordSuccess(c) \/ RecordRefusal(c)
    PROVE  \E o \in Outcomes : Complete(req[c].key, o)
<1>1. CASE RecordSuccess(c)
  BY <1>1 DEF RecordSuccess, Outcomes, Local, Codes
<1>2. CASE RecordRefusal(c)
  BY <1>2 DEF RecordRefusal, Local, Codes
<1> QED
  BY <1>1, <1>2

LEMMA NextIsLedgerNext == TypeOK /\ Local /\ [Next]_vars => [LedgerNext]_rows
<1> SUFFICES ASSUME TypeOK, Local, [Next]_vars PROVE [LedgerNext]_rows
  OBVIOUS
<1>1. ASSUME NEW c \in Calls, ReserveNew(c) PROVE LedgerNext
  <2>1. pc[c] # "idle"
    BY <1>1 DEF ReserveNew
  <2> QED
    BY <1>1, <2>1, RequestParts, ReserveNewReserves DEF LedgerNext
<1>2. ASSUME NEW c \in Calls, RecordSuccess(c) \/ RecordRefusal(c) PROVE LedgerNext
  <2>1. pc[c] # "idle"
    BY <1>2 DEF RecordSuccess, RecordRefusal
  <2> QED
    BY <1>2, <2>1, RequestParts, RecordsOutcome DEF LedgerNext
<1> QED
  BY <1>1, <1>2, RowsStep

-----------------------------------------------------------------------------
(* Types. *)

\* The part of TypeOK that speaks of the calls alone.
CallTypes ==
    /\ pc \in [Calls -> Labels]
    /\ req \in [Calls -> Request \cup {Unasked}]
    /\ \A c \in Calls : pc[c] # "idle" => req[c] \in Request
    /\ code \in [Calls -> Outcomes \cup {"none"}]
    /\ job \in [Calls -> [state : JobStates, slot : BOOLEAN]]
    /\ answer \in [Calls -> Answers \cup {"none"}]

\* A job that has given its slot back is still a job.
LEMMA SlotFreed ==
    \A j \in [state : JobStates, slot : BOOLEAN] :
        [j EXCEPT !.slot = FALSE] \in [state : JobStates, slot : BOOLEAN]
OBVIOUS

LEMMA NextCallTypes == TypeOK /\ Local /\ [Next]_vars => CallTypes'
<1> SUFFICES ASSUME TypeOK, Local, [Next]_vars PROVE CallTypes'
  OBVIOUS
<1>0. CallTypes
  BY DEF TypeOK, CallTypes
<1> USE <1>0, RefusalsAreOutcomes DEF CallTypes, Labels, Answers, Unrecorded
<1>1. ASSUME NEW c \in Calls, NEW k \in Keys, NEW fp \in Fingerprints,
             NEW q \in QuotaChoices, Arrive(c, k, fp, q)
      PROVE  CallTypes'
  <2>1. mono \in 0..MaxTime /\ WallClock \in Times
    BY RouteAssumption DEF TypeOK, WallClock
  <2>2. [key |-> k, fp |-> fp, quota |-> q, arrived |-> mono,
         received |-> WallClock, deadlineAt |-> 0] \in Request
    BY <2>1 DEF Request
  <2> QED
    BY <1>1, <2>2 DEF Arrive, Goto
<1>2. ASSUME NEW c \in Calls, Prepare(c) PROVE CallTypes'
  <2>1. DeadlineAt(c) \in Int
    <3>1. pc[c] # "idle" /\ mono \in Int /\ skew \in Int
      BY <1>2 DEF Prepare, TypeOK
    <3> QED
      BY <3>1, RequestParts DEF DeadlineAt, WallClock
  <2>2. req[c] \in Request
    BY <1>2 DEF Prepare
  <2>3. [req[c] EXCEPT !.deadlineAt = DeadlineAt(c)] \in Request
    BY <2>1, <2>2 DEF Request
  <2>4. /\ req' \in [Calls -> Request \cup {Unasked}]
        /\ \A d \in Calls : req[d] \in Request => req'[d] \in Request
    <3>1. \/ req' = [req EXCEPT ![c] = [req[c] EXCEPT !.deadlineAt = DeadlineAt(c)]]
          \/ req' = req
      BY <1>2 DEF Prepare
    <3> QED
      BY <2>3, <3>1
  <2>5. /\ pc' \in [Calls -> Labels] /\ answer' \in [Calls -> Answers \cup {"none"}]
        /\ \A d \in Calls : d # c => pc'[d] = pc[d]
    BY <1>2 DEF Prepare, Goto, Tell
  <2>6. code' = code /\ job' = job
    BY <1>2 DEF Prepare
  <2> QED
    BY <2>2, <2>4, <2>5, <2>6
<1>3. ASSUME NEW c \in Calls, LedgerFails(c) PROVE CallTypes'
  BY <1>3 DEF LedgerFails, Goto, Tell
<1>4. ASSUME NEW c \in Calls, ReserveNew(c) PROVE CallTypes'
  <2>1. pc[c] = "reserve" /\ req' = req /\ job' = job
    BY <1>4 DEF ReserveNew
  <2>2. /\ pc' \in [Calls -> Labels]
        /\ \A d \in Calls : pc'[d] # "idle" => pc[d] # "idle"
        /\ code' \in [Calls -> Outcomes \cup {"none"}]
        /\ answer' \in [Calls -> Answers \cup {"none"}]
    BY <1>4 DEF ReserveNew, Goto, Tell, Refuse
  <2> QED
    BY <2>1, <2>2
<1>5. ASSUME NEW c \in Calls, ReserveKnown(c) PROVE CallTypes'
  <2>1. KindOf(c) = "REPLAY" => rows[req[c].key].outcome \in Outcomes
    BY ReplayIsCompleted
  <2>2. pc[c] = "reserve" /\ req' = req /\ job' = job
    BY <1>5 DEF ReserveKnown
  <2>3. /\ pc' \in [Calls -> Labels]
        /\ \A d \in Calls : pc'[d] # "idle" => pc[d] # "idle"
        /\ code' \in [Calls -> Outcomes \cup {"none"}]
        /\ answer' \in [Calls -> Answers \cup {"none"}]
    BY <1>5, <2>1 DEF ReserveKnown, Goto, Tell, Refuse
  <2> QED
    BY <2>2, <2>3
<1>6. ASSUME NEW c \in Calls, TryAcquire(c) \/ SubmitRefused(c) PROVE CallTypes'
  <2>1. CASE TryAcquire(c)
    BY <2>1 DEF TryAcquire, Goto, Refuse
  <2>2. CASE SubmitRefused(c)
    <3>1. /\ Refuse(c, "DEADLINE_EXCEEDED") \/ Refuse(c, "ANALYSIS_FAILED")
          /\ pc[c] = "submit" /\ UNCHANGED <<req, job, answer>>
      BY <2>2 DEF SubmitRefused
    <3>2. CASE Refuse(c, "DEADLINE_EXCEEDED")
      BY <3>1, <3>2 DEF Goto, Refuse
    <3>3. CASE Refuse(c, "ANALYSIS_FAILED")
      BY <3>1, <3>3 DEF Goto, Refuse
    <3> QED
      BY <3>1, <3>2, <3>3
  <2> QED
    BY <1>6, <2>1, <2>2
<1>7. ASSUME NEW c \in Calls, Submit(c) PROVE CallTypes'
  BY <1>7 DEF Submit, Goto, JobStates, Endings
<1>8. ASSUME NEW c \in Calls, WaitResult(c) PROVE CallTypes'
  <2>1. job[c].state \in JobRefusals \cup {"evidence"}
    BY <1>8 DEF WaitResult, JobStates, Endings, Local, Jobs
  <2> QED
    BY <1>8, <2>1 DEF WaitResult, Goto, Refuse
<1>9. ASSUME NEW c \in Calls, WaitTimeout(c) \/ Build(c) PROVE CallTypes'
  BY <1>9 DEF WaitTimeout, Build, Goto, Tell, Refuse
<1>10. ASSUME NEW c \in Calls, RecordSuccess(c) PROVE CallTypes'
  BY <1>10 DEF RecordSuccess, Goto, Tell, Outcomes, Local, Codes
<1>15. ASSUME NEW c \in Calls, CheckDeadline(c) PROVE CallTypes'
  BY <1>15 DEF CheckDeadline, Goto, Outcomes
<1>11. ASSUME NEW c \in Calls, RecordRefusal(c) \/ AlreadyClosed(c) PROVE CallTypes'
  BY <1>11 DEF RecordRefusal, AlreadyClosed, Goto, Tell, Local, Codes
<1>12. ASSUME NEW c \in Calls, JobEnd(c) \/ SlotRelease(c) PROVE CallTypes'
  <2>1. job' \in [Calls -> [state : JobStates, slot : BOOLEAN]]
    <3>1. CASE JobEnd(c)
      <4>1. PICK result \in JobRefusals \cup {"evidence"} :
               job' = [job EXCEPT ![c] = [job[c] EXCEPT !.state = result]]
        BY <3>1 DEF JobEnd
      <4>2. [job[c] EXCEPT !.state = result] \in [state : JobStates, slot : BOOLEAN]
        BY DEF JobStates, Endings
      <4> QED
        BY <4>1, <4>2
    <3>2. CASE SlotRelease(c)
      <4>1. job' = [job EXCEPT ![c] = [job[c] EXCEPT !.slot = FALSE]]
        BY <3>2 DEF SlotRelease
      <4>2. [job[c] EXCEPT !.slot = FALSE] \in [state : JobStates, slot : BOOLEAN]
        BY SlotFreed
      <4> QED
        BY <4>1, <4>2
    <3> QED
      BY <1>12, <3>1, <3>2
  <2>2. /\ pc' = pc /\ req' = req /\ code' = code /\ answer' = answer
    BY <1>12 DEF JobEnd, SlotRelease
  <2> QED
    BY <2>1, <2>2
<1>13. ASSUME Crash PROVE CallTypes'
  BY <1>13 DEF Crash, JobStates, Endings
<1>14. ASSUME Tick \/ StepWallClock \/ UNCHANGED vars PROVE CallTypes'
  BY <1>14 DEF Tick, StepWallClock, vars, callVars
<1> QED
  BY <1>1, <1>2, <1>3, <1>4, <1>5, <1>6, <1>7, <1>8, <1>9, <1>10, <1>11, <1>12,
     <1>13, <1>14, <1>15 DEF Next, CallStep

LEMMA NextClocks ==
    TypeOK /\ [Next]_vars => mono' \in 0..MaxTime /\ skew' \in 0..MaxSkew
<1> SUFFICES ASSUME TypeOK, [Next]_vars
             PROVE  mono' \in 0..MaxTime /\ skew' \in 0..MaxSkew
  OBVIOUS
<1>1. \/ mono' = mono /\ skew' = skew
      \/ Tick
      \/ StepWallClock
  BY DEF Next, CallStep, vars, Clocks, Arrive, Prepare, LedgerFails, ReserveNew,
         ReserveKnown, TryAcquire, SubmitRefused, Submit, WaitResult, WaitTimeout,
         Build, CheckDeadline, RecordSuccess, RecordRefusal, AlreadyClosed, JobEnd,
         SlotRelease,
         Crash
<1> QED
  BY <1>1, RouteAssumption DEF TypeOK, Tick, StepWallClock

\* The gate never has more slots than it was made with, nor fewer than none.
LEMMA NextFree == TypeOK /\ SlotsAddUp' /\ [Next]_vars => free' \in 0..MaxConcurrent
<1> SUFFICES ASSUME TypeOK, SlotsAddUp', [Next]_vars PROVE free' \in 0..MaxConcurrent
  OBVIOUS
<1>1. free' \in Nat
  <2>1. free \in Nat /\ MaxConcurrent \in Nat
    BY RouteAssumption DEF TypeOK
  <2>2. \/ free' \in {free, free + 1, MaxConcurrent}
        \/ free > 0 /\ free' = free - 1
    BY DEF Next, CallStep, vars, callVars, Arrive, Prepare, LedgerFails, ReserveNew,
         ReserveKnown, TryAcquire, SubmitRefused, Submit, WaitResult, WaitTimeout,
         Build, CheckDeadline, RecordSuccess, RecordRefusal, AlreadyClosed, JobEnd,
         SlotRelease,
         Crash, Tick, StepWallClock
  <2> QED
    BY <2>1, <2>2
<1>2. Cardinality(Holders') \in Nat
  <2>1. Holders' \subseteq Calls
    BY DEF Holders
  <2> QED
    BY <2>1, RouteAssumption, FS_Subset, FS_CardinalityType
<1> QED
  BY <1>1, <1>2, RouteAssumption DEF SlotsAddUp

-----------------------------------------------------------------------------
(***************************************************************************)
(* The theorems.                                                           *)
(***************************************************************************)
Inv == TypeOK /\ Local /\ SlotsAddUp /\ Owners /\ ToldIsRecorded

LEMMA InitInv == Init => Inv
<1> SUFFICES ASSUME Init PROVE Inv
  OBVIOUS
<1>1. LedgerTypeOK
  BY InitTypeOK DEF Init
<1>2. MaxConcurrent \in Nat /\ MaxTime \in Nat /\ MaxSkew \in Nat
  BY RouteAssumption
<1>3. TypeOK
  BY <1>1, <1>2 DEF Init, TypeOK, Labels, JobStates, Endings
<1>4. Local
  BY DEF Init, Local, Jobs, Codes
<1>5. Holders = {}
  BY DEF Init, Holders
<1>6. SlotsAddUp
  BY <1>2, <1>5, FS_EmptySet DEF Init, SlotsAddUp
<1>7. Owners
  BY DEF Init, Owners, Owner
<1>8. ToldIsRecorded
  BY RefusalsAreOutcomes DEF Init, ToldIsRecorded
<1> QED
  BY <1>3, <1>4, <1>6, <1>7, <1>8 DEF Inv

LEMMA NextInv == Inv /\ [Next]_vars => Inv'
<1> SUFFICES ASSUME Inv, [Next]_vars PROVE Inv'
  OBVIOUS
<1> USE DEF Inv
<1>1. Local' /\ SlotsAddUp' /\ Owners' /\ ToldIsRecorded'
  BY NextLocal, NextSlots, NextOwners, NextTold
<1>2. LedgerTypeOK'
  BY NextIsLedgerNext, NextTypeOK DEF TypeOK
<1>3. CallTypes'
  BY NextCallTypes
<1>4. TypeOK'
  BY <1>1, <1>2, <1>3, NextClocks, NextFree DEF TypeOK, CallTypes
<1> QED
  BY <1>1, <1>4

THEOREM RouteInvariant == Spec => []Inv
BY InitInv, NextInv, PTL DEF Spec

\* Every state of the route has its shape, the gate's count included.
THEOREM RouteTyped == Spec => []TypeOK
<1>1. Inv => TypeOK
  BY DEF Inv
<1> QED
  BY <1>1, RouteInvariant, PTL

\* The gate's slots always add up: none leaks, none is given back twice.
THEOREM RouteSlots == Spec => []SlotsAddUp
<1>1. Inv => SlotsAddUp
  BY DEF Inv
<1> QED
  BY <1>1, RouteInvariant, PTL

\* No key is ever analysed twice, whatever is retried, lost or crashed.
THEOREM RouteAnalysedOnce == Spec => []AnalysedOnce
<1>1. Inv => AnalysedOnce
  BY DEF Inv, Owners, Owner, AnalysedOnce
<1> QED
  BY <1>1, RouteInvariant, PTL

\* No caller ever holds an outcome its row does not record.
THEOREM RouteTold == Spec => []ToldIsRecorded
<1>1. Inv => ToldIsRecorded
  BY DEF Inv
<1> QED
  BY <1>1, RouteInvariant, PTL

\* The service, with its threads, crashes and lost replies, uses the ledger only
\* as RadarLedger allows: the ledger's own theorems hold of the running service.
THEOREM RouteImplementsLedger == Spec => ImplementsLedger
<1>1. Init => LedgerInit
  BY DEF Init
<1>2. Inv /\ [Next]_vars => [LedgerNext]_rows
  BY NextIsLedgerNext DEF Inv
<1> QED
  BY <1>1, <1>2, RouteInvariant, PTL DEF Spec, ImplementsLedger, LedgerSpec

-----------------------------------------------------------------------------
(***************************************************************************)
(* RadarRoute implements RadarPromise: the initial states map to initial   *)
(* states, and every step to a step of the promise or to a stutter.        *)
(***************************************************************************)

(* How each of the abstract variables moves. *)

\* Only a submit starts an analysis.
LEMMA AnalysedStep ==
    ASSUME TypeOK, Local, [Next]_vars
    PROVE  Analysed' = Analysed \/ \E c \in Calls : Submit(c)
<1> DEFINE Kept == \A c \in Calls :
              /\ job'[c].state = "none" <=> job[c].state = "none"
              /\ job[c].state # "none" => req'[c] = req[c]
<1>1. ASSUME Kept PROVE Analysed' = Analysed
  <2>1. {d \in Calls : job[d].state # "none"}' = {d \in Calls : job[d].state # "none"}
    BY <1>1
  <2> QED
    BY <1>1, <2>1 DEF Analysed
<1>2. ASSUME job' = job, req' = req PROVE Kept
  BY <1>2
<1>3. ASSUME NEW c \in Calls, NEW k, NEW fp, NEW q, Arrive(c, k, fp, q) PROVE Kept
  BY <1>3 DEF Arrive, TypeOK, Local, Jobs
<1>4. ASSUME NEW c \in Calls, Prepare(c) PROVE Kept
  <2>1. job' = job /\ job[c].state = "none"
    BY <1>4 DEF Prepare, Local, Jobs
  <2>2. \A d \in Calls : d # c => req'[d] = req[d]
    BY <1>4 DEF Prepare, TypeOK
  <2> QED
    BY <2>1, <2>2
<1>5. ASSUME NEW c \in Calls, JobEnd(c) PROVE Kept
  BY <1>5, RefusalsAreOutcomes DEF JobEnd, TypeOK, Endings
<1>6. ASSUME NEW c \in Calls, SlotRelease(c) PROVE Kept
  BY <1>6 DEF SlotRelease, TypeOK
<1>7. ASSUME Crash PROVE Kept
  BY <1>7 DEF Crash
<1>8. \/ job' = job /\ req' = req
      \/ \E c \in Calls : \/ Submit(c) \/ Prepare(c) \/ JobEnd(c) \/ SlotRelease(c)
                          \/ \E k, fp, q : Arrive(c, k, fp, q)
      \/ Crash
  BY DEF Next, CallStep, vars, callVars, LedgerFails, ReserveNew, ReserveKnown,
         TryAcquire, SubmitRefused, WaitResult, WaitTimeout, Build, CheckDeadline, RecordSuccess,
         RecordRefusal, AlreadyClosed, Tick, StepWallClock
<1> HIDE DEF Kept
<1> QED
  BY <1>1, <1>2, <1>3, <1>4, <1>5, <1>6, <1>7, <1>8

LEMMA SubmitAnalyses ==
    ASSUME TypeOK, Local, NEW c \in Calls, Submit(c)
    PROVE  Analysed' = Analysed \cup {<<c, req[c].key>>}
<1>1. /\ req' = req /\ job'[c].state = "running"
      /\ \A d \in Calls : d # c => job'[d] = job[d]
  BY DEF Submit, TypeOK
<1> QED
  BY <1>1 DEF Analysed

\* A key is analysed only when no call has an analysis of it.
LEMMA SubmitIsFirst ==
    ASSUME Local, Owners, NEW c \in Calls, Submit(c)
    PROVE  \A pair \in Analysed : pair[2] # req[c].key
<1>1. pc[c] = "submit" /\ job[c].state = "none"
  BY DEF Submit, Local, Jobs
<1>2. ASSUME NEW d \in Calls, job[d].state # "none"
      PROVE  req[d].key # req[c].key
  BY <1>1, <1>2 DEF Owners, Owner
<1> QED
  BY <1>2 DEF Analysed

LEMMA QuietTold ==
    ASSUME TypeOK, Quiet
    PROVE  Told' = Told
<1>1. \A c \in Calls : answer'[c] \in Outcomes <=> answer[c] \in Outcomes
  BY RefusalsAreOutcomes DEF Quiet
<1>2. \A c \in Calls : answer[c] \in Outcomes
          => answer'[c] = answer[c] /\ req'[c] = req[c]
  BY RefusalsAreOutcomes DEF Quiet
<1>3. {d \in Calls : answer[d] \in Outcomes}' = {d \in Calls : answer[d] \in Outcomes}
  BY <1>1
<1> QED
  BY <1>2, <1>3 DEF Told

\* A call that had no answer yet is told an outcome, or something else.
LEMMA AnswerTold ==
    ASSUME TypeOK, NEW c \in Calls, answer[c] = "none", req' = req,
           NEW what, answer' = [answer EXCEPT ![c] = what]
    PROVE  /\ what \in Outcomes => Told' = Told \cup {<<c, req[c].key, what>>}
           /\ what \notin Outcomes => Told' = Told
<1>1. answer'[c] = what /\ \A d \in Calls : d # c => answer'[d] = answer[d]
  BY DEF TypeOK
<1>2. answer[c] \notin Outcomes
  BY RefusalsAreOutcomes
<1> QED
  BY <1>1, <1>2 DEF Told

LEMMA SettledStutters == rows' = rows => Settled' = Settled
BY DEF Settled

LEMMA SettledInsert ==
    ASSUME TypeOK, NEW c \in Calls, ReserveNew(c)
    PROVE  Settled' = Settled
<1>1. /\ req[c].key \notin RECORDED /\ RECORDED' = RECORDED \cup {req[c].key}
      /\ rows'[req[c].key].state = "IN_PROGRESS"
      /\ \A x \in RECORDED : rows'[x] = rows[x]
  BY NewKeyOfCall, ReserveNewRows
<1> QED
  BY <1>1 DEF Settled, RECORDED

LEMMA SettledComplete ==
    ASSUME TypeOK, NEW k \in Keys, NEW o \in Outcomes, Complete(k, o)
    PROVE  /\ Settled' = [Settled EXCEPT ![k] = o]
           /\ Settled[k] = "none"
           /\ RECORDED' = RECORDED
<1>1. /\ RECORDED' = RECORDED /\ k \in RECORDED /\ rows[k].state = "IN_PROGRESS"
      /\ rows'[k].state = "COMPLETED" /\ rows'[k].outcome = o
      /\ \A x \in RECORDED : x # k => rows'[x] = rows[x]
  BY CompleteRows
<1>2. \A x \in Keys : Settled'[x] = IF x = k THEN o ELSE Settled[x]
  BY <1>1 DEF Settled, RECORDED
<1>3. Settled[k] = "none"
  BY <1>1 DEF Settled
<1>4. Settled' = [x \in Keys |-> Settled'[x]]
  BY DEF Settled
<1>5. Settled \in [Keys -> {Settled[x] : x \in Keys}]
  BY DEF Settled
<1> QED
  BY <1>1, <1>2, <1>3, <1>4, <1>5

-----------------------------------------------------------------------------
LEMMA InitPromise == Init => Promise!Init
<1> SUFFICES ASSUME Init PROVE Promise!Init
  OBVIOUS
<1>1. RECORDED = {}
  BY InitRecorded DEF Init
<1>2. Analysed = {} /\ Told = {}
  BY RefusalsAreOutcomes DEF Init, Analysed, Told
<1>3. Settled = [k \in Keys |-> "none"]
  BY <1>1 DEF Settled, RECORDED
<1> QED
  BY <1>1, <1>2, <1>3 DEF Promise!Init, RECORDED

\* A recording settles its key, and tells its caller or nobody.
LEMMA RecordSettles ==
    ASSUME Inv, NEW c \in Calls, NEW o \in Outcomes, pc[c] \in {"write", "finish"},
           Complete(req[c].key, o), req' = req, Analysed' = Analysed,
           o = "SUCCEEDED" => job[c].state # "none",
           \/ answer' = [answer EXCEPT ![c] = o]
           \/ answer' = [answer EXCEPT ![c] = "LEDGER_UNAVAILABLE"]
    PROVE  Promise!Next
<1> DEFINE k == req[c].key
<1>1. TypeOK /\ k \in Keys /\ answer[c] = "none"
  BY RequestParts DEF Inv, Local, Codes
<1>2. /\ Settled' = [Settled EXCEPT ![k] = o] /\ Settled[k] = "none"
      /\ RECORDED' = RECORDED /\ k \in RECORDED
  BY <1>1, SettledComplete DEF Complete
<1>3. o = "SUCCEEDED" => <<c, k>> \in Analysed
  BY DEF Analysed
<1>4. Promise!Settle(k, o)
  BY <1>2, <1>3 DEF Promise!Settle, Promise!IsAnalysed, RECORDED
<1>5. CASE answer' = [answer EXCEPT ![c] = o]
  <2>1. Told' = Told \cup {<<c, k, o>>}
    BY <1>1, <1>5, AnswerTold
  <2>2. Promise!SettleAndTell(c, k, o)
    BY <1>2, <1>4, <2>1 DEF Promise!SettleAndTell, RECORDED
  <2> QED
    BY <1>1, <2>2 DEF Promise!Next
<1>6. CASE answer' = [answer EXCEPT ![c] = "LEDGER_UNAVAILABLE"]
  <2>1. Told' = Told
    BY <1>1, <1>6, AnswerTold, RefusalsAreOutcomes DEF Unrecorded
  <2>2. Promise!SettleUnheard(k, o)
    BY <1>2, <1>4, <2>1 DEF Promise!SettleUnheard, RECORDED
  <2> QED
    BY <1>1, <2>2 DEF Promise!Next
<1> QED
  BY <1>5, <1>6

LEMMA NextPromise == Inv /\ [Next]_vars => [Promise!Next]_Promise!vars
<1> SUFFICES ASSUME Inv, [Next]_vars PROVE [Promise!Next]_Promise!vars
  OBVIOUS
<1>0. TypeOK /\ Local /\ Owners
  BY DEF Inv
<1>1. ASSUME NEW c \in Calls, Submit(c) PROVE Promise!Next
  <2>1. pc[c] = "submit" /\ rows' = rows /\ answer' = answer /\ req' = req
    BY <1>1 DEF Submit
  <2>2. req[c].key \in Keys /\ req[c].key \in RECORDED
    BY <1>0, <2>1, RequestParts DEF Owners, Owner
  <2>3. Settled' = Settled /\ Told' = Told
    BY <2>1 DEF Settled, Told
  <2>4. Promise!Analyse(c, req[c].key)
    BY <1>0, <1>1, <2>1, <2>2, <2>3, SubmitAnalyses, SubmitIsFirst
       DEF Promise!Analyse, Promise!IsAnalysed, RECORDED
  <2> QED
    BY <2>2, <2>4 DEF Promise!Next
<1>2. ASSUME NEW c \in Calls, ReserveKnown(c), KindOf(c) = "REPLAY" PROVE Promise!Next
  <2> DEFINE k == req[c].key
  <2>1. /\ pc[c] = "reserve" /\ rows' = rows /\ req' = req /\ job' = job
        /\ answer' = [answer EXCEPT ![c] = rows[k].outcome]
    BY <1>2 DEF ReserveKnown, Tell
  <2>2. k \in Keys /\ answer[c] = "none"
    BY <1>0, <2>1, RequestParts DEF Local, Codes
  <2>3. Settled[k] = rows[k].outcome /\ rows[k].outcome \in Outcomes
    BY <1>0, <1>2, <2>2, ReplayIsCompleted DEF Settled, RECORDED
  <2>4. Told' = Told \cup {<<c, k, Settled[k]>>}
    BY <1>0, <2>1, <2>2, <2>3, AnswerTold
  <2>5. Settled' = Settled /\ Analysed' = Analysed
    BY <2>1 DEF Settled, Analysed
  <2>6. Promise!Replay(c, k)
    BY <2>1, <2>3, <2>4, <2>5, RefusalsAreOutcomes DEF Promise!Replay
  <2> QED
    BY <2>2, <2>6 DEF Promise!Next
<1>3. ASSUME NEW c \in Calls, RecordSuccess(c) PROVE Promise!Next
  <2>1. /\ pc[c] = "write" /\ Complete(req[c].key, code[c]) /\ req' = req /\ job' = job
        /\ \/ answer' = [answer EXCEPT ![c] = code[c]]
           \/ answer' = [answer EXCEPT ![c] = "LEDGER_UNAVAILABLE"]
    BY <1>3 DEF RecordSuccess, Tell
  <2>2. job[c].state # "none"
    BY <1>0, <2>1 DEF Local, Jobs
  <2>3. code[c] \in Outcomes
    BY <1>0, <2>1 DEF Outcomes, Local, Codes
  <2>4. Analysed' = Analysed
    BY <2>1 DEF Analysed
  <2> QED
    BY <2>1, <2>2, <2>3, <2>4, RecordSettles
<1>4. ASSUME NEW c \in Calls, RecordRefusal(c) PROVE Promise!Next
  <2>1. /\ pc[c] = "finish" /\ Complete(req[c].key, code[c]) /\ req' = req /\ job' = job
        /\ \/ answer' = [answer EXCEPT ![c] = code[c]]
           \/ answer' = [answer EXCEPT ![c] = "LEDGER_UNAVAILABLE"]
    BY <1>4 DEF RecordRefusal, Tell
  <2>2. code[c] \in Outcomes /\ code[c] # "SUCCEEDED"
    BY <1>0, <2>1 DEF Local, Codes
  <2>3. Analysed' = Analysed
    BY <2>1 DEF Analysed
  <2> QED
    BY <2>1, <2>2, <2>3, RecordSettles
<1>5. ASSUME NEW c \in Calls, ReserveNew(c), Quiet, Analysed' = Analysed
      PROVE  Promise!Next
  <2>1. /\ req[c].key \in Keys /\ req[c].key \notin RECORDED
        /\ RECORDED' = RECORDED \cup {req[c].key}
    BY <1>0, <1>5, RequestParts, NewKeyOfCall, ReserveNewRows DEF ReserveNew
  <2>2. Promise!Claim(req[c].key)
    BY <1>0, <1>5, <2>1, QuietTold, SettledInsert DEF Promise!Claim, RECORDED
  <2> QED
    BY <2>1, <2>2 DEF Promise!Next
<1>6. ASSUME Quiet, rows' = rows, Analysed' = Analysed
      PROVE  UNCHANGED Promise!vars
  BY <1>0, <1>6, QuietTold, SettledStutters DEF Promise!vars
<1> QED
  BY <1>0, <1>1, <1>2, <1>3, <1>4, <1>5, <1>6, AnalysedStep, QuietStep, RowsStep

\* The route keeps the promise: for every number of calls, keys and slots, and
\* whatever crashes, is lost or retried, a key is claimed once, analysed at most
\* once, settled once, and told only as it is settled.
THEOREM RouteKeepsPromise == Spec => KeepsPromise
BY InitPromise, NextPromise, RouteInvariant, PTL DEF Spec, KeepsPromise, Promise!Spec

-----------------------------------------------------------------------------
(***************************************************************************)
(* The deadline theorems, for every deadline, reserve, grace and clock     *)
(* step: a success is let through in time, and nobody closes a key under a *)
(* call that can still win it.  Their invariant ties the three clocks      *)
(* together: a reception is stamped at most MaxSkew ahead of the arrival,  *)
(* the wall-clock deadline lies at most MaxSkew after the end of the       *)
(* budget, and the row of a call that may still win carries that call's    *)
(* own request and reception.                                              *)
(***************************************************************************)
Active == {"gate", "submit", "wait", "build", "record", "write"}

Stamped == \A c \in Calls : pc[c] # "idle" =>
    /\ req[c].arrived <= mono
    /\ req[c].arrived <= req[c].received
    /\ req[c].received <= mono + MaxSkew

DeadlineKept == \A c \in Calls :
    pc[c] \in {"reserve"} \cup Active => req[c].deadlineAt <= BudgetEnd(c) + MaxSkew

OwnRow == \A c \in Calls : pc[c] \in Active =>
    /\ rows[req[c].key].fingerprint = req[c].fp
    /\ rows[req[c].key].received = req[c].received

\* A second call about to close an active call's key found it abandoned.
ClosedLate == AbandonGrace >= MaxSkew =>
    \A c, d \in Calls :
        (c # d /\ pc[c] \in Active /\ pc[d] = "finish" /\ req[c].key = req[d].key)
            => mono >= BudgetEnd(c)

DeadlineInv == Stamped /\ DeadlineKept /\ OwnRow /\ ClosedLate

-----------------------------------------------------------------------------
(* How a call moves. *)

LEMMA ReqStep ==
    ASSUME TypeOK, [Next]_vars, NEW c \in Calls
    PROVE  \/ /\ req'[c] = req[c]
              /\ pc[c] = "idle" => pc'[c] = "idle"
              /\ pc[c] = "prepare" => pc'[c] # "reserve"
           \/ /\ pc[c] = "idle" /\ pc'[c] = "prepare"
              /\ mono' = mono
              /\ req'[c].arrived = mono /\ req'[c].received = WallClock
           \/ /\ pc[c] = "prepare" /\ pc'[c] = "reserve"
              /\ mono' = mono
              /\ req'[c] = [req[c] EXCEPT !.deadlineAt = DeadlineAt(c)]
<1> DEFINE Same == /\ req'[c] = req[c]
                   /\ pc[c] = "idle" => pc'[c] = "idle"
                   /\ pc[c] = "prepare" => pc'[c] # "reserve"
<1>0. pc \in [Calls -> Labels] /\ req \in [Calls -> Request \cup {Unasked}]
  BY DEF TypeOK
<1>1. ASSUME NEW d \in Calls, NEW k, NEW fp, NEW q, Arrive(d, k, fp, q), d # c
      PROVE  Same
  BY <1>0, <1>1 DEF Arrive, Goto
<1>2. ASSUME NEW k, NEW fp, NEW q, Arrive(c, k, fp, q)
      PROVE  /\ pc[c] = "idle" /\ pc'[c] = "prepare" /\ mono' = mono
             /\ req'[c].arrived = mono /\ req'[c].received = WallClock
  BY <1>0, <1>2 DEF Arrive, Goto, Clocks
<1>3. ASSUME NEW d \in Calls, Prepare(d), d # c PROVE Same
  BY <1>0, <1>3 DEF Prepare, Goto, Tell
<1>4. ASSUME Prepare(c)
      PROVE  \/ Same
             \/ /\ pc[c] = "prepare" /\ pc'[c] = "reserve" /\ mono' = mono
                /\ req'[c] = [req[c] EXCEPT !.deadlineAt = DeadlineAt(c)]
  <2>1. CASE req' = [req EXCEPT ![c].deadlineAt = DeadlineAt(c)] /\ Goto(c, "reserve")
    BY <1>0, <1>4, <2>1 DEF Prepare, Goto, Clocks
  <2>2. CASE req' = req /\ \E what : Tell(c, what)
    BY <1>0, <1>4, <2>2 DEF Prepare, Goto, Tell
  <2> QED
    BY <1>4, <2>1, <2>2 DEF Prepare
<1>5. ASSUME req' = req, pc' = pc PROVE Same
  BY <1>5
<1>6. ASSUME req' = req, NEW d \in Calls, pc[d] \notin {"idle", "prepare"}, NEW l,
             pc' = [pc EXCEPT ![d] = l]
      PROVE  Same
  BY <1>0, <1>6
<1>7. ASSUME Crash PROVE Same
  BY <1>7 DEF Crash
<1>8. \/ req' = req /\ pc' = pc
      \/ \E d \in Calls : \/ \E k, fp, q : Arrive(d, k, fp, q)
                          \/ Prepare(d)
                          \/ /\ req' = req /\ pc[d] \notin {"idle", "prepare"}
                             /\ \E l : pc' = [pc EXCEPT ![d] = l]
      \/ Crash
  BY DEF Next, CallStep, vars, callVars, LedgerFails, ReserveNew, ReserveKnown,
         TryAcquire, SubmitRefused, Submit, WaitResult, WaitTimeout, Build, CheckDeadline,
         RecordSuccess, RecordRefusal, AlreadyClosed, JobEnd, SlotRelease, Tick,
         StepWallClock, Goto, Tell, Refuse
<1> HIDE DEF Same
<1>9. Same \/ ~Same
  OBVIOUS
<1> QED
  BY <1>1, <1>2, <1>3, <1>4, <1>5, <1>6, <1>7, <1>8 DEF Same

\* Whoever is active was, or has just reserved a new key; whoever is about to
\* record a refusal was active, or reserved, or found its key abandoned.
LEMMA PcStep ==
    ASSUME TypeOK, [Next]_vars, NEW c \in Calls
    PROVE  /\ pc'[c] \in Active => pc[c] \in Active \/ ReserveNew(c)
           /\ pc'[c] = "reserve" => pc[c] \in {"reserve", "prepare"}
           /\ pc'[c] = "finish" =>
                \/ pc[c] \in {"finish"} \cup Active
                \/ ReserveNew(c)
                \/ ReserveKnown(c) /\ KindOf(c) = "ABANDONED"
<1>0. pc \in [Calls -> Labels]
  BY DEF TypeOK
<1> DEFINE Goal == /\ pc'[c] \in Active => pc[c] \in Active \/ ReserveNew(c)
                   /\ pc'[c] = "reserve" => pc[c] \in {"reserve", "prepare"}
                   /\ pc'[c] = "finish" =>
                        \/ pc[c] \in {"finish"} \cup Active
                        \/ ReserveNew(c)
                        \/ ReserveKnown(c) /\ KindOf(c) = "ABANDONED"
<1>1. ASSUME NEW d \in Calls, NEW k, NEW fp, NEW q, Arrive(d, k, fp, q) PROVE Goal
  BY <1>0, <1>1 DEF Arrive, Goto, Active
<1>2. ASSUME NEW d \in Calls, Prepare(d) \/ LedgerFails(d) PROVE Goal
  <2>1. \/ pc[d] = "prepare" /\ pc' = [pc EXCEPT ![d] = "reserve"]
        \/ pc' = [pc EXCEPT ![d] = "done"]
    BY <1>2 DEF Prepare, LedgerFails, Goto, Tell
  <2> QED
    BY <1>0, <2>1 DEF Active
<1>3. ASSUME NEW d \in Calls, ReserveNew(d) PROVE Goal
  <2>1. pc[d] = "reserve" /\ \E l : pc' = [pc EXCEPT ![d] = l]
    BY <1>3 DEF ReserveNew, Goto, Tell, Refuse
  <2> QED
    BY <1>0, <1>3, <2>1
<1>4. ASSUME NEW d \in Calls, ReserveKnown(d) PROVE Goal
  BY <1>0, <1>4 DEF ReserveKnown, Goto, Tell, Refuse, Active
<1>5. ASSUME NEW d \in Calls, TryAcquire(d) \/ SubmitRefused(d) \/ Submit(d) PROVE Goal
  BY <1>0, <1>5 DEF TryAcquire, SubmitRefused, Submit, Goto, Refuse, Active
<1>6. ASSUME NEW d \in Calls, WaitResult(d) \/ WaitTimeout(d) \/ Build(d) PROVE Goal
  BY <1>0, <1>6 DEF WaitResult, WaitTimeout, Build, Goto, Refuse, Tell, Active
<1>7. ASSUME NEW d \in Calls, RecordSuccess(d) \/ RecordRefusal(d) \/ AlreadyClosed(d)
      PROVE  Goal
  <2>1. pc' = [pc EXCEPT ![d] = "done"]
    BY <1>7 DEF RecordSuccess, RecordRefusal, AlreadyClosed, Goto, Tell
  <2> QED
    BY <1>0, <2>1 DEF Active
<1>11. ASSUME NEW d \in Calls, CheckDeadline(d) PROVE Goal
  BY <1>0, <1>11 DEF CheckDeadline, Goto, Active
<1>8. ASSUME Crash PROVE Goal
  BY <1>8 DEF Crash, Active
<1>9. ASSUME pc' = pc PROVE Goal
  BY <1>9
<1> HIDE DEF Goal
<1>10. Goal
  BY <1>1, <1>2, <1>3, <1>4, <1>5, <1>6, <1>7, <1>8, <1>9, <1>11
     DEF Next, CallStep, JobEnd, SlotRelease, Tick, StepWallClock, vars, callVars
<1> QED
  BY <1>10 DEF Goal

LEMMA MonoStep == TypeOK /\ [Next]_vars => mono \in Int /\ mono' \in Int /\ mono <= mono'
<1> SUFFICES ASSUME TypeOK, [Next]_vars PROVE mono \in Int /\ mono' \in Int /\ mono <= mono'
  OBVIOUS
<1>1. mono' = mono \/ Tick
  BY DEF Next, CallStep, vars, callVars, Clocks, Arrive, Prepare, LedgerFails,
         ReserveNew, ReserveKnown, TryAcquire, SubmitRefused, Submit, WaitResult,
         WaitTimeout, Build, CheckDeadline, RecordSuccess, RecordRefusal, AlreadyClosed, JobEnd,
         SlotRelease, Crash, StepWallClock
<1>2. mono \in Int
  BY DEF TypeOK
<1> QED
  BY <1>1, <1>2 DEF Tick

-----------------------------------------------------------------------------
LEMMA NextStamped == TypeOK /\ Stamped /\ [Next]_vars => Stamped'
<1> SUFFICES ASSUME TypeOK, Stamped, [Next]_vars, NEW c \in Calls, pc'[c] # "idle"
             PROVE  /\ req'[c].arrived <= mono'
                    /\ req'[c].arrived <= req'[c].received
                    /\ req'[c].received <= mono' + MaxSkew
  BY DEF Stamped
<1>0. /\ mono \in Int /\ mono' \in Int /\ mono <= mono' /\ MaxSkew \in Int
      /\ skew \in Int /\ 0 <= skew /\ skew <= MaxSkew
  BY MonoStep, RouteAssumption DEF TypeOK
<1>1. CASE pc[c] = "idle"
  <2>1. mono' = mono /\ req'[c].arrived = mono /\ req'[c].received = WallClock
    BY <1>1, ReqStep
  <2> QED
    BY <1>0, <2>1 DEF WallClock
<1>2. CASE pc[c] # "idle"
  <2>1. /\ req[c].arrived <= mono /\ req[c].arrived <= req[c].received
        /\ req[c].received <= mono + MaxSkew
    BY <1>2 DEF Stamped
  <2>2. req[c].arrived \in Int /\ req[c].received \in Int
    BY <1>2, RequestParts
  <2>3. req'[c].arrived = req[c].arrived /\ req'[c].received = req[c].received
    <3>1. req[c] \in Request
      BY <1>2 DEF TypeOK
    <3> QED
      BY <1>2, <3>1, ReqStep DEF Request
  <2> QED
    BY <1>0, <2>1, <2>2, <2>3
<1> QED
  BY <1>1, <1>2

\* Past the reservation a request, and so its budget, stays as it is.
LEMMA RequestKept ==
    ASSUME TypeOK, [Next]_vars, NEW c \in Calls, pc[c] \notin {"idle", "prepare"}
    PROVE  req'[c] = req[c] /\ BudgetEnd(c)' = BudgetEnd(c)
BY ReqStep DEF BudgetEnd

LEMMA NextDeadlineKept == TypeOK /\ DeadlineKept /\ [Next]_vars => DeadlineKept'
<1> SUFFICES ASSUME TypeOK, DeadlineKept, [Next]_vars, NEW c \in Calls,
                    pc'[c] \in {"reserve"} \cup Active
             PROVE  req'[c].deadlineAt <= BudgetEnd(c)' + MaxSkew
  BY DEF DeadlineKept
<1>1. pc[c] \in {"prepare", "reserve"} \cup Active
  BY PcStep DEF ReserveNew
<1>2. CASE pc[c] \in {"reserve"} \cup Active
  <2>1. pc[c] \notin {"idle", "prepare"}
    BY <1>2 DEF Active
  <2> QED
    BY <1>2, <2>1, RequestKept DEF DeadlineKept
<1>3. CASE pc[c] = "prepare"
  <2>1. req'[c] = [req[c] EXCEPT !.deadlineAt = DeadlineAt(c)]
    <3>1. pc'[c] = "reserve"
      BY <1>3, PcStep DEF Active, ReserveNew
    <3> QED
      BY <1>3, <3>1, ReqStep
  <2>2. req[c] \in Request
    BY <1>3 DEF TypeOK
  <2>3. req'[c].deadlineAt = DeadlineAt(c) /\ BudgetEnd(c)' = BudgetEnd(c)
    BY <2>1, <2>2 DEF Request, BudgetEnd
  <2>4. BudgetEnd(c) \in Int
    BY <1>3, RequestParts
  <2>5. mono \in Int /\ skew \in Int /\ skew <= MaxSkew /\ MaxSkew \in Int
    BY RouteAssumption DEF TypeOK
  <2> QED
    BY <2>3, <2>4, <2>5 DEF DeadlineAt, WallClock
<1> QED
  BY <1>1, <1>2, <1>3

\* The rows of active calls: inserted as requested, and their request kept.
RequestRowsKept ==
    \A k \in RECORDED :
        /\ k \in RECORDED'
        /\ rows'[k].fingerprint = rows[k].fingerprint
        /\ rows'[k].received = rows[k].received

LEMMA NextRequestRowsKept == TypeOK /\ [Next]_vars => RequestRowsKept
<1> SUFFICES ASSUME TypeOK, [Next]_vars PROVE RequestRowsKept
  OBVIOUS
<1>1. CASE rows' = rows
  BY <1>1 DEF RequestRowsKept, RECORDED
<1>2. ASSUME NEW c \in Calls, ReserveNew(c) PROVE RequestRowsKept
  BY <1>2, ReserveNewRows DEF RequestRowsKept
<1>3. ASSUME NEW k, NEW o, Complete(k, o) PROVE RequestRowsKept
  <2>1. /\ CompletedRow(rows[k], o).fingerprint = rows[k].fingerprint
        /\ CompletedRow(rows[k], o).received = rows[k].received
    BY DEF CompletedRow
  <2>2. /\ RECORDED' = RECORDED /\ rows'[k] = CompletedRow(rows[k], o)
        /\ \A x \in RECORDED : x # k => rows'[x] = rows[x]
    BY <1>3, CompleteRows
  <2> QED
    BY <2>1, <2>2 DEF RequestRowsKept
<1> QED
  BY <1>1, <1>2, <1>3, RowsStep DEF RecordSuccess, RecordRefusal

LEMMA ReserveNewRow ==
    ASSUME NEW c \in Calls, ReserveNew(c)
    PROVE  /\ rows'[req[c].key].fingerprint = req[c].fp
           /\ rows'[req[c].key].received = req[c].received
           /\ req' = req /\ pc[c] = "reserve" /\ mono' = mono
<1>1. PICK granted : Insert(req[c].key, NewRow(req[c].fp, req[c].received, granted))
  BY DEF ReserveNew
<1>2. req' = req /\ pc[c] = "reserve" /\ mono' = mono
  BY DEF ReserveNew, Clocks
<1> QED
  BY <1>1, <1>2, NewKeyOfCall, Inserted DEF NewRow

LEMMA NextOwnRow == TypeOK /\ Owners /\ OwnRow /\ [Next]_vars => OwnRow'
<1> SUFFICES ASSUME TypeOK, Owners, OwnRow, [Next]_vars, NEW c \in Calls, pc'[c] \in Active
             PROVE  /\ rows'[req'[c].key].fingerprint = req'[c].fp
                    /\ rows'[req'[c].key].received = req'[c].received
  BY DEF OwnRow
<1>1. CASE pc[c] \in Active
  <2>1. req'[c] = req[c]
    BY <1>1, RequestKept DEF Active
  <2>2. req[c].key \in RECORDED
    BY <1>1 DEF Owners, Owner, Active
  <2> QED
    BY <1>1, <2>1, <2>2, NextRequestRowsKept DEF RequestRowsKept, OwnRow
<1>2. CASE ReserveNew(c)
  BY <1>2, ReserveNewRow
<1> QED
  BY <1>1, <1>2, PcStep

\* A key found abandoned belongs to a call whose budget is spent.
LEMMA AbandonedIsSpent ==
    ASSUME Inv, DeadlineInv, AbandonGrace >= MaxSkew,
           NEW c \in Calls, pc[c] \in Active,
           NEW d \in Calls, pc[d] = "reserve", KindOf(d) = "ABANDONED",
           req[c].key = req[d].key
    PROVE  mono >= BudgetEnd(c)
<1> DEFINE row == rows[req[c].key]
<1>0. TypeOK /\ pc[c] # "idle" /\ pc[d] # "idle"
  BY DEF Inv, Active
<1>1. req[d].key \in RECORDED
  BY DEF Inv, Owners, Owner, Active
<1>2. ClassifyExisting(row, req[d].fp, req[d].received) = "ABANDONED"
  BY <1>1 DEF KindOf, ReserveKind
<1>3. req[d].received >= row.received + DeadlineOf[row.fingerprint] + AbandonGrace
  BY <1>2 DEF ClassifyExisting
<1>4. row.received = req[c].received /\ row.fingerprint = req[c].fp
  BY DEF DeadlineInv, OwnRow
<1>5. /\ req[c].arrived <= req[c].received
      /\ req[d].received <= mono + MaxSkew
  BY <1>0 DEF DeadlineInv, Stamped
<1>6. /\ req[c].arrived \in Int /\ req[c].received \in Int /\ req[d].received \in Int
      /\ DeadlineOf[req[c].fp] \in Int
  BY <1>0, RequestParts
<1>7. mono \in Int /\ MaxSkew \in Int /\ AbandonGrace \in Int
  BY <1>0, RouteAssumption, LedgerAssumption DEF TypeOK
<1> QED
  BY <1>3, <1>4, <1>5, <1>6, <1>7 DEF BudgetEnd

LEMMA NextClosedLate == Inv /\ DeadlineInv /\ [Next]_vars => ClosedLate'
<1> SUFFICES ASSUME Inv, DeadlineInv, [Next]_vars, AbandonGrace >= MaxSkew,
                    NEW c \in Calls, NEW d \in Calls, c # d,
                    pc'[c] \in Active, pc'[d] = "finish", req'[c].key = req'[d].key
             PROVE  mono' >= BudgetEnd(c)'
  BY DEF ClosedLate
<1>0. TypeOK /\ Owners
  BY DEF Inv
<1>1. pc[d] \in {"reserve", "finish"} \cup Active
  BY <1>0, PcStep DEF ReserveNew, ReserveKnown
<1>2. req'[d] = req[d]
  BY <1>0, <1>1, RequestKept DEF Active
<1>3. req[d].key \in RECORDED \/ ReserveNew(d)
  <2>1. KindOf(d) = "ABANDONED" => req[d].key \in RECORDED
    BY DEF KindOf, ReserveKind
  <2> QED
    BY <1>0, <2>1, PcStep DEF Owners, Owner, Active
<1>4. CASE ReserveNew(c)
  <2>1. req[c].key \notin RECORDED /\ req'[c] = req[c]
    BY <1>4, NewKeyOfCall, ReserveNewRow
  <2>2. ~ReserveNew(d)
    <3>1. ASSUME ReserveNew(d) PROVE FALSE
      <4>1. pc'[c] = pc[c] /\ pc[c] = "reserve"
        BY <1>0, <1>4, <3>1 DEF ReserveNew, Goto, Tell, Refuse, TypeOK
      <4> QED
        BY <4>1 DEF Active
    <3> QED
      BY <3>1
  <2> QED
    BY <1>2, <1>3, <2>1, <2>2
<1>5. CASE pc[c] \in Active
  <2>1. /\ req'[c] = req[c] /\ BudgetEnd(c)' = BudgetEnd(c)
        /\ BudgetEnd(c) \in Int /\ mono \in Int /\ mono' \in Int /\ mono <= mono'
        /\ req[c].key \in RECORDED
    BY <1>0, <1>5, RequestKept, RequestParts, MonoStep DEF Active, Owners, Owner
  <2>2. mono >= BudgetEnd(c)
    <3>1. CASE pc[d] = "finish"
      BY <1>2, <1>5, <2>1, <3>1 DEF DeadlineInv, ClosedLate
    <3>2. CASE pc[d] \in Active
      BY <1>0, <1>2, <1>5, <2>1, <3>2 DEF Owners, Owner, Active
    <3>3. CASE ReserveNew(d)
      BY <1>2, <2>1, <3>3, NewKeyOfCall
    <3>4. CASE ReserveKnown(d) /\ KindOf(d) = "ABANDONED"
      BY <1>2, <1>5, <2>1, <3>4, AbandonedIsSpent DEF ReserveKnown
    <3> QED
      BY <1>0, <3>1, <3>2, <3>3, <3>4, PcStep
  <2> QED
    BY <2>1, <2>2
<1> QED
  BY <1>0, <1>4, <1>5, PcStep

-----------------------------------------------------------------------------
LEMMA InitDeadlineInv == Init => DeadlineInv
BY DEF Init, DeadlineInv, Stamped, DeadlineKept, OwnRow, ClosedLate, Active

LEMMA NextDeadlineInv == Inv /\ DeadlineInv /\ [Next]_vars => DeadlineInv'
BY NextStamped, NextDeadlineKept, NextOwnRow, NextClosedLate DEF Inv, DeadlineInv

THEOREM RouteDeadlineInvariant == Spec => []DeadlineInv
BY InitDeadlineInv, NextDeadlineInv, RouteInvariant, PTL DEF Spec

\* A call comes to the write of a success only through the check of its deadline.
LEMMA OnlyCheckLetsThrough ==
    ASSUME TypeOK, [Next]_vars, NEW c \in Calls, LetsThrough(c)
    PROVE  OnTime(c)
<1>0. pc \in [Calls -> Labels] /\ code \in [Calls -> Outcomes \cup {"none"}]
  BY DEF TypeOK
<1>1. pc[c] = "record" /\ pc'[c] = "write" /\ code'[c] = "SUCCEEDED"
  BY DEF LetsThrough
<1>2. ASSUME NEW d \in Calls, CheckDeadline(d) PROVE OnTime(c)
  <2>1. /\ pc' = [pc EXCEPT ![d] = "write"]
        /\ code' = [code EXCEPT ![d] = IF OnTime(d) THEN "SUCCEEDED"
                                                   ELSE "DEADLINE_EXCEEDED"]
    BY <1>2 DEF CheckDeadline, Goto
  <2>2. c = d
    BY <1>0, <1>1, <2>1
  <2> QED
    BY <1>0, <1>1, <2>1, <2>2
<1>3. ASSUME NEW d \in Calls, NEW l, l # "write", pc' = [pc EXCEPT ![d] = l]
      PROVE  FALSE
  BY <1>0, <1>1, <1>3
<1>4. CASE Crash
  BY <1>1, <1>4 DEF Crash
<1>5. CASE pc' = pc
  BY <1>1, <1>5
<1>6. \/ pc' = pc \/ Crash
      \/ \E d \in Calls : CheckDeadline(d)
      \/ \E d \in Calls, l \in Labels \ {"write"} : pc' = [pc EXCEPT ![d] = l]
  BY DEF Next, CallStep, vars, callVars, Arrive, Prepare, LedgerFails, ReserveNew,
         ReserveKnown, TryAcquire, SubmitRefused, Submit, WaitResult, WaitTimeout,
         Build, RecordSuccess, RecordRefusal, AlreadyClosed, JobEnd, SlotRelease,
         Tick, StepWallClock, Goto, Tell, Refuse, Labels
<1> QED
  BY <1>2, <1>3, <1>4, <1>5, <1>6

\* The deadline contract: what records a success was let through while the caller's
\* own budget still had the commit's margin left, up to the gap between the two
\* clocks, for every deadline, reserve and clock step.  When it is written and
\* committed after that is not bounded, and not claimed.
THEOREM RouteSuccessOnTime == Spec => SuccessOnTime
<1>1. ASSUME Inv, DeadlineInv, [Next]_vars, NEW c \in Calls, LetsThrough(c)
      PROVE  mono + CommitReserve <= BudgetEnd(c) + MaxSkew
  <2>0. TypeOK
    BY <1>1 DEF Inv
  <2>1. OnTime(c)
    BY <1>1, <2>0, OnlyCheckLetsThrough
  <2>2. req[c].deadlineAt <= BudgetEnd(c) + MaxSkew
    BY <1>1 DEF DeadlineInv, DeadlineKept, Active, LetsThrough
  <2>3. /\ req[c].deadlineAt \in Int /\ BudgetEnd(c) \in Int /\ mono \in Int
        /\ CommitReserve \in Int /\ MaxSkew \in Int
    BY <1>1, <2>0, RequestParts, RouteAssumption DEF TypeOK, LetsThrough
  <2> QED
    BY <2>1, <2>2, <2>3 DEF OnTime
<1>2. ASSUME Inv, [Next]_vars, NEW k \in RECORDED,
             rows[k].state = "IN_PROGRESS", rows'[k].outcome = "SUCCEEDED"
      PROVE  \E c \in Calls : pc[c] = "write" /\ code[c] = "SUCCEEDED" /\ req[c].key = k
  <2>0. TypeOK /\ Local
    BY <1>2 DEF Inv
  <2>1. rows[k].outcome # "SUCCEEDED"
    BY <1>2, <2>0, OutcomeCompletes DEF Outcomes
  <2>2. ASSUME NEW d \in Calls, ReserveNew(d) PROVE FALSE
    BY <1>2, <2>1, <2>2, ReserveNewRows
  <2>3. ASSUME NEW d \in Calls, RecordRefusal(d) PROVE FALSE
    <3>1. Complete(req[d].key, code[d]) /\ code[d] # "SUCCEEDED"
      BY <2>0, <2>3 DEF RecordRefusal, Local, Codes
    <3> QED
      BY <1>2, <2>0, <2>1, <3>1, CompleteRows
  <2>4. ASSUME NEW d \in Calls, RecordSuccess(d)
        PROVE  pc[d] = "write" /\ code[d] = "SUCCEEDED" /\ req[d].key = k
    <3>1. pc[d] = "write" /\ Complete(req[d].key, code[d])
      BY <2>4 DEF RecordSuccess
    <3> QED
      BY <1>2, <2>0, <2>1, <3>1, CompleteRows
  <2> QED
    BY <1>2, <2>0, <2>1, <2>2, <2>3, <2>4, RowsStep
<1>3. Inv /\ DeadlineInv /\ [Next]_vars
         => [/\ \A c \in Calls :
                    LetsThrough(c) => mono + CommitReserve <= BudgetEnd(c) + MaxSkew
             /\ \A k \in DOMAIN rows :
                    (rows[k].state = "IN_PROGRESS" /\ rows'[k].outcome = "SUCCEEDED")
                        => \E c \in Calls : /\ pc[c] = "write" /\ code[c] = "SUCCEEDED"
                                            /\ req[c].key = k]_vars
  BY <1>1, <1>2 DEF RECORDED
<1> QED
  BY <1>3, RouteInvariant, RouteDeadlineInvariant, PTL DEF Spec, SuccessOnTime

\* Nobody closes a key under a call that can still win it, as long as the grace
\* covers what the wall clock may step.
THEOREM RouteClosedOnlyWhenSpent == Spec => ClosedOnlyWhenSpent
<1>1. Inv /\ DeadlineInv /\ [Next]_vars
         => [AbandonGrace >= MaxSkew =>
               \A c, d \in Calls :
                  (/\ c # d
                   /\ pc[c] \in {"gate", "submit", "wait", "build", "record", "write"}
                   /\ pc[d] = "finish" /\ pc'[d] = "done"
                   /\ req[c].key = req[d].key
                   /\ rows'[req[c].key] # rows[req[c].key])
                      => mono >= BudgetEnd(c)]_vars
  BY DEF DeadlineInv, ClosedLate, Active
<1> QED
  BY <1>1, RouteInvariant, RouteDeadlineInvariant, PTL DEF Spec, ClosedOnlyWhenSpent
-----------------------------------------------------------------------------
(***************************************************************************)
(* Every recorded success rests on an analysis.                            *)
(***************************************************************************)

\* The call c analysed the key k and found evidence, or did until it died.
Proves(c, k) == pc[c] # "idle" /\ req[c].key = k /\ job[c].state \in {"evidence", "dead"}

\* Evidence, once found, is evidence of the same key for good.
LEMMA EvidenceLasts ==
    ASSUME TypeOK, Local, [Next]_vars, NEW c \in Calls, NEW k, Proves(c, k)
    PROVE  Proves(c, k)'
<1> USE DEF TypeOK, Proves
<1>1. req'[c].key = req[c].key
  <2>1. ASSUME NEW d \in Calls, NEW x, NEW fp, NEW q, Arrive(d, x, fp, q)
        PROVE  req'[c] = req[c]
    BY <2>1 DEF Arrive
  <2>2. ASSUME NEW d \in Calls, Prepare(d) PROVE req'[c] = req[c]
    <3>1. d # c
      BY <2>2 DEF Prepare, Local, Jobs
    <3> QED
      BY <2>2, <3>1 DEF Prepare
  <2>3. \/ req' = req
        \/ \E d \in Calls, x \in Keys, fp \in Fingerprints, q \in QuotaChoices :
              Arrive(d, x, fp, q)
        \/ \E d \in Calls : Prepare(d)
    BY DEF Next, CallStep, LedgerFails, ReserveNew, ReserveKnown, TryAcquire,
           SubmitRefused, Submit, WaitResult, WaitTimeout, Build, CheckDeadline, RecordSuccess,
           RecordRefusal, AlreadyClosed, JobEnd, SlotRelease, Crash, Tick,
           StepWallClock, vars, callVars
  <2> QED
    BY <2>1, <2>2, <2>3
<1>2. job'[c].state \in {"evidence", "dead"}
  <2>1. ASSUME NEW d \in Calls, Submit(d) PROVE job'[c] = job[c]
    BY <2>1 DEF Submit, Local, Jobs
  <2>2. ASSUME NEW d \in Calls, JobEnd(d) PROVE job'[c] = job[c]
    BY <2>2 DEF JobEnd
  <2>3. ASSUME NEW d \in Calls, SlotRelease(d) PROVE job'[c].state = job[c].state
    BY <2>3 DEF SlotRelease
  <2>4. CASE Crash
    BY <2>4 DEF Crash
  <2>5. \/ job' = job \/ Crash
        \/ \E d \in Calls : Submit(d) \/ JobEnd(d) \/ SlotRelease(d)
    BY DEF Next, CallStep, Arrive, Prepare, LedgerFails, ReserveNew, ReserveKnown,
           TryAcquire, SubmitRefused, WaitResult, WaitTimeout, Build, CheckDeadline, RecordSuccess,
           RecordRefusal, AlreadyClosed, Tick, StepWallClock, vars, callVars
  <2> QED
    BY <2>1, <2>2, <2>3, <2>4, <2>5
<1>3. pc'[c] # "idle"
  BY DEF Next, CallStep, Arrive, Prepare, LedgerFails, ReserveNew, ReserveKnown,
         TryAcquire, SubmitRefused, Submit, WaitResult, WaitTimeout, Build, CheckDeadline,
         RecordSuccess, RecordRefusal, AlreadyClosed, JobEnd, SlotRelease, Crash,
         Tick, StepWallClock, Goto, Tell, Refuse, vars, callVars
<1> QED
  BY <1>1, <1>2, <1>3

LEMMA NextEvidence == TypeOK /\ Local /\ SuccessHasEvidence /\ [Next]_vars => SuccessHasEvidence'
<1> SUFFICES ASSUME TypeOK, Local, SuccessHasEvidence, [Next]_vars,
                    NEW k \in RECORDED', rows'[k].outcome = "SUCCEEDED"
             PROVE  \E c \in Calls : Proves(c, k)'
  BY DEF SuccessHasEvidence, Proves, RECORDED
<1>1. CASE k \in RECORDED /\ rows[k].outcome = "SUCCEEDED"
  <2>1. PICK c \in Calls : Proves(c, k)
    BY <1>1 DEF SuccessHasEvidence, Proves, RECORDED
  <2> QED
    BY <2>1, EvidenceLasts
<1>2. CASE rows' = rows
  BY <1>1, <1>2 DEF RECORDED
<1>3. ASSUME NEW d \in Calls, ReserveNew(d) PROVE \E c \in Calls : Proves(c, k)'
  BY <1>1, <1>3, ReserveNewRows
<1>4. ASSUME NEW d \in Calls, RecordSuccess(d) PROVE \E c \in Calls : Proves(c, k)'
  <2>1. Complete(req[d].key, code[d]) /\ pc[d] = "write"
    BY <1>4 DEF RecordSuccess
  <2>2. CASE k = req[d].key
    <3>1. Proves(d, k)
      BY <2>1, <2>2 DEF Proves, Local, Jobs
    <3> QED
      BY <3>1, EvidenceLasts
  <2>3. CASE k # req[d].key
    BY <1>1, <2>1, <2>3, CompleteRows
  <2> QED
    BY <2>2, <2>3
<1>5. ASSUME NEW d \in Calls, RecordRefusal(d) PROVE \E c \in Calls : Proves(c, k)'
  <2>1. Complete(req[d].key, code[d]) /\ code[d] # "SUCCEEDED"
    BY <1>5 DEF RecordRefusal, Local, Codes
  <2> QED
    BY <1>1, <2>1, CompleteRows
<1> QED
  BY <1>2, <1>3, <1>4, <1>5, RowsStep

\* A success is never recorded without evidence from the key's own analysis, for any
\* number of calls, retries and crashes.
THEOREM RouteSuccessHasEvidence == Spec => []SuccessHasEvidence
<1>1. Init => SuccessHasEvidence
  BY DEF Init, LedgerInit, SuccessHasEvidence
<1>2. Inv /\ SuccessHasEvidence /\ [Next]_vars => SuccessHasEvidence'
  BY NextEvidence DEF Inv
<1> QED
  BY <1>1, <1>2, RouteInvariant, PTL DEF Spec

-----------------------------------------------------------------------------
(* How many steps of its own a call has before it, at the most.            *)
StepsFrom(l) ==
    CASE l = "idle" -> 9
      [] l = "prepare" -> 8
      [] l = "reserve" -> 7
      [] l = "gate" -> 6
      [] l = "submit" -> 5
      [] l = "wait" -> 4
      [] l = "build" -> 3
      [] l = "record" -> 2
      [] l \in {"write", "finish"} -> 1
      [] l \in {"done", "lost"} -> 0

StepsLeft(c) == StepsFrom(pc[c])

CountsDown(c) ==
    /\ StepsLeft(c) \in Nat /\ StepsLeft(c)' \in Nat /\ StepsLeft(c)' <= StepsLeft(c)
    /\ CallStep(c) => StepsLeft(c)' < StepsLeft(c)

LEMMA StepsFromType == \A l \in Labels : StepsFrom(l) \in 0 .. 9
BY DEF StepsFrom, Labels

\* A step of its own brings a call nearer to its answer.
LEMMA OwnStep ==
    ASSUME TypeOK, NEW c \in Calls, CallStep(c)
    PROVE  StepsFrom(pc'[c]) < StepsFrom(pc[c])
<1> DEFINE Goal == StepsFrom(pc'[c]) < StepsFrom(pc[c])
<1>1. pc \in [Calls -> Labels]
  BY DEF TypeOK
<1>2. CASE Prepare(c) \/ LedgerFails(c)
  BY <1>1, <1>2 DEF Prepare, LedgerFails, Goto, Tell, StepsFrom
<1>3. CASE ReserveNew(c) \/ ReserveKnown(c)
  <2>1. pc[c] = "reserve" /\ pc'[c] \in {"gate", "finish", "done"}
    BY <1>1, <1>3 DEF ReserveNew, ReserveKnown, Goto, Tell, Refuse
  <2> QED
    BY <2>1 DEF StepsFrom
<1>4. CASE TryAcquire(c) \/ SubmitRefused(c) \/ Submit(c)
  BY <1>1, <1>4 DEF TryAcquire, SubmitRefused, Submit, Goto, Refuse, StepsFrom
<1>5. CASE WaitResult(c) \/ WaitTimeout(c) \/ Build(c)
  BY <1>1, <1>5 DEF WaitResult, WaitTimeout, Build, Goto, Refuse, Tell, StepsFrom
<1>6. CASE RecordSuccess(c) \/ RecordRefusal(c) \/ AlreadyClosed(c)
  <2>1. pc[c] \in {"record", "write", "finish"} /\ pc'[c] = "done"
    BY <1>1, <1>6 DEF RecordSuccess, RecordRefusal, AlreadyClosed, Goto, Tell
  <2> QED
    BY <2>1 DEF StepsFrom
<1>7. CASE CheckDeadline(c)
  BY <1>1, <1>7 DEF CheckDeadline, Goto, StepsFrom
<1> QED
  BY <1>2, <1>3, <1>4, <1>5, <1>6, <1>7 DEF CallStep

\* Other steps leave a call where it is, but for its arrival and its death.
LEMMA OthersStep ==
    ASSUME TypeOK, NEW c \in Calls, [Next]_vars, ~CallStep(c)
    PROVE  \/ pc'[c] = pc[c]
           \/ pc[c] = "idle" /\ pc'[c] = "prepare"
           \/ pc[c] \notin {"idle", "done"} /\ pc'[c] = "lost"
<1>1. pc \in [Calls -> Labels]
  BY DEF TypeOK
<1>2. ASSUME NEW d \in Calls, NEW k, NEW fp, NEW q, Arrive(d, k, fp, q)
      PROVE  pc'[c] = pc[c] \/ (pc[c] = "idle" /\ pc'[c] = "prepare")
  BY <1>1, <1>2 DEF Arrive, Goto
<1>3. ASSUME NEW d \in Calls \ {c}, CallStep(d) PROVE pc'[c] = pc[c]
  <2>1. \E l : pc' = [pc EXCEPT ![d] = l]
    BY <1>3 DEF CallStep, Prepare, LedgerFails, ReserveNew, ReserveKnown, TryAcquire,
        SubmitRefused, Submit, WaitResult, WaitTimeout, Build, CheckDeadline,
        RecordSuccess, RecordRefusal, AlreadyClosed, Goto, Tell, Refuse
  <2> QED
    BY <1>1, <2>1
<1>4. CASE Crash
  BY <1>1, <1>4 DEF Crash
<1>5. ASSUME NEW d \in Calls, JobEnd(d) \/ SlotRelease(d) PROVE pc'[c] = pc[c]
  BY <1>5 DEF JobEnd, SlotRelease
<1>6. CASE Tick \/ StepWallClock \/ UNCHANGED vars
  BY <1>6 DEF Tick, StepWallClock, vars, callVars
<1> QED
  BY <1>2, <1>3, <1>4, <1>5, <1>6 DEF Next

\* handle_admitted answers after at most eight steps of its own, whatever the other
\* calls, the analyses and the clocks do: there is no way back, and no second try.
THEOREM RouteStepsRunOut == Spec => [][\A c \in Calls : CountsDown(c)]_vars
<1>1. ASSUME TypeOK, TypeOK', [Next]_vars, NEW c \in Calls PROVE CountsDown(c)
  <2>1. pc[c] \in Labels /\ pc'[c] \in Labels
    BY <1>1 DEF TypeOK
  <2>2. StepsFrom(pc[c]) \in 0 .. 9 /\ StepsFrom(pc'[c]) \in 0 .. 9
    BY <2>1, StepsFromType
  <2>3. StepsLeft(c) = StepsFrom(pc[c]) /\ StepsLeft(c)' = StepsFrom(pc'[c])
    BY DEF StepsLeft, StepsFrom
  <2>4. ASSUME ~CallStep(c) PROVE StepsFrom(pc'[c]) <= StepsFrom(pc[c])
    <3>1. CASE pc'[c] = pc[c]
      BY <3>1, <2>2
    <3>2. CASE pc[c] = "idle" /\ pc'[c] = "prepare"
      BY <3>2 DEF StepsFrom
    <3>3. CASE pc'[c] = "lost"
      <4>1. StepsFrom(pc'[c]) = 0
        BY <3>3 DEF StepsFrom
      <4> QED
        BY <4>1, <2>2
    <3> QED
      BY <1>1, <2>4, <3>1, <3>2, <3>3, OthersStep
  <2>5. CallStep(c) => StepsFrom(pc'[c]) < StepsFrom(pc[c])
    BY <1>1, OwnStep
  <2> QED
    BY <2>2, <2>3, <2>4, <2>5 DEF CountsDown
<1>2. TypeOK /\ TypeOK' /\ [Next]_vars => [\A c \in Calls : CountsDown(c)]_vars
  BY <1>1
<1> QED
  BY RouteTyped, <1>2, PTL DEF Spec
=============================================================================
