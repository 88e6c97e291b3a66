------------------------------ MODULE OneLook ------------------------------
(***************************************************************************)
(* The one look of section 5A: oos/evaluation/runner.py over the durable   *)
(* seal of migration 0009 (persistence/repository.py).                     *)
(*                                                                         *)
(* A holdout may be evaluated once.  Jobs are dispatches of the evaluation *)
(* workflow, each on a commit with an evaluator pin: readiness reports the *)
(* identity of the population, consumption claims the seal, reads the      *)
(* probabilities, captures them and computes, and recovery recomputes from *)
(* the seal.  Jobs may overlap: nothing here relies on the workflow's      *)
(* concurrency group.  A job may be killed anywhere, and a statement whose *)
(* client has gone may still be executed, at once, later or never.         *)
(*                                                                         *)
(* A population is a version: it changes when a row arrives or an outcome  *)
(* is resolved.  The evidence read is the version it was read at.          *)
(***************************************************************************)
EXTENDS Integers, FiniteSets

CONSTANTS
    Jobs,        \* dispatches of the workflow
    Nobody,      \* not a job: the claimant of a seal that does not exist
    Pins,        \* the evaluator pins of the commits dispatched
    NoPin,       \* not a pin
    MaxVersion   \* bound on the population's versions

ASSUME OneLookAssumption ==
    /\ Nobody \notin Jobs
    /\ NoPin \notin Pins
    /\ MaxVersion \in Nat

VARIABLES
    closed,      \* whether T_close has passed
    population,  \* the version of the in-holdout population
    reported,    \* the identities that readiness runs have reported
    seal,        \* the row SINGLETON of section_5a_evaluation_seal
    pc,          \* what each job does next
    pin,         \* its evaluator's pin
    expected,    \* the identity it must find, expected_population_id
    evidence,    \* the rows it holds
    strays,      \* statements whose client has gone
    artifacts,   \* the snapshots uploaded by consumptions
    exposed,     \* history: who was handed probabilities, and which
    results      \* history: the results computed, with their rows and rules

jobVars == <<pc, pin, expected, evidence>>
vars == <<closed, population, reported, seal, jobVars, strays, artifacts, exposed, results>>

Versions == 0..MaxVersion
NoRows == -1
NoSnapshot == [rows |-> NoRows, pin |-> NoPin]
NoSeal == [claimant |-> Nobody, pin |-> NoPin, raw |-> NoRows,
           snapshot |-> NoSnapshot, state |-> "NONE"]

Captured == {"SEALED_RAW_CAPTURED", "SEALED_NO_RESULT", "COMPLETE"}
Statements == {"claim", "read", "capture", "fail", "noresult", "complete"}
Ended == {"refused", "failed", "killed", "done"}

Goto(j, label) == pc' = [pc EXCEPT ![j] = label]

-----------------------------------------------------------------------------
(* The seal.                                                               *)

\* The statement that job j is about to send.
Statement(j) == [op |-> pc[j], job |-> j, pin |-> pin[j], rows |-> evidence[j]]

\* The state an advance asks for.
Target(op) == CASE op = "fail" -> "CAPTURE_FAILED"
                [] op = "noresult" -> "SEALED_NO_RESULT"
                [] op = "complete" -> "COMPLETE"

\* Mutant of Legal: no guard trigger.
Legal_Any(from, to) == TRUE

\* section_5a_seal_guard: the legal transitions.
Legal(from, to) ==
    \/ from = to
    \/ from = "CLAIMED" /\ to \in {"SEALED_RAW_CAPTURED", "CAPTURE_FAILED"}
    \/ from = "SEALED_RAW_CAPTURED" /\ to \in {"COMPLETE", "SEALED_NO_RESULT"}
    \/ from = "SEALED_NO_RESULT" /\ to = "COMPLETE"

\* Mutant of Lands: a claim replaces a look that has failed.
Lands_Reclaims(s) ==
    CASE s.op = "claim" -> seal.state \in {"NONE", "CAPTURE_FAILED"}
      [] s.op = "read" -> seal.state = "CLAIMED" /\ seal.raw = NoRows
      [] s.op = "capture" -> /\ seal.state = "CLAIMED" /\ seal.raw # NoRows
                             /\ seal.snapshot = NoSnapshot /\ seal.pin = s.pin
      [] OTHER -> seal.state # "NONE" /\ Legal(seal.state, Target(s.op))

\* Whether a statement changes the seal: its WHERE clause, ON CONFLICT DO NOTHING,
\* the check under FOR UPDATE, or the trigger.
Lands(s) ==
    CASE s.op = "claim" -> seal.state = "NONE"
      [] s.op = "read" -> seal.state = "CLAIMED" /\ seal.raw = NoRows
      [] s.op = "capture" -> /\ seal.state = "CLAIMED" /\ seal.raw # NoRows
                             /\ seal.snapshot = NoSnapshot /\ seal.pin = s.pin
      [] OTHER -> seal.state # "NONE" /\ Legal(seal.state, Target(s.op))

\* The row once the statement has landed.
Written(s) ==
    CASE s.op = "claim" -> [NoSeal EXCEPT !.claimant = s.job, !.pin = s.pin,
                                          !.state = "CLAIMED"]
      [] s.op = "read" -> [seal EXCEPT !.raw = population]
      [] s.op = "capture" -> [seal EXCEPT !.snapshot = [rows |-> s.rows, pin |-> s.pin],
                                          !.state = "SEALED_RAW_CAPTURED"]
      [] OTHER -> [seal EXCEPT !.state = Target(s.op)]

Execute(s) == seal' = IF Lands(s) THEN Written(s) ELSE seal

-----------------------------------------------------------------------------
OneLookInit ==
    /\ closed = FALSE
    /\ population = 0
    /\ reported = {}
    /\ seal = NoSeal
    /\ pc = [j \in Jobs |-> "new"]
    /\ pin = [j \in Jobs |-> NoPin]
    /\ expected = [j \in Jobs |-> NoRows]
    /\ evidence = [j \in Jobs |-> NoRows]
    /\ strays = {}
    /\ artifacts = {}
    /\ exposed = {}
    /\ results = {}

\* T_close passes.
Close ==
    /\ ~closed
    /\ closed' = TRUE
    /\ UNCHANGED <<population, reported, seal, jobVars, strays, artifacts, exposed, results>>

\* A row of the holdout arrives late, or its outcome is resolved.
Drift ==
    /\ population < MaxVersion
    /\ population' = population + 1
    /\ UNCHANGED <<closed, reported, seal, jobVars, strays, artifacts, exposed, results>>

\* run_readiness: the probability-free identity; repeatable.
Readiness ==
    /\ reported' = reported \cup {population}
    /\ UNCHANGED <<closed, population, seal, jobVars, strays, artifacts, exposed, results>>

\* A consumption is dispatched with an identity that readiness reported.  It reads
\* the seal: an existing one refuses.
Consume(j) ==
    /\ pc[j] = "new"
    /\ closed
    /\ \E p \in Pins, id \in reported :
          pin' = [pin EXCEPT ![j] = p] /\ expected' = [expected EXCEPT ![j] = id]
    /\ Goto(j, IF seal.state = "NONE" THEN "compare" ELSE "refused")
    /\ UNCHANGED <<closed, population, reported, seal, evidence, strays, artifacts, exposed, results>>

\* The population, computed as readiness computes it, before the claim.
Compare(j) ==
    /\ pc[j] = "compare"
    /\ Goto(j, IF population = expected[j] THEN "claim" ELSE "refused")
    /\ UNCHANGED <<closed, population, reported, seal, pin, expected, evidence, strays,
                   artifacts, exposed, results>>

\* The next step of a consumption whose statement is answered.  The probability read
\* that does not land raises, and so opens the repository's circuit.
AfterReply(op, landed) ==
    CASE op = "claim" -> IF landed THEN "read" ELSE "refused"
      [] op = "read" -> IF landed THEN "examine" ELSE "failed"
      [] op = "capture" -> IF landed THEN "compute" ELSE "fail"
      [] OTHER -> "done"

\* The statement is executed and answered.  An answered read hands the probabilities
\* over; a captured snapshot is also written to the artifact directory.
Answered(j) ==
    /\ pc[j] \in Statements
    /\ LET s == Statement(j)
       IN  /\ Execute(s)
           /\ Goto(j, AfterReply(s.op, Lands(s)))
           /\ IF s.op = "read" /\ Lands(s)
              THEN /\ evidence' = [evidence EXCEPT ![j] = population]
                   /\ exposed' = exposed \cup {[job |-> j, rows |-> population]}
              ELSE UNCHANGED <<evidence, exposed>>
           /\ artifacts' = IF s.op = "capture" /\ Lands(s)
                           THEN artifacts \cup {[rows |-> s.rows, pin |-> s.pin]} ELSE artifacts
    /\ UNCHANGED <<closed, population, reported, pin, expected, strays, results>>

\* Nobody listens to the statement any more.  It may have been executed, may be later,
\* or never.
Strays(j) == strays' = strays \cup (IF pc[j] \in Statements THEN {Statement(j)} ELSE {})

\* The statement fails at its client: the request raises, the circuit opens for longer
\* than the job still runs, and so the state of the failure cannot be recorded either.
Unanswered(j) ==
    /\ pc[j] \in Statements
    /\ Strays(j)
    /\ Goto(j, "failed")
    /\ UNCHANGED <<closed, population, reported, seal, pin, expected, evidence, artifacts,
                   exposed, results>>

\* The job is killed or cancelled.
Killed(j) ==
    /\ pc[j] \notin Ended \cup {"new"}
    /\ Strays(j)
    /\ Goto(j, "killed")
    /\ UNCHANGED <<closed, population, reported, seal, pin, expected, evidence, artifacts,
                   exposed, results>>

\* A statement without a client is executed, or rolled back.
StrayEnds(s) ==
    /\ Execute(s) \/ seal' = seal
    /\ strays' = strays \ {s}
    /\ UNCHANGED <<closed, population, reported, jobVars, artifacts, exposed, results>>

\* Mutant of Examine: the population read under the claim is not compared.
Examine_Trusting(j) ==
    /\ pc[j] = "examine"
    /\ Goto(j, "capture")
    /\ UNCHANGED <<closed, population, reported, seal, pin, expected, evidence, strays,
                   artifacts, exposed, results>>

\* The rows read under the claim: a drift, or a snapshot that cannot be built, is a
\* failure; otherwise the snapshot is captured.
Examine(j) ==
    /\ pc[j] = "examine"
    /\ \/ evidence[j] = expected[j] /\ Goto(j, "capture")
       \/ Goto(j, "fail")
    /\ UNCHANGED <<closed, population, reported, seal, pin, expected, evidence, strays,
                   artifacts, exposed, results>>

Result(j) == [rows |-> evidence[j], pin |-> pin[j]]

\* compute_from_snapshot, from the job's own snapshot, and its result file.
Compute(j) ==
    /\ pc[j] = "compute"
    /\ results' = results \cup {Result(j)}
    /\ Goto(j, "complete")
    /\ UNCHANGED <<closed, population, reported, seal, pin, expected, evidence, strays,
                   artifacts, exposed>>

\* The statistics fail: no result, which a recovery may still compute.
ComputeFails(j) ==
    /\ pc[j] = "compute"
    /\ Goto(j, "noresult")
    /\ UNCHANGED <<closed, population, reported, seal, pin, expected, evidence, strays,
                   artifacts, exposed, results>>

-----------------------------------------------------------------------------
(* Recovery.                                                               *)

\* What recompute_from_seal verifies of the seal, under the rules p.
Recoverable(p) ==
    /\ seal.snapshot # NoSnapshot
    /\ seal.snapshot.pin = p /\ seal.pin = p
    /\ seal.raw = seal.snapshot.rows

\* recompute_from_seal reads the seal and verifies it.  What it will advance is
\* decided on the state it read.
Recover(j) ==
    /\ pc[j] = "new"
    /\ \E p \in Pins :
          /\ pin' = [pin EXCEPT ![j] = p]
          /\ IF Recoverable(p)
             THEN /\ evidence' = [evidence EXCEPT ![j] = seal.snapshot.rows]
                  /\ Goto(j, IF seal.state = "COMPLETE" THEN "repeat" ELSE "recompute")
             ELSE Goto(j, "refused") /\ UNCHANGED evidence
    /\ UNCHANGED <<closed, population, reported, seal, expected, strays, artifacts, exposed, results>>

\* The recovered result.
Recompute(j) ==
    /\ pc[j] \in {"recompute", "repeat"}
    /\ results' = results \cup {Result(j)}
    /\ Goto(j, IF pc[j] = "recompute" THEN "complete" ELSE "done")
    /\ UNCHANGED <<closed, population, reported, seal, pin, expected, evidence, strays,
                   artifacts, exposed>>

\* recompute_from_snapshot: an audit of an uploaded artifact, without the database.
Audit(a) ==
    /\ a \in artifacts
    /\ results' = results \cup {a}
    /\ UNCHANGED <<closed, population, reported, seal, jobVars, strays, artifacts, exposed>>

OneLookNext ==
    \/ Close \/ Drift \/ Readiness
    \/ \E j \in Jobs :
          \/ Consume(j) \/ Compare(j) \/ Answered(j) \/ Unanswered(j) \/ Killed(j)
          \/ Examine(j) \/ Compute(j) \/ ComputeFails(j)
          \/ Recover(j) \/ Recompute(j)
    \/ \E s \in strays : StrayEnds(s)
    \/ \E a \in artifacts : Audit(a)

OneLookSpec == OneLookInit /\ [][OneLookNext]_vars

-----------------------------------------------------------------------------
(* Properties.                                                             *)
Places == Statements \cup Ended \cup {"new", "compare", "examine", "compute",
                                      "recompute", "repeat"}
States == Captured \cup {"NONE", "CLAIMED", "CAPTURE_FAILED"}
Snapshots == [rows : Versions, pin : Pins]

\* The shape of the state, and the checks of migration 0009: a claim carries no
\* snapshot, and a captured seal its raw rows and its snapshot.
OneLookTypeOK ==
    /\ population \in Versions /\ reported \subseteq Versions
    /\ pc \in [Jobs -> Places] /\ pin \in [Jobs -> Pins \cup {NoPin}]
    /\ expected \in [Jobs -> Versions \cup {NoRows}]
    /\ evidence \in [Jobs -> Versions \cup {NoRows}]
    /\ seal \in [claimant : Jobs \cup {Nobody}, pin : Pins \cup {NoPin},
                 raw : Versions \cup {NoRows},
                 snapshot : Snapshots \cup {NoSnapshot}, state : States]
    /\ seal.state \in {"NONE", "CLAIMED"} => seal.snapshot = NoSnapshot
    /\ seal.state \in Captured => seal.raw # NoRows /\ seal.snapshot # NoSnapshot

\* The probabilities are handed to one job at most, the seal's claimant, and never
\* before what it was handed is durably recorded, whatever replies are lost and
\* whoever else claims, recovers or is killed (G3.1, capture before exposure).
ExposureIsRecorded ==
    /\ \A x \in exposed : closed /\ x.job = seal.claimant /\ x.rows = seal.raw
    /\ Cardinality(exposed) <= 1

\* There is one result: whoever computes it, the consumption, a recovery or an audit,
\* computes it from the rows the seal recorded before they were exposed, under the
\* rules of the claim, and of a population that readiness had reported.
ResultsAgree ==
    \A r \in results :
        r.rows = seal.raw /\ r.pin = seal.pin /\ r.rows \in reported

\* A look recorded as CAPTURE_FAILED has no result and can never have one, and a seal
\* that is COMPLETE has one.
StateTellsResult ==
    /\ seal.state = "CAPTURE_FAILED" => results = {} /\ seal.snapshot = NoSnapshot
    /\ seal.state = "COMPLETE" => results # {}

\* The seal and the result tell one story, of one look.
ResultIsOne == ResultsAgree /\ StateTellsResult

\* A look that was captured can be recovered under its rules, and stays COMPLETE once
\* it is: a late SEALED_NO_RESULT of the consumption, or a second recovery that read
\* an older state, takes nothing back.
KeepsCapture ==
    seal.state \in Captured =>
        /\ Recoverable(seal.pin) /\ Recoverable(seal.pin)'
        /\ seal'.snapshot = seal.snapshot
        /\ seal.state = "COMPLETE" => seal' = seal
CaptureIsKept == [][KeepsCapture]_vars
=============================================================================
