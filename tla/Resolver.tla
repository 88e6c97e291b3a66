------------------------------ MODULE Resolver ------------------------------
(***************************************************************************)
(* The outcome resolver: scripts/resolve_outcomes.py with the retry and    *)
(* quarantine policy rq-v1 (resolution/rq_v1.py) and the status store of   *)
(* migration 0012 (resolution/status_store.py).                            *)
(*                                                                         *)
(* A run scans the due predictions, attempts a selection of them one by    *)
(* one (fetch, build, save the outcome, read it back) and then writes what *)
(* it learned about them in one batch, each row under a compare-and-set.   *)
(* A run may be killed anywhere; two runs may overlap, as the hourly job's *)
(* concurrency group does not hold back a run started by hand; and a run   *)
(* whose preflight fails takes the legacy route, which knows no status.    *)
(*                                                                         *)
(* Instants are hours.  A statement ends within its timeout, long before   *)
(* another run: what a run's lost request does it does at once.            *)
(***************************************************************************)
EXTENDS Integers, Sequences, FiniteSets, Functions

CONSTANTS
    Predictions,     \* prediction ids, numbered in the query's order
    Runs,            \* runs of the script
    HorizonOf,       \* HorizonOf[p]: horizon_end_utc
    VenueOf,         \* VenueOf[p]: the resolution venue, or NoVenue
    InvalidTargets,  \* rows whose stamp or window is invalid
    CrossProvider,   \* stamped CROSS_PROVIDER rows: only Route C scans them
    Labels,          \* what the venue's candles may make of a prediction
    FetchErrors,     \* the reasons a fetch may end with
    Limit, ScanLimit, StuckFloor, StuckDivisor, FreshWindow,
    QuarantineMin, AfterHorizon, AfterFirst, BackoffCap, OutageMin,
    ShareOf, ShareIn, \* OUTAGE_SHARE: ShareOf of ShareIn
    MaxTime          \* bound on the clock

AfterHorizonReasons == {"skip_terminal_bar_missing", "error_candle_invalid"}
AfterFirstReasons == {"error_provider_rejected"}
MarketReasons == AfterHorizonReasons \cup AfterFirstReasons
                    \cup {"error_provider_unavailable"}
AtOnceReasons == {"skip_invalid_target"}
SaveErrorReasons == {"error_save_exception"}
NoWriteReasons == {"error_outcome_conflict"}
Resolved == "resolved"
NoLabel == "NO_LABEL"
NoVenue == "NO_VENUE"
Results == MarketReasons \cup AtOnceReasons \cup SaveErrorReasons
                \cup NoWriteReasons \cup {"error_other", Resolved}

ASSUME ResolverAssumption ==
    /\ Predictions \subseteq Nat /\ IsFiniteSet(Predictions)
    /\ HorizonOf \in [Predictions -> Nat]
    /\ NoLabel \notin Labels
    /\ FetchErrors \subseteq MarketReasons \cup {"error_other"}
    /\ Limit \in Nat /\ ScanLimit \in Nat /\ StuckFloor \in Nat
    /\ StuckDivisor \in Nat \ {0} /\ FreshWindow \in Nat
    /\ QuarantineMin \in Nat /\ AfterHorizon \in Nat /\ AfterFirst \in Nat
    /\ BackoffCap \in Nat \ {0} /\ OutageMin \in Nat /\ ShareOf \in Nat /\ ShareIn \in Nat
    /\ MaxTime \in Nat

VARIABLES
    clock,    \* the hour
    outcome,  \* public.prediction_outcomes: the label stored, or NoLabel
    status,   \* public.prediction_resolution_status, or NoStatus
    phase,    \* phase[r]: "idle", "trying" or "done"
    route,    \* route[r]: "c" or "legacy"
    now,      \* now[r]: the instant the run took at its start
    queue,    \* queue[r]: the selected rows not yet attempted
    seen,     \* seen[r]: the statuses its scan has read
    tried,    \* tried[r]: the rows attempted, with what came of them
    trouble   \* history: what has gone wrong so far, for the properties

resolverVars == <<clock, outcome, status, phase, route, now, queue, seen, tried, trouble>>
runVars == <<phase, route, now, seen>>

NoStatus == [state |-> "NONE"]
Untried == [result |-> "UNTRIED"]
NoTime == -1
Lesser(a, b) == IF a <= b THEN a ELSE b
Greater(a, b) == IF a >= b THEN a ELSE b

StatusRows == [state : {"RETRYABLE", "QUARANTINED", "RESOLVED"}, attempts : Nat \ {0},
               first : Nat, last : Nat, reason : Results, next : Nat \cup {NoTime},
               label : Labels \cup {NoLabel}]

Active(r) == phase[r] = "trying"

-----------------------------------------------------------------------------
(* The scan and the selection.                                             *)

Eligible(p, at) ==
    \/ status[p] = NoStatus
    \/ status[p].state = "RETRYABLE" /\ status[p].next <= at

Due(via, at) ==
    {p \in Predictions :
        /\ outcome[p] = NoLabel
        /\ HorizonOf[p] < at
        /\ IF via = "c" THEN Eligible(p, at) ELSE p \notin CrossProvider}

Before(p, q) ==
    HorizonOf[p] < HorizonOf[q] \/ (HorizonOf[p] = HorizonOf[q] /\ p < q)

\* ORDER BY horizon_end_utc, prediction_id LIMIT
Scanned(via, at) ==
    {p \in Due(via, at) : Cardinality({q \in Due(via, at) : Before(q, p)}) < ScanLimit}

\* How many of f fresh and s stuck rows are taken: the stuck ones have a quota,
\* and either group takes what the other leaves.
StuckQuota == Lesser(Limit, Greater(StuckFloor, Limit \div StuckDivisor))
TakeFresh(f, s) == Lesser(f, Limit - Lesser(s, StuckQuota))
TakeStuck(f, s) == Lesser(s, Limit - TakeFresh(f, s))

\* The selections a run may draw: the oldest fresh rows in query order, then
\* stuck rows in the order of a hash that changes every hour.
Selections(scan, at) ==
    LET fresh == {p \in scan : HorizonOf[p] >= at - FreshWindow}
        stuck == scan \ fresh
        f == TakeFresh(Cardinality(fresh), Cardinality(stuck))
        s == TakeStuck(Cardinality(fresh), Cardinality(stuck))
    IN  {drawn \in Injection(1..(f + s), scan) :
            /\ \A i \in 1..f : /\ drawn[i] \in fresh
                              /\ \A p \in fresh : Before(p, drawn[i]) =>
                                    \E j \in 1..(i - 1) : drawn[j] = p
            /\ \A i \in (f + 1)..(f + s) : drawn[i] \in stuck}

-----------------------------------------------------------------------------
(* The policy rq-v1.                                                       *)

Backoff(n) == Lesser(BackoffCap, <<1, 2, 4, 8, 16, 32>>[Lesser(n, 6)])

Quarantines(p, reason, n, first, at) ==
    \/ reason \in AtOnceReasons
    \/ /\ reason \in AfterHorizonReasons
       /\ n >= QuarantineMin /\ at >= HorizonOf[p] + AfterHorizon
    \/ /\ reason \in AfterFirstReasons
       /\ n >= QuarantineMin /\ at >= first + AfterFirst

\* The write a resolved row earns: none on its first attempt.  `label` is a
\* history field: what the run had built.
DecideResolved(r, p) ==
    IF seen[r][p] = NoStatus THEN NoStatus
    ELSE [seen[r][p] EXCEPT !.state = "RESOLVED", !.attempts = @ + 1, !.last = now[r],
                            !.next = NoTime, !.label = tried[r][p].label]

\* The write an unresolved row earns.
DecideUnresolved(r, p) ==
    LET reason == tried[r][p].result
        known == seen[r][p] # NoStatus
        n == IF known THEN seen[r][p].attempts + 1 ELSE 1
        first == IF known THEN seen[r][p].first ELSE now[r]
        quarantine == Quarantines(p, reason, n, first, now[r])
    IN  [state |-> IF quarantine THEN "QUARANTINED" ELSE "RETRYABLE",
         attempts |-> n, first |-> first, last |-> now[r], reason |-> reason,
         next |-> IF quarantine THEN NoTime
                  ELSE IF reason \in SaveErrorReasons THEN now[r]
                  ELSE now[r] + Backoff(n),
         label |-> NoLabel]

Decide(r, p) ==
    IF tried[r][p] = Untried \/ tried[r][p].result \in NoWriteReasons THEN NoStatus
    ELSE IF tried[r][p].result = Resolved THEN DecideResolved(r, p)
    ELSE DecideUnresolved(r, p)

\* A venue where one market reason accounts for OUTAGE_SHARE of the rows tried.
TriedAt(r, v) == {p \in Predictions : tried[r][p] # Untried /\ VenueOf[p] = v}
OutageVenues(r) ==
    {v \in Range(VenueOf) \ {NoVenue} :
        /\ Cardinality(TriedAt(r, v)) >= OutageMin
        /\ \E reason \in MarketReasons :
              LET share == {p \in TriedAt(r, v) : tried[r][p].result = reason}
              IN  share # {} /\ ShareIn * Cardinality(share) >= ShareOf * Cardinality(TriedAt(r, v))}

Kept(r, p) == Decide(r, p).state = "RESOLVED" \/ VenueOf[p] \notin OutageVenues(r)

Writes(r) == {p \in Predictions : Decide(r, p) # NoStatus /\ Kept(r, p)}

\* Mutants of Accepts: the upsert without its WHERE, and without the count in it.
Accepts_Anything(p, write) == TRUE
Accepts_AnyCount(p, write) ==
    status[p] = NoStatus \/ status[p].state = "RETRYABLE"

\* The upsert's WHERE: a row that is still RETRYABLE, with the count that was read.
Accepts(p, write) ==
    \/ status[p] = NoStatus
    \/ status[p].state = "RETRYABLE" /\ status[p].attempts = write.attempts - 1

\* The row after the upsert, which never changes the first attempt.
Upserted(p, write) ==
    IF ~Accepts(p, write) THEN status[p]
    ELSE IF status[p] = NoStatus THEN write
    ELSE [write EXCEPT !.first = status[p].first]

-----------------------------------------------------------------------------
(* A run.                                                                  *)

ResolverInit ==
    /\ clock = 0
    /\ outcome = [p \in Predictions |-> NoLabel]
    /\ status = [p \in Predictions |-> NoStatus]
    /\ phase = [r \in Runs |-> "idle"]
    /\ route = [r \in Runs |-> "c"]
    /\ now = [r \in Runs |-> 0]
    /\ queue = [r \in Runs |-> <<>>]
    /\ seen = [r \in Runs |-> [p \in Predictions |-> NoStatus]]
    /\ tried = [r \in Runs |-> [p \in Predictions |-> Untried]]
    /\ trouble = {}

\* The start of a run: the preflight chooses the route, the scan the rows.
Start(r, via) ==
    /\ phase[r] = "idle"
    /\ phase' = [phase EXCEPT ![r] = "trying"]
    /\ route' = [route EXCEPT ![r] = via]
    /\ now' = [now EXCEPT ![r] = clock]
    /\ \E chosen \in Selections(Scanned(via, clock), clock) :
          queue' = [queue EXCEPT ![r] = chosen]
    /\ seen' = [seen EXCEPT ![r] =
            [p \in Predictions |-> IF via = "c" /\ p \in Scanned(via, clock)
                                   THEN status[p] ELSE NoStatus]]
    /\ trouble' = trouble \cup (IF via = "c" THEN {} ELSE {"legacy"})
                          \cup (IF \E q \in Runs : Active(q) THEN {"overlap"} ELSE {})
    /\ UNCHANGED <<clock, outcome, status, tried>>

\* The attempt on the next row ends with this result.
Attempted(r, result, label) ==
    /\ tried' = [tried EXCEPT ![r][Head(queue[r])] = [result |-> result, label |-> label]]
    /\ queue' = [queue EXCEPT ![r] = Tail(@)]
    /\ UNCHANGED <<clock, status, runVars>>

\* No outcome was built: the row is refused, or its candles were not to be had.
Unresolved(r) ==
    /\ Active(r) /\ queue[r] # <<>>
    /\ \E reason \in IF Head(queue[r]) \in InvalidTargets THEN AtOnceReasons ELSE FetchErrors :
          Attempted(r, reason, NoLabel)
    /\ UNCHANGED <<outcome, trouble>>

\* ON CONFLICT DO NOTHING: an outcome is written once.
Insert(p, label) == [outcome EXCEPT ![p] = IF @ = NoLabel THEN label ELSE @]

\* Mutant of Confirmed: a save that returns OK is a resolved row, as on the legacy route.
Confirmed_Unread(r, p, label) == TRUE

\* The readback finds the outcome that was built.
Confirmed(r, p, label) == route[r] = "legacy" \/ outcome'[p] = label

\* The outcome is built and saved, and the save is answered.
Save(r) ==
    /\ Active(r) /\ queue[r] # <<>>
    /\ LET p == Head(queue[r])
       IN  /\ p \notin InvalidTargets
           /\ \E label \in Labels :
                /\ outcome' = Insert(p, label)
                /\ Attempted(r, IF Confirmed(r, p, label) THEN Resolved
                                ELSE "error_outcome_conflict", label)
    /\ UNCHANGED trouble

\* The save or its readback fails: the outcome may be stored all the same.
SaveFails(r) ==
    /\ Active(r) /\ queue[r] # <<>>
    /\ LET p == Head(queue[r])
       IN  /\ p \notin InvalidTargets
           /\ \E label \in Labels :
                \/ outcome' = outcome /\ Attempted(r, "error_save_exception", NoLabel)
                \/ /\ outcome' = Insert(p, label)
                   /\ Attempted(r, "error_save_exception", NoLabel)
                \/ /\ route[r] = "c"
                   /\ outcome' = Insert(p, label)
                   /\ Attempted(r, "error_outcome_conflict", NoLabel)
    /\ trouble' = IF outcome' = outcome THEN trouble ELSE trouble \cup {"loss"}

\* The time budget is spent: the rows left are deferred.
Defer(r) ==
    /\ Active(r) /\ queue[r] # <<>>
    /\ queue' = [queue EXCEPT ![r] = <<>>]
    /\ UNCHANGED <<clock, outcome, status, runVars, tried, trouble>>

\* The run is over, and what it knew is gone.
Ends(r) ==
    /\ phase' = [phase EXCEPT ![r] = "done"]
    /\ queue' = [queue EXCEPT ![r] = <<>>]
    /\ seen' = [seen EXCEPT ![r] = [p \in Predictions |-> NoStatus]]
    /\ tried' = [tried EXCEPT ![r] = [p \in Predictions |-> Untried]]
    /\ route' = [route EXCEPT ![r] = "c"]
    /\ now' = [now EXCEPT ![r] = 0]
    /\ UNCHANGED <<clock, outcome>>

\* The batch of status writes, one transaction; its reply changes nothing here.
Flush(r) ==
    /\ Active(r) /\ queue[r] = <<>>
    /\ status' = IF route[r] = "legacy" THEN status
                 ELSE [p \in Predictions |-> IF p \in Writes(r) THEN Upserted(p, Decide(r, p))
                                                                ELSE status[p]]
    /\ Ends(r)
    /\ UNCHANGED trouble

\* The batch fails, or the run is killed: by its job's timeout, or before its end.
Dies(r) ==
    /\ Active(r)
    /\ Ends(r)
    /\ trouble' = trouble \cup {"loss"}
    /\ UNCHANGED status

Tick ==
    /\ clock < MaxTime
    /\ clock' = clock + 1
    /\ UNCHANGED <<outcome, status, runVars, queue, tried, trouble>>

ResolverNext ==
    \/ Tick
    \/ \E r \in Runs :
          \/ Start(r, "c") \/ Start(r, "legacy")
          \/ Unresolved(r) \/ Save(r) \/ SaveFails(r) \/ Defer(r)
          \/ Flush(r) \/ Dies(r)

ResolverSpec == ResolverInit /\ [][ResolverNext]_resolverVars

-----------------------------------------------------------------------------
(* Properties.                                                             *)

\* The two tables keep their shape, and a status row that of migration 0012's
\* checks: its attempts in order, an instant to retry at exactly when RETRYABLE.
ResolverTypeOK ==
    /\ clock \in 0..MaxTime
    /\ outcome \in [Predictions -> Labels \cup {NoLabel}]
    /\ \A p \in Predictions : status[p] # NoStatus =>
          /\ status[p] \in StatusRows
          /\ status[p].first <= status[p].last
          /\ (status[p].next # NoTime) <=> (status[p].state = "RETRYABLE")
    /\ \A r \in Runs : Len(queue[r]) <= Limit /\ now[r] <= clock

\* A status says RESOLVED only of the very outcome the database holds: whatever
\* runs overlap, die or lose replies, a row that another run resolved differently
\* is a conflict and not a resolution (_is_outcome after the save).
ResolvedIsStored ==
    \A p \in Predictions : status[p].state = "RESOLVED" =>
        outcome[p] # NoLabel /\ status[p].label = outcome[p]

\* A quarantined row is one that nobody has resolved, as long as no two runs
\* overlap and none takes the legacy route: a failed save whose outcome is stored
\* must never count towards a quarantine.
QuarantinedIsUnresolved ==
    trouble \subseteq {"loss"} =>
        \A p \in Predictions : status[p].state = "QUARANTINED" => outcome[p] = NoLabel

\* While nothing has gone wrong, and between runs, no resolved row is left waiting
\* for a retry: rq-v1's "A RETRYABLE row that resolves becomes RESOLVED", also when
\* the outage guard suppresses the other rows of its venue.
ResolvedLeavesRetry ==
    trouble = {} /\ (\A r \in Runs : ~Active(r)) =>
        \A p \in Predictions : status[p].state = "RETRYABLE" => outcome[p] = NoLabel

\* The status ledger never contradicts the outcomes, up to the lost batches and the
\* overlaps that it cannot know of.
StatusIsTrue == ResolvedIsStored /\ QuarantinedIsUnresolved /\ ResolvedLeavesRetry

\* RESOLVED and QUARANTINED are final and outcomes are written once, under any
\* overlap: the compare-and-set refuses what an older scan concluded.
VerdictsAreFinal ==
    [][\A p \in Predictions :
          /\ status[p].state \in {"RESOLVED", "QUARANTINED"} => status'[p] = status[p]
          /\ outcome[p] # NoLabel => outcome'[p] = outcome[p]]_resolverVars

\* A row is counted as attempted again only by a run that started when the row's
\* back-off was over, one attempt at a time: overlapping runs neither count twice
\* nor shorten a wait, so a quarantine's five attempts are five separate ones.
AttemptsAreSpaced ==
    [][\A p \in Predictions :
          status[p].state = "RETRYABLE" /\ status'[p] # status[p] =>
              /\ status'[p].attempts = status[p].attempts + 1
              /\ status'[p].first = status[p].first
              /\ status'[p].last >= status[p].next]_resolverVars

=============================================================================
