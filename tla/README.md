# Verification of the UCPE backend

TLA+ models of the parts of `src/src/crypto_probability_engine` whose correctness depends on the order of
things: threads, transactions, lost replies, crashes, clocks. TLC checks each model on a small instance; TLAPS
proves the theorems of the core for every value of its constants.

The service (UCPE) answers analyses of crypto markets. A human route analyses on request and saves the result in
the background. A machine route, `POST /v1/automation/radar-evidence`, lets one consumer program ask for evidence
under quotas, deadlines and an idempotency key, backed by a ledger in PostgreSQL. Beside them run jobs: one resolves
the stored predictions once their horizon has passed, another may look once, and only once, at a holdout. The
numbers an analysis computes are pure functions of market data; what can go wrong between threads, processes and
the database is what is modelled here.

## 1. Inventory

### The automation domain (modelled)

| part | state | operations | interacts with |
|---|---|---|---|
| ledger (`automation/ledger.py`) | table `automation_radar_ledger`, one row per (credential, request id) | `reserve`, `complete`, `complete_success` | called by the service; PostgreSQL advisory lock and row locks |
| quotas, gate (`automation/quota.py`, `config.py`) | a semaphore of one slot; quotas read from the environment per call | `evaluate_quota`, `try_acquire`, `release` | counts come from the ledger's reservation |
| service (`automation/service.py`) | none of its own beyond the executor | `admit`, `handle_admitted` | ledger, gate, registry, analysis thread |
| credentials (`automation/credentials.py`) | table `automation_credential`; a semaphore of reads in flight | `authenticate`, `lookup` | changed by the owner's SQL while calls run |
| route (`api/automation_endpoint.py`) | none | `radar_evidence`, `read_bounded_body` | stamps the arrival, admits, reads the body, handles |

Hard here: each call is a thread; each ledger operation is a transaction whose reply may be lost; the process may
die at any point; the deadline is kept on three clocks (monotonic, wall, database); the analysis may never end and
holds the only slot; a client retries with the same key.

Correct means: a key is claimed once, analysed at most once, settled once and told consistently; quotas and
capacity hold in every rolling window although reservations arrive out of order; a success is let through in time; no
slot, lock or gate is lost; every call is answered.

### The save pipeline of the human route (modelled)

| part | state | operations | interacts with |
|---|---|---|---|
| run store (`persistence/run_store.py`) | the last runs of this process, bounded | `put`, `get` | filled by the analysis, read by the receipt route |
| receipts (`api/save_receipt.py`) | one state per run, bounded, oldest evicted | `open`, `settle`, `state_of`, `unrecorded_state` | opened before the response, settled by a worker, read by `GET /v1/analyze/receipt/{run_id}` |
| pipeline (`api/analysis_service.py`, from `schedule_best_effort_persist` on) | an admission semaphore, the executor's queue, two worker threads | submit, save, confirm, settle | repository, receipts, unknown commits |
| unknown commits (`api/commit_reconciliation.py`) | a bounded list of commits nobody confirmed | `add`, `due`, `apply`; the pure `decide` | any worker whose own save has succeeded reads the database for them |
| REST repository (`persistence/repository.py`) | a circuit breaker: open, cooling, half open with one trial | every request marks it | shared by both workers; the database's one-transaction bundle of migration 0017 |

Hard here: a save whose client has timed out may still commit; both workers reconcile the same unknown commit from
lists that are stale by the time they decide; the queue is full; the circuit cools and lets one trial through; two
bounded records evict at different moments; a restart forgets everything but the database.

Correct means: SAVED is only ever said of what is stored, and is not taken back; NOT_SAVED is confirmed only where
no complete bundle is or will be stored; no permit and no trial is lost; an unknown commit is listed or decided; a
run still shown keeps its receipt; every scheduled save settles.

### The jobs over the database (modelled)

| part | state | operations | interacts with |
|---|---|---|---|
| outcome resolver (`scripts/resolve_outcomes.py`, `resolution/rq_v1.py`, `resolution/status_store.py`) | `prediction_outcomes`; `prediction_resolution_status`, one row per attempted prediction | scan, select, attempt (fetch, build, save, read back), one batch of status writes | other runs, started by hand or on the legacy route; the venues |
| one look (`oos/evaluation/runner.py`, migration 0009) | the row `SINGLETON` of `section_5a_evaluation_seal`; uploaded snapshots | readiness, claim, read and capture, compute, recover, audit | jobs of other commits, overlapping; a population that still changes |

Hard here: runs overlap and are killed anywhere; what a run decides on was scanned long before it writes; replies are
lost and statements of dead clients run later; the probabilities may be seen by one job, once, whatever fails.

Correct means: a status that says RESOLVED is backed by the very outcome; verdicts are final; five attempts are five
spaced attempts; an exposure of the holdout is recorded before it happens and happens once; whoever computes the
result computes the same.

### Shared fetching (modelled)

| part | state | operations | interacts with |
|---|---|---|---|
| HTTP client (`adapters/http_client.py`) | a table of the calls under way; each client's cookies | `get_json`, `_SingleFlight.run` | every analysis thread; the providers |
| derivatives cache (`derivatives_intel/runtime.py`) | entries per provider and symbol, registries per provider, stripe locks | `get_raw_derivatives_bundle` | analysis threads whose symbols share a stripe |

Hard here: a thread is given what another fetched; a cookie changes who may share; exchanges never end or end at the
deadline; entries expire and are evicted while a bundle is built.

Correct means: nobody answers for another's failure or is drawn into another's session; nothing shared is older than
the request allows; nothing live is fetched twice; a bundle is whole and live; no wait is for ever.

### Everything else

`PROJECT.json` lists every component with its status. Not modelled: the numerical pipeline (`quant`, `quant_v2`,
`features`, `score_stack`, gates), which is floating-point and stateless; rendering, parsing and schema
validation; telemetry; the browser page; one-shot operator scripts; migrations other than the ledger's.

## 2. Plan

In order of importance:

1. `RadarLedger` (atomic ledger), its proofs. Done.
2. `RadarRoute` over it, `RadarPromise` above it (the abstract promise to the consumer), their proofs. Done.
3. `RadarLedgerTxn`, the PostgreSQL transactions, shown to implement `RadarLedger`, and its proofs. Done.
4. `RadarAdmission`: credentials, the registry gate, the body, with its proofs. Done.
5. `SaveReceipts` (what a reader is told: the abstract promise) and `SavePipeline` (queue, workers, circuit,
   transaction, unknown commits), which implements it; their proofs. Done.
6. `Resolver`, the batch over the status ledger, with its proofs. Done.
7. `OneLook`, the seal of the out-of-sample evaluation, with its proofs. Done.
8. `SingleFlight`, the HTTP client, with its proofs. Done.
9. `DerivativesCache`, with its proofs. Done.
10. The stateful parts still left: provider fallback and candle history, the GDELT throttle and its cache, the
    login `AttemptLimiter`, the refresh of the calibration report, the pilot's background loop.

Composition: `RadarRoute` EXTENDS `RadarLedger` and uses its operations; `RadarLedgerTxn` EXTENDS it and refines
them; `RadarRoute` refines `RadarPromise` by a refinement mapping; `RadarAdmission` ends where `RadarRoute` starts.
`SavePipeline` EXTENDS `SaveReceipts`, drives its variables and implements its specification. `Resolver`, `OneLook`,
`SingleFlight` and `DerivativesCache` stand alone: they meet the others only in tables and requests that nobody else
writes.

## 3. The modules

### RadarLedger

`rows` is the table, a function from the recorded keys. `Reserve` and `Complete` are the two things that ever
change it; `ReserveKind` is the decision of `reserve` in the code's order (existing row, cap, ceiling, new). A row
keeps its fingerprint, its reception instant, its state and outcome. `granted` is a history field: the counts of
the reservation left room under both quotas. Instants are integers; the deadline and the grace are added to the
reception as the code does. Reservations carry the instant their request was received, stamped before the
credential lookup and the body read, so they reach the ledger out of order; the counts have no upper bound, which
is what makes the window properties true.

Left out: `completed_at_utc` (nothing reads it), `release_id`, response bodies, Retry-After values, the prune of the
in-memory test ledger (`_prune`; never wired in production) and the owner's purge of rows older than 90 days.

### RadarRoute, RadarPromise

One process per call, with the labels of `handle_admitted`: `prepare` (body, parse, deadline), `reserve`, `gate`,
`submit`, `wait`, `build`, `record` and `write` (a success), `finish` (the refusal to be recorded) and `done`. The
analysis thread is `job[c]`: it ends when it likes, or never, and its done-callback gives the slot back in a step of its own. `Crash`
kills the calls, the analyses and the slots; the rows survive. A ledger operation takes effect at one instant or
not at all, and its reply may be lost in both cases (the caller is told `LEDGER_UNAVAILABLE`), with one exception: the
UPDATE of a success looks at the database's clock (`CheckDeadline`) before it may wait for its row, and writes and commits
at any later instant (`RecordSuccess`) without looking again, unless somebody closed the row meanwhile. `mono` is the
monotonic clock and the database's, the wall clock is `mono + skew`, and `skew` may step up and down to `MaxSkew`.

Two answers keep a name of their own where the code reuses a code: `THROTTLED` (429 without a row) and
`UNRECORDED_FAILURE` (the catch-all of `handle_admitted`, which leaves the row pending).

`RadarPromise` is what a consumer may rely on: claim once, analyse at most once, settle once, success only after an
analysis, and be told only what is settled.

### RadarLedgerTxn

The transactions of `PostgresAutomationLedger`, statement by statement, at READ COMMITTED: the advisory lock, `SELECT
... FOR UPDATE`, the counts (each with its own snapshot), the insert, the commit; and the completing UPDATE, which
takes only the row's lock. An UPDATE that had to wait evaluates its WHERE clause again only when the row was changed
(PostgreSQL's EvalPlanQual), not when it was only locked. A client may stop listening at any point; the server rolls
back later, unless the COMMIT was already on its way. What PostgreSQL does is external and marked so in the map.

### RadarAdmission

A call's way to the ledger: switch, configuration, human-session refusal, reception stamp, token, the registry gate
(refuse at once when full), the read, the release, `authenticate` on the record as read and the instant as stamped,
then the body. The owner issues and revokes at any point, and a restart may change the environment.

### SaveReceipts

`held` is the run store and `opened` with `record` is the `OrderedDict` of receipts; both drop their oldest entries
at a limit. `Put`, `Open` and `PollRecord` are the end of `analyze_request`, the opening before the response, and
the receipt route up to its record. `Settle` and `Commit` are left open: a run may commit at any point after it was
scheduled, also after its process is gone, and may be settled FAILED at any point but SAVED only if it is stored.

The page asks for a receipt once it has the response, and asks one question at a time. The route reads the run store
and then the receipt; both lie in memory within a few instructions, with a margin of 400 receipts between the limits,
and are one step here. The database read that follows is a step of its own, because everything may change meanwhile,
the process included. A repository that cannot answer, and a stateless one, are choices.

### SavePipeline

`stage[r]` is where the save of run `r` is: `scheduled` (the response is being sent), `queued`, `aux` and `auxwait`
(the rows before the bundle), `bundle` (the circuit check), `send`, `sent`, `settle`, then `reconcile`, `round`,
`reading`, `decide` (the unknown commits) and `done`. `rpc[r]` is the server's transaction, which commits or rolls back
in steps of its own, also when the client has given up or the process is gone. `circuit`, `permits`, `queue` and
`unknown` are the shared state; `finals` records the decisions that `persistence_reconciled` tells. `receipt[r]` is what
the worker concluded; `record[r]`, inherited, is what the page is shown.

Choices made:

- The route of migration 0017 (one transaction per forecast bundle) is what is modelled; the migration is written
  and, by its header, not yet applied everywhere. The older per-row route, out-of-sample identities included, is not.
- Run ids are fresh, so a bundle never meets a stored one: `decide`'s CONFLICT and INCOMPLETE_BUNDLE are unreachable.
- The rows written before the bundle have one representative (the timeframe result): each is one request with the
  same effect on the circuit.
- The time to live of an unknown commit is a choice (`old`), and so is the end of a cooling period (`Cool`).
- The two reads of `read_core_strict` are one: the run's row is written in the transaction of the others and read
  first.
- A submission that the executor refuses gives its permit back in the same function and is merged with the refusal
  of a full queue.

### Resolver

`status[p]` is the row of `prediction_resolution_status` and `outcome[p]` that of `prediction_outcomes`. A run is `Start`
(preflight, scan, selection), then one attempt per row (`Unresolved`, `Save`, `SaveFails`), then `Flush`, the batch of
`_write_statuses`; `Defer` is the time budget and `Dies` a failed batch or a kill. `seen[r]` is what the scan read, and
`Upserted` the compare-and-set of `STATUS_UPSERT_SQL` against it. The pure functions of `rq_v1` (`Decide`, `Backoff`,
`Quarantines`, `OutageVenues`, `Writes`) are operators. `trouble` is a history of what has gone wrong so far: a lost
save or batch, an overlap, a legacy run; two properties hold only without some of it, and say so.

Choices made:

- A result has the reasons a run can meet after the scan: `skip_ineligible` and `skip_not_due` cannot come of a row the
  scan returned, and a save answered not-OK is a save that failed.
- The rotation by hash among the fresh and among the stuck rows is a choice of any order.
- A statement whose client is lost is executed at once or never: its timeout is far below the hour between two scans.
- Horizons, back-offs and thresholds are scaled to a few hours; `OUTAGE_SHARE` is a half in the instance.

### OneLook

Jobs are dispatches of the evaluation workflow, each on a commit with an evaluator's pin. `seal` is the singleton row
with the guard of migration 0009 (`Legal`, `Lands`); a statement sent (`Answered`, `Unanswered`) may be lost with its
reply, or remain as a stray that is executed later (`StrayEnds`) when its job was killed. `population` is a version that
`Drift` advances; what a job reads is the version it was read at. `exposed` and `results` are histories: who was handed
probabilities, and what was computed of which rows under which rules. `Recover` is `recompute_from_seal`, `Audit` is
`recompute_from_snapshot`.

### SingleFlight

Each caller is a thread in `get_json` with a client, and so a cookie jar, of its own; all ask for one URL, which leaves
the cookie as what tells two requests apart (`Identity`). `calls` is the table; `Lead`, `SendEnds`, `Retire`, `Announce`
are `_lead` in its order (the `finally` that removes the call, then `done.set`), and `Follow`, `Served`, `Unserved`,
`WaitsOut` the follower's wait. `age` is the time of an attempt, saturated at its deadline. A response is a kind of body
(good, an error, malformed, raised), whether it sets a cookie, and the version of the provider's data it was made of.

### DerivativesCache

A call looks up (`Look`), takes the stripe, looks again (`LookAgain`), then fetches each missing provider: registry,
instrument, funding, open interest, as long as its start budget lasts, and puts the bundle (`PutSymbol`). An entry is
known by the instant it was put; `Put` is the purge, the replacement and the eviction of `_put_symbol`. The resolution
of an instrument is the one step outside a `try`, and `Raises` is what the `with` statement then does. The clock and the
lookup behind it are one step. `Only` (the purge and the removals) and `Touched` (`move_to_end`, provider by provider)
are recursive functions, and so can be reasoned about.

## 4. What the runs show

| run | instance | shows |
|---|---|---|
| `ledger` | 1 credential, 5 requests at 3 instants, a day of 2, quotas up to 1 and 2, ceiling 4 | reservations in every order of their instants: no window anywhere exceeds quota or ceiling; recorded rows are final |
| `txn_lock` | 3 callers, 2 credentials, cap 1, clock 0..1 | replies and the cap under three concurrent transactions, locks that never wait in a circle, and the atomic ledger implemented although counts come from different snapshots |
| `route_retry` | 2 calls, 1 key, skew up to 1, time 0..4, deadline 2 | a call and its retry: idempotency, deadlines on shifting clocks up to the check of a success, which may be written late, both refinements |
| `route_live` | 2 calls, 2 keys, 1 slot, time 0..2 | the slot under every ending of an analysis and under restarts; every admitted call is answered |
| `admission` | 2 calls, 1 lookup at a time, 1 credential with 2 secrets, 2 instants | the gate of the registry; who is admitted and who refused, against an owner who issues and revokes |
| `receipts` | 4 runs (1 of another origin), 1 run shown, 2 receipts, 2 requests | eviction, failed reads, restarts: what a reader is told |
| `pipeline` | 3 runs, 2 workers, 2 permits, list of 1, 2 attempts | permits, circuit, receipts, reconciliation, a list without decided runs, refinement of `SaveReceipts` |
| `pipeline_live` | 2 runs (1 of another origin) | every scheduled save settles |
| `resolver` | 3 runs, 3 predictions of two venues (one invalid, one cross-provider), 2 labels, hours 0..2, batches of 2, quarantine from 2 attempts | overlaps, legacy runs, lost saves and batches, kills, an outage: the status ledger is true, final and spaced |
| `one_look` | 3 jobs, 2 pins, 3 versions of the population | races for the claim, kills, late statements, recoveries and audits: one exposure, recorded first, and one result |
| `single_flight` | 2 callers, 2 attempts, deadline 1, 2 versions of the data | late, bad, missing and cookie-setting answers: who shares whose exchange, and no wait for ever |
| `derivatives` | 2 calls, 3 symbols of which two share a stripe, 2 providers, cache of 2, time 0..3 | expiry and eviction while bundles are built: whole and live bundles, one fetch, every call ends |

A property is stated once and at its strongest. The type invariants are proved (section 6) instead of run, except
`CacheTypeOK`, which also says who holds the stripes. `AnalysedOnce` and `ToldIsRecorded` are proved and not run,
because `KeepsPromise` implies them. Four invariants are conjunctions of named parts that fail together:
`NothingIsLeaked`, `ReceiptsAreTrue` (pipeline), `StatusIsTrue` (resolver) and `ResultIsOne` (one look).

Every property of a passing run has a mutant: a definition changed as a plausible bug would change it, kept beside
the original (`<definition>_<bug>`), under which TLC finds the property violated.

Why the bounds are enough. Every bound that limits the program is reached: the ledger's ceiling (4 of 5 requests),
its cap (1 of 2 keys), the slot (1 of 2 calls), the registry gate (1 of 2 calls), the run store (1), the receipts (2),
the permits (2 of 3 saves), the list of unknown commits (1 of 2), the resolver's batch and scan (2 of 3 rows), the
derivatives cache (2 of 6 entries), the attempts of a caller (2). Each contest needs two participants and the
pipeline needs a third save that succeeds after two that are unknown. Time runs past every deadline and grace of the
instance (`MaxTime`, `MaxClock`), past every time to live of the cache and every back-off that leads to a quarantine, and the
wall clock steps both ways (`MaxSkew`). Data that change have as many versions as a reader can tell apart: the seal's
population three (reported, claimed, drifted), the provider's two (`MaxVersion`). Nothing else is bounded: the calls,
callers, runs and jobs each happen once, and a retry is another call on the same key. In `receipts`, `ReceiptLimit` 2 is
the least that satisfies `ReceiptLimit >= RunLimit + MaxRequests - 1`; with 1, requests that overtake one another
between the run store and the receipts leave a shown run without its receipt. The code's 500 receipts, its default
of 100 runs and its thread pool satisfy it by far; a larger `UCPE_RECENT_RUN_LIMIT` might not.

Symmetry is used for model values only, and in no run with a liveness property. Deadlock checking is off in the runs
whose instance comes to an end: all calls answered, all runs saved. `receipts` can always restart and keeps it on.

## 5. Fairness

- `RadarRoute`, `FairSpec`: weak fairness of `Tick` and of each call's own steps. A thread is scheduled, every ledger
  operation ends (statement, lock and connect timeouts are set on each connection), and time passes. Nothing makes an
  analysis end, which is why the wait has a timeout and why `EveryCallAnswered` is worth stating.
- `SavePipeline`, `PipelineLive`: weak fairness of the background task's submission and of each worker's steps. Every
  phase of the HTTP client's requests has a timeout, so a request ends although the server's transaction may not.
  The circuit need never cool and the process may end at any point.
- `SingleFlight`, `FairSpec`: weak fairness of each thread's own steps and of time. No exchange has to end: httpx bounds
  each phase of a request, not the whole of it, and that is why a follower's wait has a deadline.
- `DerivativesCache`, `FairSpec`: weak fairness of each call's steps, the ends of its requests among them, which
  `get_json` bounds by its attempts and their deadlines. A stripe is asked for once by each call, so weak fairness of
  taking it is enough, and no order among the waiting is assumed.

`RadarLedgerTxn` states no liveness: that no transactions wait for each other in a circle is the invariant `WaitsEnd`,
which needs no timeout to fire.

## 6. What is proved

TLAPS checks every theorem, for all values of the constants that satisfy the named assumptions: `LedgerAssumption`,
`TxnAssumption`, `RouteAssumption`, `AdmissionAssumption`, `ReceiptsAssumption`, `PipelineAssumption`,
`ResolverAssumption`, `OneLookAssumption`, `FlightAssumption`, `MarkAssumption`, `CacheAssumption` (types, positive bounds,
and marks that are not values; TLC evaluates each). Two theorems assume `Margin` besides, which the receipts below explain.

**The ledger** (`RadarLedgerProofs`). `LedgerTyped`; `LedgerRowCap`; `LedgerDailyCeiling` and `LedgerQuota`: the windows
hold wherever they are placed and in whatever order the reservations arrive. The argument: the last reservation into
a window counted every row received after the start of its own window, with no upper bound, so it saw all the rows
of any window that contains it. `QuotaHolds` needs the history field `granted`, because a completion may turn a
counting row into a refusal that does not count. `LedgerFinal` is an action property.

**The transactions** (`RadarLedgerTxnProofs`). The inductive invariant is `TxnInv`. `Locking`: the
advisory lock belongs to the one caller past `pg_advisory_xact_lock`, a row's lock to the completion that has written
it. `Counts`: what a reservation has read is still good when it inserts, because only the holder of the advisory lock
inserts and a completion beside it only takes away from the counts. `Owning`: who may complete a key has a row, and who
has written it holds a pending one. `Telling`: who was told an outcome has a row. From it `TxnImplementsLedger`
(each commit is a step of the atomic ledger, every other statement a stutter), by composition with the ledger's own
theorems `TxnRowCap` and `TxnQuota`, then `TxnRepliesAreTrue` and `TxnWaitsEnd`.

**The route** (`RadarRouteProofs`). The inductive invariant is `TypeOK`, `Local` (what a call's label says of its analysis
and of its refusal), `SlotsAddUp`, `Owners` (a call past its reservation owns the only row of its key; this is what
makes `AnalysedOnce` inductive) and `ToldIsRecorded`. From it: `RouteTyped`, `RouteSlots`, `RouteAnalysedOnce`,
`RouteTold`, and `RouteImplementsLedger`, the refinement of the atomic ledger.

**Deadlines** (`RadarRouteProofs`, its second part). A second invariant adds the stamps taken at arrival, the deadline kept from
`prepare` on, the reception recorded in a call's own row, and that a key is closed by a repeat only late.
`RouteSuccessOnTime` bounds the instant at which a success is let through by the budget, less the commit's margin, plus
the skew of the clocks, and says that nothing else makes a row SUCCEEDED. It does not bound the write and the commit that
follow the check: only the timeouts of the recording do (§7). `RouteClosedOnlyWhenSpent` needs `AbandonGrace >=
MaxSkew`, stated in the property.

**The promise** (`RadarRouteProofs`). `RouteKeepsPromise`: each step of the route is a step of `RadarPromise` or a
stutter, under the mapping of `RadarRoute`.

`RouteSuccessHasEvidence` rests on evidence, once found, staying evidence of its key, also when the process dies.

**The admission** (`RadarAdmissionProofs`). The registry only grows, and a record in it is changed only by being revoked
(`Grows`); so what a call has read of it, at its arrival or at its lookup, still tells of the registry as it is (`Kept`),
and the later reading knows at least as much as the earlier (`Learnt`). From it `AdmissionGenuine` and `AdmissionRefusal`,
for any interleaving with the owner; `AdmissionGate` counts the reads in flight.

**The receipts** (`SavePipelineProofs`, part one). `ReceiptsTyped`, and `ReceiptsToldSaved`, whose induction needs that a
receipt of the process that says SAVED is of a stored run. `ReceiptsShown` is about the order of two lists of different
lengths. Between the opening of a run's receipt and its eviction lie `ReceiptLimit` openings; each is of a run younger in
the run store, of which there are fewer than `RunLimit` while the run is shown, or of a request it overtook (`Late`), of
which there are fewer than `MaxRequests`. Hence the assumption `Margin`, `ReceiptLimit >= RunLimit + MaxRequests - 1`.
`ReceiptsSavedStands` needs it: a receipt read from the database is then of a run no longer shown, so an unreadable
database is answered NOT_FOUND and never FAILED.

**The pipeline** (`SavePipelineProofs`, part two). The inductive invariant joins that of the receipts, the types, what a save's
stage says of its transaction and its receipt (`Progress`, `Truthful`), what a strict read has proved (`Reading`), the
queue, the list of unknown commits and the permits. From it `PipelineLeaksNothing`;
`PipelineTellsTruth`, which is about the receipts (SAVED and NOT_SAVED are both true) and, of what reconciliation tells,
only that SAVED follows a commit; the refinement of `SaveReceipts` (`PipelineImplements`) and, by composition with it,
`PipelineToldSaved` and `PipelineSavedStands`.
`PipelineListIsExact` adds `ListInv`: whoever is listed has not been decided in this process, and what a round holds of the list is of saves that have ended,
so a decision told twice by two workers still removes one entry and brings none back.

**The resolver** (`JobsProofs`, part one). The argument of `ResolverSpaced` and `ResolverFinal` is that the count of attempts is
a version of the row: it grows with every write, so a write whose compare-and-set succeeds was decided on the row as
it is (`SeenIsVersion`: what a run has seen, at the count the row still has, is the row). `ResolverStatusIsTrue` joins
three. `ResolverTruth` needs that what a run has tried and found resolved is stored (`outcome` never changes once
written). `ResolverQuarantine` and `ResolverLeavesRetry` are about runs that do not overlap; their strengthenings,
`Exclusive` and `Clean`, say that one run is active, that its view is the table, and what its attempts have left in it.

**The one look** (`JobsProofs`, part two). The invariant `LookInv` says what each job's label tells of the seal, that a stray statement is
harmless to a seal past its state, and that evidence in hand is what the seal recorded. From it `OneLookExposure`,
`OneLookResultIsOne` (`OneLookResults` and `OneLookState` together) and the action property `OneLookCapture`, for any
number of jobs and pins.

**The single flight** (`SingleFlightProofs`). `Table` (the calls under way are exactly the leaders'), `Frame` (what a
thread's label says of its own exchange and request) and `Waiting` (what a follower may find) are inductive together.
The four invariants of the run follow, for any number of callers and attempts.

**The derivatives cache** (`DerivativesCacheProofs`). The cache is a sequence, and what the filter and the moves do to it
is shown by induction on its length: the library's induction theorems are about operators, so a lemma says instead
that the numbers at which a claim fails have a least one (`Least`), and there is none. `OnlyKeeps`, `MovedKeeps` and
`TouchedKeeps` say what a lookup and a put leave of the entries. The inductive invariant is `CInv`: a key has one entry
(`CacheIsADictionary`, which makes the sequence the dictionary of the code); what a call has found was live when it
looked, and what it has not found is still to be fetched (`Builds`); what it still has to fetch is absent or has expired,
because whoever else could put it waits for the stripe (`Unfetched`). The calls under a stripe are one at most, which is the last
part of `CacheTypeOK`. From it `CacheTyped`, `CacheBundle` and the action property `CacheFetchesOnce`.

**Steps run out.** Four theorems are the part of the liveness properties that is a matter of single steps. Each names a
number that every step of a call's own lowers and that no step of anybody else raises, so that a call has finitely many steps
before it, however it is interleaved: `RouteStepsRunOut` (the labels of `handle_admitted`, in one direction),
`PipelineStepsRunOut` (the stages of a save, then three steps for each entry of the copy of the list it took),
`FlightStepsRunOut` (eight for each attempt left) and `CacheStepsRunOut` (seven for each provider left). That a call
does take its next step, by fairness, and is never left without one, is not in them.

**Only model-checked.** The liveness properties themselves (`EveryCallAnswered`, `EverySaveSettles`, `FollowersMoveOn`,
`EveryCallEnds`): this prover reaches neither fairness nor ENABLED. Every other property of a run is stated by a theorem.

## 7. Where the code and its text disagree

Met while modelling, each visible in the model named; no property above states what the text claims.

- Ledger (`RadarLedgerTxn`, `UpdateAfterWait`; `RadarRoute`, `RecordSuccess`). `ledger.py:343` says that the success's UPDATE is "applied only while the
  database clock is still within the deadline". It checks the clock before it may wait for a row lock; a repeat's
  `SELECT ... FOR UPDATE` only locks the row, so PostgreSQL does not evaluate the clause again, and the success is
  written late. It takes a repeat whose transaction spans the deadline. `SuccessOnTime` is about the check and leaves the
  write out.
- Reconciliation (`SavePipeline`). `commit_reconciliation.py:105` says NOT_SAVED is for when "the read proves the
  transaction did not commit". A transaction whose client has timed out may commit after that read. No property
  constrains what is reconciled as NOT_SAVED.
- Reconciliation (`SavePipeline`, `Reason`). `analysis_service.py:1382-1384` promises SAVED only when all of the core, "the
  prediction and every snapshot it requires", is stored. `decide` looks at the run and its predictions, so a bundle
  sent without a snapshot, whose reply is lost, is reconciled SAVED; with its reply it is NOT_SAVED. The receipts a
  person sees are not concerned: no reconciliation changes a receipt. `ReconciledIsCommitted` asks for the commit only.
- Resolver. "a batch that raises writes nothing" (`resolve_outcomes.py:239`, `346`) is not so when only the reply of its
  commit is lost. "A RETRYABLE row that resolves becomes RESOLVED" (`rq_v1.py:11`) is not so after a crash or a failed
  batch: the scan no longer returns a row with an outcome, and the status stays RETRYABLE, which is why
  `ResolvedLeavesRetry` is about runs without trouble. "neither group can starve the other" (`resolve_outcomes.py:78`)
  holds only while the stuck rows that are due fit in the scan.
- One look. The pre-registration (`docs/SECTION_5A_EVALUATION_PREREGISTRATION.md:467`) says that a failure after the claim
  leaves the look "durably recorded as spent (CAPTURE_FAILED)". A failure that opens the repository's circuit refuses
  the very statement that would record it (`repository.py:1286`, `runner.py:672`), and the seal stays CLAIMED: spent
  all the same, but without that record. In the model `fail` may simply not be executed.
- Single flight. "What a follower gives up is time, never an outcome" (`http_client.py:26`). A follower served at the edge
  of its deadline finds it exceeded once it has parsed its copy, and ends `timed_out` on its last attempt without a
  request of its own.
- Derivatives. "a cold path may complete near twelve seconds" (`runtime.py:3`) adds up one request begun before the start
  deadline. A follower of a single flight waits for a deadline and then sends its own request with a fresh one.

## 8. What is not modelled

The numbers of an analysis: no state, no order, and arithmetic outside these tools. PostgreSQL beyond the statements
the code sends. The older write routes of the repository and its readers. Security of tokens and digests: a secret is
a model value, equal or not. HTTP rendering, schema validation and telemetry. Of the HTTP client: its pool of
connections, the allow-list of hosts and candle history. Provider fallback (`provider_selection.py`) chooses among answers
by pure rules; its one piece of state is a dictionary of snapshots with a time to live that threads read and write
without a lock, where a race costs a second fetch, or leaves the older of two snapshots until its own, earlier expiry. Of the derivatives runtime: the cadence guard, a
pure function of a health report, and the provenance records of a collector that runs alone. Of the evaluation: its statistics and the screening of pairs before the claim. The parts that item 10
of the plan names have state worth modelling; each is smaller than what is modelled here.

The operator scripts (migrations, rehearsals, release) are the larger half of the repository by lines. They are
sequences of statements and assertions run once, by hand, against a database that nobody else uses meanwhile: their
correctness is that of each statement, and a model of them would only repeat the list.
