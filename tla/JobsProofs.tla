---------------------------- MODULE JobsProofs ----------------------------
(***************************************************************************)
(* Theorems of the jobs over the database, which share no state: first of  *)
(* Resolver, for every set of predictions and runs and every value of the  *)
(* policy's thresholds; then of OneLook, for any number of jobs, pins and  *)
(* changes of the population.                                              *)
(***************************************************************************)
EXTENDS Resolver, OneLook, FiniteSetTheorems, SequenceTheorems, TLAPS

-----------------------------------------------------------------------------
(* The selection.                                                          *)

\* Whatever the two groups' sizes, the selection is as full as it can be, and
\* the stuck rows get their quota when there are enough of them.
LEMMA SelectionFills ==
    ASSUME NEW f \in Nat, NEW s \in Nat, ResolverAssumption
    PROVE  /\ TakeFresh(f, s) \in 0..f /\ TakeStuck(f, s) \in 0..s
           /\ TakeFresh(f, s) + TakeStuck(f, s) = Lesser(f + s, Limit)
           /\ TakeStuck(f, s) >= Lesser(s, StuckQuota)
<1>1. StuckQuota \in Nat /\ StuckQuota <= Limit
  BY DEF StuckQuota, Lesser, Greater, ResolverAssumption
<1> QED
  BY <1>1, SMTT(30) DEF TakeFresh, TakeStuck, Lesser, ResolverAssumption

\* A selection is a sequence of scanned rows, each once, within the limit.
LEMMA SelectionIsDrawn ==
    ASSUME ResolverAssumption, NEW scan \in SUBSET Predictions, NEW at,
           NEW q \in Selections(scan, at)
    PROVE  /\ q \in Seq(Predictions) /\ Len(q) <= Limit
           /\ \A i \in 1..Len(q) : q[i] \in scan
           /\ \A i, j \in 1..Len(q) : q[i] = q[j] => i = j
<1> DEFINE fresh == {p \in scan : HorizonOf[p] >= at - FreshWindow}
           stuck == scan \ fresh
           f == TakeFresh(Cardinality(fresh), Cardinality(stuck))
           s == TakeStuck(Cardinality(fresh), Cardinality(stuck))
           n == f + s
<1>1. Cardinality(fresh) \in Nat /\ Cardinality(stuck) \in Nat
  BY FS_Subset, FS_CardinalityType DEF ResolverAssumption
<1>2. n \in Nat /\ n <= Limit
  <2> HIDE DEF fresh, stuck
  <2>1. f \in Nat /\ s \in Nat /\ f + s = Lesser(Cardinality(fresh) + Cardinality(stuck), Limit)
    BY <1>1, SelectionFills
  <2> QED
    BY <1>1, <2>1 DEF Lesser, ResolverAssumption
<1>3. q \in Injection(1..n, scan)
  <2> HIDE DEF n
  <2> QED BY DEF Selections, n
<1> HIDE DEF n
<1>4. q \in [1..n -> scan] /\ \A i, j \in 1..n : q[i] = q[j] => i = j
  BY <1>3 DEF Injection, IsInjective
<1>5. q \in Seq(scan) /\ Len(q) = n
  BY <1>2, <1>4
<1>6. q \in Seq(Predictions)
  <2>1. q \in [1..n -> Predictions]
    BY <1>4
  <2> QED
    BY <1>2, <2>1
<1> HIDE DEF fresh, stuck, f, s
<1>7. \A i \in 1..Len(q) : q[i] \in scan
  BY <1>2, <1>4, <1>5
<1>8. \A i, j \in 1..Len(q) : q[i] = q[j] => i = j
  BY <1>2, <1>4, <1>5
<1> QED
  BY <1>2, <1>5, <1>6, <1>7, <1>8

-----------------------------------------------------------------------------
(* The inductive invariant.                                                *)

AttemptRows == [result : Results, label : Labels \cup {NoLabel}]

Types ==
    /\ clock \in 0..MaxTime
    /\ outcome \in [Predictions -> Labels \cup {NoLabel}]
    /\ status \in [Predictions -> StatusRows \cup {NoStatus}]
    /\ phase \in [Runs -> {"idle", "trying", "done"}]
    /\ route \in [Runs -> {"c", "legacy"}]
    /\ now \in [Runs -> Nat]
    /\ queue \in [Runs -> Seq(Predictions)]
    /\ seen \in [Runs -> [Predictions -> StatusRows \cup {NoStatus}]]
    /\ tried \in [Runs -> [Predictions -> AttemptRows \cup {Untried}]]
    /\ trouble \subseteq {"overlap", "legacy", "loss"}

\* A status row keeps its shape.
Shape(p) ==
    status[p] # NoStatus =>
        /\ status[p].first <= status[p].last /\ status[p].last <= clock
        /\ (status[p].next # NoTime) <=> (status[p].state = "RETRYABLE")

\* What a run has read was RETRYABLE and due, and as long as the count is the
\* same, so is the row: this is what makes the count a version.
SeenIsVersion(r, p) ==
    seen[r][p] # NoStatus =>
        /\ seen[r][p].state = "RETRYABLE" /\ seen[r][p].next <= now[r]
        /\ seen[r][p].first <= now[r]
        /\ status[p] # NoStatus /\ status[p].first = seen[r][p].first
        /\ status[p].attempts >= seen[r][p].attempts
        /\ status[p].attempts = seen[r][p].attempts => status[p] = seen[r][p]

\* What a run on Route C calls resolved is stored as it was built.
ResolvedTry(r, p) ==
    route[r] = "c" /\ tried[r][p] # Untried /\ tried[r][p].result = Resolved =>
        tried[r][p].label = outcome[p] /\ outcome[p] # NoLabel

\* A run that is not active holds nothing.
Quiet(r) ==
    ~Active(r) => /\ queue[r] = <<>>
                  /\ \A p \in Predictions : seen[r][p] = NoStatus /\ tried[r][p] = Untried

Basic ==
    /\ Types
    /\ \A p \in Predictions : Shape(p)
    /\ \A r \in Runs : /\ Len(queue[r]) <= Limit /\ now[r] <= clock /\ Quiet(r)
                       /\ \A p \in Predictions : SeenIsVersion(r, p) /\ ResolvedTry(r, p)
    /\ ResolvedIsStored

\* While runs do not overlap, the row a run has still to try is as it scanned it.
Untouched(r, i) ==
    LET p == queue[r][i]
    IN  /\ outcome[p] = NoLabel /\ tried[r][p] = Untried
        /\ seen[r][p] = status[p] /\ status[p].state # "QUARANTINED"

Exclusive ==
    trouble \subseteq {"loss"} =>
        /\ \A r, q \in Runs : Active(r) /\ Active(q) => r = q
        /\ \A r \in Runs :
              /\ Active(r) => route[r] = "c"
              /\ \A i \in 1..Len(queue[r]) : Untouched(r, i)
              /\ \A i, j \in 1..Len(queue[r]) : queue[r][i] = queue[r][j] => i = j
              /\ \A p \in Predictions :
                    tried[r][p] # Untried
                    /\ tried[r][p].result \notin {Resolved} \cup SaveErrorReasons \cup NoWriteReasons
                        => outcome[p] = NoLabel

\* While nothing has gone wrong, a row waiting for a retry that has an outcome is
\* one that the active run has resolved and will say so.
Clean ==
    trouble = {} =>
        /\ \A r \in Runs, p \in Predictions :
              tried[r][p] # Untried /\ tried[r][p].result # Resolved => outcome[p] = NoLabel
        /\ \A p \in Predictions :
              status[p].state = "RETRYABLE" /\ outcome[p] # NoLabel =>
                  \E r \in Runs : /\ Active(r) /\ tried[r][p] # Untried
                                  /\ tried[r][p].result = Resolved
                                  /\ seen[r][p] = status[p]

IInv == Basic /\ Exclusive /\ QuarantinedIsUnresolved /\ Clean

\* The initial state satisfies it.
LEMMA InitIInv == ASSUME ResolverAssumption, ResolverInit PROVE IInv
<1>1. Types
  BY DEF ResolverInit, Types, ResolverAssumption
<1>2. Basic
  BY <1>1 DEF ResolverInit, Basic, Shape, SeenIsVersion, ResolvedTry, Quiet, Active,
              ResolvedIsStored, NoStatus, Untried, ResolverAssumption
<1> QED
  BY <1>1, <1>2 DEF ResolverInit, IInv, Exclusive, Clean, QuarantinedIsUnresolved, Active,
                    Untouched, NoStatus, Untried

-----------------------------------------------------------------------------
(* The batch.                                                              *)

LEMMA BackoffType == ASSUME ResolverAssumption, NEW n \in Nat \ {0} PROVE Backoff(n) \in Nat
<1>1. Lesser(n, 6) \in 1..6
  BY DEF Lesser
<1>2. \A i \in 1..6 : <<1, 2, 4, 8, 16, 32>>[i] \in Nat
  OBVIOUS
<1>3. <<1, 2, 4, 8, 16, 32>>[Lesser(n, 6)] \in Nat
  BY <1>1, <1>2
<1> QED
  BY <1>3 DEF Backoff, Lesser, ResolverAssumption

\* What an attempt earns: a row that continues the one the scan read.
LEMMA DecideFacts ==
    ASSUME ResolverAssumption, Types, NEW r \in Runs, NEW p \in Predictions,
           SeenIsVersion(r, p), Decide(r, p) # NoStatus
    PROVE  LET w == Decide(r, p) old == seen[r][p]
           IN  /\ w \in StatusRows
               /\ w.last = now[r] /\ w.first <= now[r]
               /\ (w.next # NoTime) <=> (w.state = "RETRYABLE")
               /\ w.attempts = IF old = NoStatus THEN 1 ELSE old.attempts + 1
               /\ old # NoStatus => w.first = old.first
               /\ tried[r][p] # Untried /\ tried[r][p].result \notin NoWriteReasons
               /\ w.state = "RESOLVED" => /\ old # NoStatus /\ tried[r][p].result = Resolved
                                          /\ w.label = tried[r][p].label
               /\ w.state # "RESOLVED" => tried[r][p].result # Resolved
               /\ w.state = "QUARANTINED" => tried[r][p].result \notin SaveErrorReasons
<1> DEFINE w == Decide(r, p)
           old == seen[r][p]
           try == tried[r][p]
<1>1. /\ old \in StatusRows \cup {NoStatus} /\ now[r] \in Nat
      /\ try \in AttemptRows \cup {Untried} /\ try # Untried /\ try.result \notin NoWriteReasons
  BY DEF Types, Decide
<1>2. try \in AttemptRows
  BY <1>1
<1>3. CASE try.result = Resolved
  <2>1. w = [old EXCEPT !.state = "RESOLVED", !.attempts = @ + 1, !.last = now[r],
                        !.next = NoTime, !.label = try.label] /\ old # NoStatus
    BY <1>1, <1>3 DEF Decide, DecideResolved
  <2>2. old \in StatusRows
    BY <1>1, <2>1
  <2>3. /\ w.state = "RESOLVED" /\ w.attempts = old.attempts + 1 /\ w.last = now[r]
        /\ w.next = NoTime /\ w.first = old.first /\ w.label = try.label
    BY <2>1, <2>2 DEF StatusRows
  <2>4. w \in StatusRows
    <3> DEFINE a == old.attempts + 1
               l == try.label
               t == now[r]
    <3>1. a \in Nat \ {0} /\ l \in Labels \cup {NoLabel} /\ t \in Nat
      BY <1>1, <1>2, <2>2 DEF StatusRows, AttemptRows
    <3>2. w = [old EXCEPT !.state = "RESOLVED", !.attempts = a, !.last = t,
                          !.next = NoTime, !.label = l]
      BY <2>1
    <3> HIDE DEF w, a, l, t
    <3> QED
      BY <2>2, <3>1, <3>2 DEF StatusRows
  <2>5. w.first <= now[r]
    BY <2>1, <2>3 DEF SeenIsVersion
  <2>6. old # NoStatus
    BY <2>1
  <2> QED
    BY <1>1, <1>3, <2>3, <2>4, <2>5, <2>6
<1>4. CASE try.result # Resolved
  <2> DEFINE known == old # NoStatus
             n == IF known THEN old.attempts + 1 ELSE 1
             first == IF known THEN old.first ELSE now[r]
             quarantine == Quarantines(p, try.result, n, first, now[r])
  <2>1. w = [state |-> IF quarantine THEN "QUARANTINED" ELSE "RETRYABLE",
             attempts |-> n, first |-> first, last |-> now[r], reason |-> try.result,
             next |-> IF quarantine THEN NoTime
                      ELSE IF try.result \in SaveErrorReasons THEN now[r]
                      ELSE now[r] + Backoff(n),
             label |-> NoLabel]
    BY <1>1, <1>4 DEF Decide, DecideUnresolved
  <2>2. n \in Nat \ {0} /\ first \in Nat /\ first <= now[r]
    BY <1>1 DEF StatusRows, SeenIsVersion
  <2>3. Backoff(n) \in Nat
    BY <2>2, BackoffType
  <2>4. quarantine => try.result \notin SaveErrorReasons
    BY DEF Quarantines, SaveErrorReasons, AtOnceReasons, AfterHorizonReasons, AfterFirstReasons
  <2> HIDE DEF n, first, quarantine
  <2>5. w \in StatusRows
    BY <1>1, <1>2, <2>1, <2>2, <2>3 DEF StatusRows, AttemptRows, NoTime
  <2>6. (w.next # NoTime) <=> (w.state = "RETRYABLE")
    BY <1>1, <2>1, <2>2, <2>3 DEF NoTime
  <2> QED
    BY <1>1, <1>4, <2>1, <2>2, <2>4, <2>5, <2>6 DEF n, first
<1> QED
  BY <1>3, <1>4

\* Mutual exclusion by version: a row the batch changes is as the scan read it.
LEMMA FlushRow ==
    ASSUME ResolverAssumption, Basic, NEW r \in Runs, Flush(r), NEW p \in Predictions,
           status'[p] # status[p]
    PROVE  /\ route[r] = "c" /\ Decide(r, p) # NoStatus
           /\ status'[p] = Decide(r, p) /\ status[p] = seen[r][p]
<1>1. Types /\ SeenIsVersion(r, p)
  BY DEF Basic
<1> DEFINE w == Decide(r, p)
           old == seen[r][p]
<1>2. /\ route[r] = "c" /\ p \in Writes(r) /\ status'[p] = Upserted(p, w)
  BY <1>1 DEF Flush, Types
<1>3. w # NoStatus
  BY <1>2 DEF Writes
<1>4. Accepts(p, w)
  BY <1>2 DEF Upserted
<1>5. /\ w \in StatusRows
      /\ old # NoStatus => w.first = old.first
      /\ w.attempts = IF old = NoStatus THEN 1 ELSE old.attempts + 1
  BY <1>1, <1>3, DecideFacts
<1>6. /\ old \in StatusRows \cup {NoStatus} /\ status[p] \in StatusRows \cup {NoStatus}
  BY <1>1 DEF Types
<1> HIDE DEF w, old
<1>7. CASE status[p] = NoStatus
  <2>1. old = NoStatus
    BY <1>1, <1>7 DEF SeenIsVersion, old
  <2> QED
    BY <1>2, <1>3, <1>4, <1>7, <2>1 DEF Upserted, w, old
<1>8. CASE status[p] # NoStatus
  <2>1. status[p] \in StatusRows /\ status[p].attempts = w.attempts - 1
    BY <1>4, <1>6, <1>8 DEF Accepts
  <2>2. old # NoStatus
    BY <1>5, <2>1 DEF StatusRows
  <2>3. old.attempts = status[p].attempts
    BY <1>5, <1>6, <2>1, <2>2 DEF StatusRows
  <2>4. status[p] = old
    BY <1>1, <2>2, <2>3 DEF SeenIsVersion, old
  <2>5. status'[p] = [w EXCEPT !.first = w.first]
    BY <1>2, <1>4, <1>5, <1>8, <2>2, <2>4 DEF Upserted
  <2>6. [w EXCEPT !.first = w.first] = w
    BY <1>5 DEF StatusRows
  <2> QED
    BY <1>2, <1>3, <2>4, <2>5, <2>6 DEF w, old
<1> QED
  BY <1>7, <1>8

-----------------------------------------------------------------------------
(* One lemma per kind of step.                                             *)

\* What the scan returns is due, and on Route C it is without a verdict.
LEMMA ScannedIsDue ==
    ASSUME NEW via \in {"c", "legacy"}, NEW p \in Scanned(via, clock)
    PROVE  /\ p \in Predictions /\ outcome[p] = NoLabel
           /\ via = "c" => \/ status[p] = NoStatus
                           \/ status[p].state = "RETRYABLE" /\ status[p].next <= clock
BY DEF Scanned, Due, Eligible

LEMMA StartKeeps ==
    ASSUME ResolverAssumption, IInv, NEW r \in Runs, NEW via \in {"c", "legacy"}, Start(r, via)
    PROVE  IInv'
<1> USE DEF Active
<1> DEFINE scan == Scanned(via, clock)
<1>1. Types /\ Basic
  BY DEF IInv, Basic
<1>2. /\ queue'[r] \in Seq(Predictions) /\ Len(queue'[r]) <= Limit
      /\ \A i \in 1..Len(queue'[r]) : queue'[r][i] \in scan
      /\ \A i, j \in 1..Len(queue'[r]) : queue'[r][i] = queue'[r][j] => i = j
      /\ queue' = [queue EXCEPT ![r] = queue'[r]]
  <2>1. scan \in SUBSET Predictions
    BY DEF Scanned, Due
  <2>2. PICK q \in Selections(scan, clock) : queue' = [queue EXCEPT ![r] = q]
    BY DEF Start
  <2>3. /\ q \in Seq(Predictions) /\ Len(q) <= Limit
        /\ \A i \in 1..Len(q) : q[i] \in scan
        /\ \A i, j \in 1..Len(q) : q[i] = q[j] => i = j
    BY ZenonT(40), <2>1, SelectionIsDrawn
  <2>4. queue'[r] = q
    BY <1>1, <2>2 DEF Types
  <2> QED
    BY <2>2, <2>3, <2>4
<1> HIDE DEF scan
<1>3. /\ phase[r] = "idle" /\ phase' = [phase EXCEPT ![r] = "trying"]
      /\ route' = [route EXCEPT ![r] = via] /\ now' = [now EXCEPT ![r] = clock]
      /\ seen' = [seen EXCEPT ![r] =
            [p \in Predictions |-> IF via = "c" /\ p \in scan THEN status[p] ELSE NoStatus]]
      /\ clock' = clock /\ outcome' = outcome /\ status' = status /\ tried' = tried
      /\ trouble \subseteq trouble' /\ trouble' \subseteq trouble \cup {"legacy", "overlap"}
      /\ trouble' \subseteq {"loss"} => via = "c" /\ \A q \in Runs : ~Active(q)
  BY DEF Start, scan
<1>4. /\ phase'[r] = "trying" /\ route'[r] = via /\ now'[r] = clock
      /\ \A p \in Predictions :
            seen'[r][p] = IF via = "c" /\ p \in scan THEN status[p] ELSE NoStatus
      /\ \A q \in Runs \ {r} : /\ phase'[q] = phase[q] /\ route'[q] = route[q]
                               /\ now'[q] = now[q] /\ seen'[q] = seen[q]
                               /\ queue'[q] = queue[q]
  BY <1>1, <1>2, <1>3 DEF Types
<1>5. Types'
  <2>1. clock \in Nat /\ status \in [Predictions -> StatusRows \cup {NoStatus}]
    BY <1>1 DEF Types, ResolverAssumption
  <2>2. [p \in Predictions |-> IF via = "c" /\ p \in scan THEN status[p] ELSE NoStatus]
            \in [Predictions -> StatusRows \cup {NoStatus}]
    BY <2>1
  <2> QED
    BY ZenonT(40), <1>1, <1>2, <1>3, <2>1, <2>2 DEF Types
<1>6. \A p \in Predictions : tried[r][p] = Untried
  BY <1>1, <1>3 DEF Basic, Quiet
<1>7. Basic'
  <2>1. \A p \in Predictions : Shape(p)'
    BY <1>1, <1>3 DEF Basic, Shape
  <2>2. ASSUME NEW q \in Runs
        PROVE  (Len(queue[q]) <= Limit /\ now[q] <= clock /\ Quiet(q))'
    BY <1>1, <1>2, <1>3, <1>4 DEF Basic, Types, Quiet, ResolverAssumption
  <2>3. ASSUME NEW q \in Runs, NEW p \in Predictions
        PROVE  SeenIsVersion(q, p)' /\ ResolvedTry(q, p)'
    <3>1. CASE q = r
      <4>1. ResolvedTry(q, p)'
        BY <1>3, <1>6, <3>1 DEF ResolvedTry
      <4>2. SeenIsVersion(q, p)'
        <5>1. CASE via = "c" /\ p \in scan /\ status[p] # NoStatus
          <6>1. status[p].state = "RETRYABLE" /\ status[p].next <= clock
            BY <5>1, ScannedIsDue DEF scan
          <6>2. status[p] \in StatusRows /\ clock \in Nat
            BY <1>1, <5>1 DEF Types, ResolverAssumption
          <6>3. status[p].first <= clock
            BY <1>1, <5>1, <6>2 DEF Basic, Shape, StatusRows
          <6> QED
            BY <1>3, <1>4, <3>1, <5>1, <6>1, <6>2, <6>3 DEF SeenIsVersion, StatusRows
        <5>2. CASE ~(via = "c" /\ p \in scan /\ status[p] # NoStatus)
          BY <1>4, <3>1, <5>2 DEF SeenIsVersion
        <5> QED
          BY <5>1, <5>2
      <4> QED
        BY <4>1, <4>2
    <3>2. CASE q # r
      BY <1>1, <1>3, <1>4, <3>2 DEF Basic, SeenIsVersion, ResolvedTry
    <3> QED
      BY <3>1, <3>2
  <2>4. ResolvedIsStored'
    BY <1>1, <1>3 DEF Basic, ResolvedIsStored
  <2> QED
    BY <1>5, <2>1, <2>2, <2>3, <2>4 DEF Basic
<1>8. Exclusive'
  <2> SUFFICES ASSUME trouble' \subseteq {"loss"} PROVE Exclusive!2'
    BY DEF Exclusive
  <2>1. trouble \subseteq {"loss"} /\ via = "c" /\ \A q \in Runs : ~Active(q)
    BY <1>3
  <2>2. \A q \in Runs \ {r} : queue'[q] = <<>> /\ phase'[q] # "trying"
    BY <1>1, <1>4, <2>1 DEF Basic, Quiet
  <2>3. \A q \in Runs, p \in Predictions : tried'[q][p] = Untried
    BY <1>1, <1>3, <2>1 DEF Basic, Quiet
  <2>4. \A i \in 1..Len(queue'[r]) : Untouched(r, i)'
    <3> SUFFICES ASSUME NEW i \in 1..Len(queue'[r]) PROVE Untouched(r, i)'
      OBVIOUS
    <3>1. queue'[r][i] \in scan /\ queue'[r][i] \in Predictions
      BY <1>2, ScannedIsDue DEF scan
    <3>2. /\ outcome[queue'[r][i]] = NoLabel
          /\ status[queue'[r][i]].state # "QUARANTINED"
      BY <2>1, <3>1, ScannedIsDue DEF scan, NoStatus
    <3>3. /\ seen'[r][queue'[r][i]] = status[queue'[r][i]]
          /\ tried'[r][queue'[r][i]] = Untried
      BY ZenonT(40), <1>4, <2>1, <2>3, <3>1
    <3> QED
      BY <1>3, <3>2, <3>3 DEF Untouched
  <2> QED
    BY <1>2, <1>4, <2>1, <2>2, <2>3, <2>4
<1>9. QuarantinedIsUnresolved'
  BY <1>3 DEF IInv, QuarantinedIsUnresolved
<1>10. Clean'
  <2> SUFFICES ASSUME trouble' = {} PROVE Clean!2'
    BY DEF Clean
  <2>1. trouble = {} /\ \A q \in Runs : ~Active(q)
    BY <1>3
  <2>2. \A p \in Predictions : ~(status[p].state = "RETRYABLE" /\ outcome[p] # NoLabel)
    BY <2>1 DEF IInv, Clean
  <2>3. \A q \in Runs, p \in Predictions : tried'[q][p] = Untried
    BY <1>1, <1>3, <2>1 DEF Basic, Quiet
  <2> QED
    BY <1>3, <2>2, <2>3
<1> QED
  BY <1>7, <1>8, <1>9, <1>10 DEF IInv

\* What the three ends of an attempt have in common.
Try(r, p, result, label) ==
    /\ Active(r) /\ queue[r] # <<>> /\ p = Head(queue[r])
    /\ result \in Results /\ label \in Labels \cup {NoLabel}
    /\ Attempted(r, result, label)
    /\ \/ outcome' = outcome
       \/ /\ result \in {Resolved} \cup SaveErrorReasons \cup NoWriteReasons
          /\ \E l \in Labels : outcome' = Insert(p, l)
    /\ result = Resolved /\ route[r] = "c" => outcome'[p] = label /\ label # NoLabel
    /\ trouble \subseteq trouble' /\ trouble' \subseteq trouble \cup {"loss"}
    /\ trouble' = {} /\ result # Resolved => outcome' = outcome

LEMMA TryFacts ==
    ASSUME ResolverAssumption, Types, NEW r \in Runs, Unresolved(r) \/ Save(r) \/ SaveFails(r)
    PROVE  \E p \in Predictions, result \in Results, label \in Labels \cup {NoLabel} :
               Try(r, p, result, label)
<1> DEFINE p == Head(queue[r])
<1>1. Active(r) /\ queue[r] # <<>> /\ queue[r] \in Seq(Predictions)
  BY DEF Types, Unresolved, Save, SaveFails
<1>2. p \in Predictions /\ outcome[p] \in Labels \cup {NoLabel}
  <2>1. p \in Predictions
    BY <1>1, HeadTailProperties
  <2> QED
    BY <2>1 DEF Types
<1> HIDE DEF p
<1> USE DEF Resolved, SaveErrorReasons, NoWriteReasons
<1>3. CASE Unresolved(r)
  <2>1. PICK reason \in AtOnceReasons \cup FetchErrors : Attempted(r, reason, NoLabel)
    BY <1>3 DEF Unresolved
  <2>2. reason \in Results /\ reason # Resolved
    BY DEF Results, AtOnceReasons, MarketReasons, AfterHorizonReasons, AfterFirstReasons,
           ResolverAssumption
  <2>3. outcome' = outcome /\ trouble' = trouble
    BY <1>3 DEF Unresolved
  <2>4. Try(r, p, reason, NoLabel)
    BY <1>1, <2>1, <2>2, <2>3 DEF Try, p
  <2> QED
    BY <1>2, <2>2, <2>4
<1>4. CASE Save(r)
  <2>1. PICK label \in Labels :
          /\ outcome' = Insert(p, label)
          /\ Attempted(r, IF Confirmed(r, p, label) THEN Resolved
                          ELSE "error_outcome_conflict", label)
    BY <1>4 DEF Save, p
  <2>2. trouble' = trouble /\ label # NoLabel
    BY <1>4 DEF Save, ResolverAssumption
  <2> DEFINE result == IF Confirmed(r, p, label) THEN Resolved ELSE "error_outcome_conflict"
  <2>3. result \in Results /\ result \in {Resolved} \cup NoWriteReasons
    BY DEF Results
  <2>4. ASSUME result # Resolved PROVE outcome' = outcome
    <3>1. outcome'[p] # label
      BY <2>4 DEF Confirmed
    <3>2. outcome[p] # NoLabel
      BY <1>2, <2>1, <3>1 DEF Insert, Types
    <3> QED
      BY <2>1, <3>2 DEF Insert, Types
  <2>5. result = Resolved /\ route[r] = "c" => outcome'[p] = label
    BY DEF Confirmed
  <2>6. Attempted(r, result, label)
    BY <2>1
  <2> HIDE DEF result
  <2>7. Try(r, p, result, label)
    BY <1>1, <2>1, <2>2, <2>3, <2>4, <2>5, <2>6 DEF Try, p
  <2> QED
    BY <1>2, <2>3, <2>7
<1>5. CASE SaveFails(r)
  <2>1. PICK label \in Labels, result \in {"error_save_exception", "error_outcome_conflict"} :
          /\ outcome' = outcome \/ outcome' = Insert(p, label)
          /\ Attempted(r, result, NoLabel)
    BY <1>5 DEF SaveFails, p
  <2>2. trouble' = IF outcome' = outcome THEN trouble ELSE trouble \cup {"loss"}
    BY <1>5 DEF SaveFails
  <2>3. result \in Results /\ result # Resolved
    BY DEF Results
  <2>4. Try(r, p, result, NoLabel)
    BY <1>1, <2>1, <2>2, <2>3 DEF Try, p
  <2> QED
    BY <1>2, <2>3, <2>4
<1> QED
  BY <1>3, <1>4, <1>5

LEMMA TryKeeps ==
    ASSUME ResolverAssumption, IInv, NEW r \in Runs, NEW p \in Predictions,
           NEW result \in Results, NEW label \in Labels \cup {NoLabel}, Try(r, p, result, label)
    PROVE  IInv'
<1> USE DEF Active
<1>1. Types /\ Basic
  BY DEF IInv, Basic
<1>2. /\ clock' = clock /\ status' = status /\ phase' = phase /\ route' = route
      /\ now' = now /\ seen' = seen /\ phase[r] = "trying"
      /\ queue' = [queue EXCEPT ![r] = Tail(queue[r])]
      /\ tried' = [tried EXCEPT ![r][p] = [result |-> result, label |-> label]]
      /\ trouble \subseteq trouble' /\ trouble' \subseteq trouble \cup {"loss"}
  BY DEF Try, Attempted, runVars
<1>3. /\ queue[r] \in Seq(Predictions) /\ queue[r] # <<>> /\ p = queue[r][1]
      /\ Tail(queue[r]) \in Seq(Predictions) /\ Len(Tail(queue[r])) = Len(queue[r]) - 1
      /\ \A i \in 1..Len(Tail(queue[r])) : Tail(queue[r])[i] = queue[r][i + 1]
      /\ Len(queue[r]) \in Nat \ {0}
  BY <1>1, HeadTailProperties DEF Try, Types
<1>4. /\ queue'[r] = Tail(queue[r]) /\ tried'[r][p] = [result |-> result, label |-> label]
      /\ tried'[r][p] # Untried /\ tried'[r][p].result = result
      /\ \A q \in Runs \ {r} : queue'[q] = queue[q] /\ tried'[q] = tried[q]
      /\ \A q \in Runs, x \in Predictions : q # r \/ x # p => tried'[q][x] = tried[q][x]
  BY <1>1, <1>2 DEF Types, Untried, Results, Resolved
<1>5. /\ \A x \in Predictions : x # p => outcome'[x] = outcome[x]
      /\ outcome[p] # NoLabel => outcome' = outcome
      /\ outcome' \in [Predictions -> Labels \cup {NoLabel}]
  <2>1. CASE outcome' = outcome
    BY <1>1, <2>1 DEF Types
  <2>2. ASSUME NEW l \in Labels, outcome' = Insert(p, l)
        PROVE  /\ \A x \in Predictions : x # p => outcome'[x] = outcome[x]
               /\ outcome[p] # NoLabel => outcome' = outcome
               /\ outcome' \in [Predictions -> Labels \cup {NoLabel}]
    BY <1>1, <2>2 DEF Insert, Types
  <2>3. outcome' = outcome \/ \E l \in Labels : outcome' = Insert(p, l)
    BY DEF Try
  <2> QED
    BY <2>1, <2>2, <2>3
<1>6. \/ outcome' = outcome
      \/ result \in {Resolved} \cup SaveErrorReasons \cup NoWriteReasons
  BY DEF Try
<1>7. Types'
  <2>1. [result |-> result, label |-> label] \in AttemptRows
    BY DEF AttemptRows
  <2>2. tried' \in [Runs -> [Predictions -> AttemptRows \cup {Untried}]]
    BY <1>1, <1>2, <2>1 DEF Types
  <2> QED
    BY <1>1, <1>2, <1>3, <1>5, <2>2 DEF Types
<1>8. Basic'
  <2>1. \A x \in Predictions : Shape(x)'
    BY <1>1, <1>2 DEF Basic, Shape
  <2>2. ASSUME NEW q \in Runs
        PROVE  (Len(queue[q]) <= Limit /\ now[q] <= clock /\ Quiet(q))'
    BY <1>1, <1>2, <1>3, <1>4 DEF Basic, Types, Quiet, ResolverAssumption
  <2>3. ASSUME NEW q \in Runs, NEW x \in Predictions PROVE SeenIsVersion(q, x)'
    <3>1. SeenIsVersion(q, x)
      BY <1>1 DEF Basic
    <3> QED
      BY <1>2, <3>1 DEF SeenIsVersion
  <2>4. ASSUME NEW q \in Runs, NEW x \in Predictions PROVE ResolvedTry(q, x)'
    <3>1. CASE q = r /\ x = p
      BY SMTT(30), <1>2, <1>4, <3>1 DEF ResolvedTry, Try
    <3>2. CASE ~(q = r /\ x = p)
      <4>1. ResolvedTry(q, x) /\ tried'[q][x] = tried[q][x]
        BY <1>1, <1>4, <3>2 DEF Basic
      <4>2. outcome[x] # NoLabel => outcome'[x] = outcome[x]
        BY <1>5
      <4> QED
        BY <1>2, <4>1, <4>2 DEF ResolvedTry
    <3> QED
      BY <3>1, <3>2
  <2>5. ResolvedIsStored'
    <3> SUFFICES ASSUME NEW x \in Predictions, status[x].state = "RESOLVED"
                 PROVE  outcome'[x] # NoLabel /\ status[x].label = outcome'[x]
      BY <1>2 DEF ResolvedIsStored
    <3>1. outcome[x] # NoLabel /\ status[x].label = outcome[x]
      BY <1>1 DEF Basic, ResolvedIsStored
    <3> QED
      BY <1>5, <3>1
  <2> QED
    BY <1>7, <2>1, <2>2, <2>3, <2>4, <2>5 DEF Basic
<1>9. ASSUME trouble' \subseteq {"loss"}
      PROVE  /\ trouble \subseteq {"loss"} /\ outcome[p] = NoLabel /\ tried[r][p] = Untried
             /\ seen[r][p] = status[p] /\ status[p].state # "QUARANTINED"
  <2>1. trouble \subseteq {"loss"}
    BY <1>2, <1>9
  <2>2. Untouched(r, 1)
    BY <1>3, <2>1 DEF IInv, Exclusive
  <2> QED
    BY <1>3, <2>1, <2>2 DEF Untouched
<1>10. Exclusive'
  <2> SUFFICES ASSUME trouble' \subseteq {"loss"} PROVE Exclusive!2'
    BY DEF Exclusive
  <2>1. Exclusive!2
    BY <1>9 DEF IInv, Exclusive
  <2>6. /\ \A q, t \in Runs : phase'[q] = "trying" /\ phase'[t] = "trying" => q = t
        /\ \A q \in Runs : phase'[q] = "trying" => route'[q] = "c"
    BY <1>2, <2>1
  <2>2. \A q \in Runs \ {r} : queue[q] = <<>>
    BY <1>1, <1>2, <2>1 DEF Basic, Quiet
  <2>3. \A i, j \in 1..Len(queue'[r]) : queue'[r][i] = queue'[r][j] => i = j
    <3> SUFFICES ASSUME NEW i \in 1..Len(queue'[r]), NEW j \in 1..Len(queue'[r]),
                        queue'[r][i] = queue'[r][j]
                 PROVE  i = j
      OBVIOUS
    <3>1. queue[r][i + 1] = queue[r][j + 1] /\ i + 1 \in 1..Len(queue[r])
          /\ j + 1 \in 1..Len(queue[r])
      BY <1>3, <1>4
    <3>2. i + 1 = j + 1
      BY <2>1, <3>1
    <3> QED
      BY <3>2
  <2>4. ASSUME NEW i \in 1..Len(queue'[r]) PROVE Untouched(r, i)'
    <3> DEFINE x == queue[r][i + 1]
    <3>1. queue'[r][i] = x /\ i + 1 \in 1..Len(queue[r]) /\ x \in Predictions
      BY <1>3, <1>4
    <3>2. x # p
      <4>1. 1 \in 1..Len(queue[r]) /\ i + 1 # 1
        BY <1>3
      <4> QED
        BY <1>3, <2>1, <3>1, <4>1
    <3>3. Untouched(r, i + 1)
      BY <2>1, <3>1
    <3>4. /\ outcome[x] = NoLabel /\ tried[r][x] = Untried
          /\ seen[r][x] = status[x] /\ status[x].state # "QUARANTINED"
      BY <3>3 DEF Untouched
    <3>5. outcome'[x] = NoLabel /\ tried'[r][x] = Untried
      BY <1>4, <1>5, <3>1, <3>2, <3>4
    <3> HIDE DEF x
    <3> QED
      BY <1>2, <3>1, <3>4, <3>5 DEF Untouched
  <2>5. ASSUME NEW q \in Runs, NEW x \in Predictions, tried'[q][x] # Untried,
               tried'[q][x].result \notin {Resolved} \cup SaveErrorReasons \cup NoWriteReasons
        PROVE  outcome'[x] = NoLabel
    <3>1. CASE q = r /\ x = p
      BY <1>4, <1>6, <1>9, <2>5, <3>1
    <3>2. CASE q = r /\ x # p
      <4>1. tried[q][x] = tried'[q][x]
        BY <1>4, <3>2
      <4>2. outcome[x] = NoLabel
        BY <2>1, <2>5, <4>1
      <4> QED
        BY <1>5, <3>2, <4>2
    <3>3. CASE q # r
      <4>1. phase[q] # "trying"
        BY <1>2, <2>1, <3>3
      <4>2. tried[q][x] = Untried
        BY <1>1, <4>1 DEF Basic, Quiet
      <4> QED
        BY <1>4, <2>5, <3>3, <4>2
    <3> QED
      BY <3>1, <3>2, <3>3
  <2>7. \A q \in Runs : /\ \A i \in 1..Len(queue'[q]) : Untouched(q, i)'
                       /\ \A i, j \in 1..Len(queue'[q]) : queue'[q][i] = queue'[q][j] => i = j
    <3> SUFFICES ASSUME NEW q \in Runs, q # r
                 PROVE  1..Len(queue'[q]) = {}
      BY <2>3, <2>4
    <3> QED
      BY <1>4, <2>2
  <2> QED
    BY <2>5, <2>6, <2>7
<1>11. QuarantinedIsUnresolved'
  <2> SUFFICES ASSUME trouble' \subseteq {"loss"}, NEW x \in Predictions,
                      status[x].state = "QUARANTINED"
               PROVE  outcome'[x] = NoLabel
    BY <1>2 DEF QuarantinedIsUnresolved
  <2> QED
    BY <1>5, <1>9 DEF IInv, QuarantinedIsUnresolved
<1>12. Clean'
  <2> SUFFICES ASSUME trouble' = {} PROVE Clean!2'
    BY DEF Clean
  <2>1. trouble = {} /\ Clean!2 /\ Exclusive!2
    BY <1>2 DEF IInv, Clean, Exclusive
  <2>2. /\ outcome[p] = NoLabel /\ tried[r][p] = Untried /\ seen[r][p] = status[p]
    BY <1>9
  <2>3. ASSUME NEW q \in Runs, NEW x \in Predictions, tried'[q][x] # Untried,
               tried'[q][x].result # Resolved
        PROVE  outcome'[x] = NoLabel
    <3>1. CASE q = r /\ x = p
      BY <1>4, <2>2, <2>3, <3>1 DEF Try
    <3>2. CASE ~(q = r /\ x = p)
      <4>1. tried[q][x] = tried'[q][x]
        BY <1>4, <3>2
      <4>2. outcome[x] = NoLabel
        BY <2>1, <2>3, <4>1
      <4>3. CASE x = p
        <5>1. phase[q] # "trying"
          BY <1>2, <2>1, <3>2, <4>3
        <5>2. tried[q][x] = Untried
          BY <1>1, <5>1 DEF Basic, Quiet
        <5> QED
          BY <2>3, <4>1, <5>2
      <4> QED
        BY <1>5, <4>2, <4>3
    <3> QED
      BY <3>1, <3>2
  <2>4. ASSUME NEW x \in Predictions, status[x].state = "RETRYABLE", outcome'[x] # NoLabel
        PROVE  \E q \in Runs : /\ phase[q] = "trying" /\ tried'[q][x] # Untried
                               /\ tried'[q][x].result = Resolved /\ seen[q][x] = status[x]
    <3>1. CASE x = p
      <4>1. result = Resolved
        BY <2>2, <2>4, <3>1 DEF Try
      <4> QED
        BY <1>2, <1>4, <2>2, <3>1, <4>1
    <3>2. CASE x # p
      <4>1. outcome[x] # NoLabel
        BY <1>5, <2>4, <3>2
      <4>2. PICK q \in Runs : /\ phase[q] = "trying" /\ tried[q][x] # Untried
                              /\ tried[q][x].result = Resolved /\ seen[q][x] = status[x]
        BY <2>1, <2>4, <4>1
      <4> QED
        BY <1>4, <3>2, <4>2
    <3> QED
      BY <3>1, <3>2
  <2> QED
    BY SMTT(30), <1>2, <2>3, <2>4
<1> QED
  BY <1>8, <1>10, <1>11, <1>12 DEF IInv

LEMMA DeferKeeps ==
    ASSUME ResolverAssumption, IInv, NEW r \in Runs, Defer(r)
    PROVE  IInv'
<1> USE DEF Active
<1>1. Types /\ Basic
  BY DEF IInv, Basic
<1>2. /\ clock' = clock /\ status' = status /\ phase' = phase /\ route' = route
      /\ now' = now /\ seen' = seen /\ outcome' = outcome /\ tried' = tried
      /\ trouble' = trouble /\ queue' = [queue EXCEPT ![r] = <<>>]
  BY DEF Defer, runVars
<1>3. /\ <<>> \in Seq(Predictions) /\ Len(<<>>) = 0
      /\ \A q \in Runs : queue'[q] = <<>> \/ queue'[q] = queue[q]
      /\ queue' \in [Runs -> Seq(Predictions)]
  <2>1. <<>> \in Seq(Predictions) /\ Len(<<>>) = 0
    OBVIOUS
  <2> QED
    BY <1>1, <1>2, <2>1 DEF Types
<1>4. Types'
  BY <1>1, <1>2, <1>3 DEF Types
<1>5. Basic'
  <2>1. ASSUME NEW q \in Runs, NEW p \in Predictions
        PROVE  SeenIsVersion(q, p)' /\ ResolvedTry(q, p)' /\ Shape(p)'
    <3>1. SeenIsVersion(q, p) /\ ResolvedTry(q, p) /\ Shape(p)
      BY <1>1 DEF Basic
    <3> QED
      BY <1>2, <3>1 DEF SeenIsVersion, ResolvedTry, Shape
  <2>2. ASSUME NEW p \in Predictions PROVE Shape(p)'
    BY <1>1, <1>2 DEF Basic, Shape
  <2>3. ASSUME NEW q \in Runs
        PROVE  (Len(queue[q]) <= Limit /\ now[q] <= clock /\ Quiet(q))'
    BY <1>1, <1>2, <1>3 DEF Basic, Quiet, ResolverAssumption
  <2>4. ResolvedIsStored'
    BY <1>1, <1>2 DEF Basic, ResolvedIsStored
  <2> QED
    BY <1>4, <2>1, <2>2, <2>3, <2>4 DEF Basic
<1>6. Exclusive'
  <2> SUFFICES ASSUME trouble \subseteq {"loss"} PROVE Exclusive!2'
    BY <1>2 DEF Exclusive
  <2>1. Exclusive!2
    BY DEF IInv, Exclusive
  <2>2. ASSUME NEW q \in Runs
        PROVE  /\ \A i \in 1..Len(queue'[q]) : Untouched(q, i)'
               /\ \A i, j \in 1..Len(queue'[q]) : queue'[q][i] = queue'[q][j] => i = j
    <3>1. CASE queue'[q] = <<>>
      BY <3>1
    <3>2. CASE queue'[q] = queue[q]
      BY <1>2, <2>1, <3>2 DEF Untouched
    <3> QED
      BY <1>3, <3>1, <3>2
  <2> QED
    BY <1>2, <2>1, <2>2
<1> QED
  BY <1>2, <1>5, <1>6 DEF IInv, QuarantinedIsUnresolved, Clean

LEMMA TickKeeps ==
    ASSUME ResolverAssumption, IInv, Tick \/ UNCHANGED resolverVars
    PROVE  IInv'
<1> USE DEF Active
<1>1. Types /\ Basic
  BY DEF IInv, Basic
<1>2. /\ status' = status /\ phase' = phase /\ route' = route /\ queue' = queue
      /\ now' = now /\ seen' = seen /\ outcome' = outcome /\ tried' = tried
      /\ trouble' = trouble /\ clock' \in 0..MaxTime /\ clock' >= clock
  BY <1>1 DEF Tick, runVars, resolverVars, Types, ResolverAssumption
<1>3. Types'
  BY <1>1, <1>2 DEF Types
<1>4. Basic'
  <2>1. ASSUME NEW q \in Runs, NEW p \in Predictions
        PROVE  SeenIsVersion(q, p)' /\ ResolvedTry(q, p)'
    <3>1. SeenIsVersion(q, p) /\ ResolvedTry(q, p)
      BY <1>1 DEF Basic
    <3> QED
      BY <1>2, <3>1 DEF SeenIsVersion, ResolvedTry
  <2>2. ASSUME NEW p \in Predictions PROVE Shape(p)'
    <3>1. Shape(p) /\ status[p] \in StatusRows \cup {NoStatus}
      BY <1>1 DEF Basic, Types
    <3> QED
      BY <1>1, <1>2, <3>1 DEF Shape, StatusRows, Types, ResolverAssumption
  <2>3. ASSUME NEW q \in Runs
        PROVE  (Len(queue[q]) <= Limit /\ now[q] <= clock /\ Quiet(q))'
    BY <1>1, <1>2 DEF Basic, Quiet, Types, ResolverAssumption
  <2>4. ResolvedIsStored'
    BY <1>1, <1>2 DEF Basic, ResolvedIsStored
  <2> QED
    BY <1>3, <2>1, <2>2, <2>3, <2>4 DEF Basic
<1>5. Exclusive'
  BY <1>2 DEF IInv, Exclusive, Untouched
<1> QED
  BY <1>2, <1>4, <1>5 DEF IInv, QuarantinedIsUnresolved, Clean

LEMMA EndKeeps ==
    ASSUME ResolverAssumption, IInv, NEW r \in Runs, Flush(r) \/ Dies(r)
    PROVE  IInv'
<1> USE DEF Active
<1>1. Types /\ Basic
  BY DEF IInv, Basic
<1>2. /\ clock' = clock /\ outcome' = outcome /\ phase[r] = "trying"
      /\ phase' = [phase EXCEPT ![r] = "done"] /\ route' = [route EXCEPT ![r] = "c"]
      /\ now' = [now EXCEPT ![r] = 0] /\ queue' = [queue EXCEPT ![r] = <<>>]
      /\ seen' = [seen EXCEPT ![r] = [p \in Predictions |-> NoStatus]]
      /\ tried' = [tried EXCEPT ![r] = [p \in Predictions |-> Untried]]
      /\ trouble \subseteq trouble' /\ trouble' \subseteq trouble \cup {"loss"}
  BY DEF Flush, Dies, Ends
<1>3. /\ phase'[r] = "done" /\ queue'[r] = <<>> /\ now'[r] = 0
      /\ \A p \in Predictions : seen'[r][p] = NoStatus /\ tried'[r][p] = Untried
      /\ \A q \in Runs \ {r} : /\ phase'[q] = phase[q] /\ route'[q] = route[q]
                               /\ now'[q] = now[q] /\ seen'[q] = seen[q]
                               /\ queue'[q] = queue[q] /\ tried'[q] = tried[q]
  BY <1>1, <1>2 DEF Types
<1>4. ASSUME NEW p \in Predictions, status'[p] # status[p]
      PROVE  LET w == status'[p]
             IN  /\ w \in StatusRows /\ w.first <= w.last /\ w.last <= clock
                 /\ (w.next # NoTime) <=> (w.state = "RETRYABLE")
                 /\ status[p] # NoStatus => /\ w.attempts = status[p].attempts + 1
                                            /\ w.first = status[p].first
                 /\ status[p] \in {NoStatus, seen[r][p]} /\ route[r] = "c"
                 /\ w.state = "RESOLVED" => w.label = outcome[p] /\ outcome[p] # NoLabel
                 /\ w.state # "RESOLVED" => /\ tried[r][p] # Untried
                                            /\ tried[r][p].result # Resolved
                 /\ w.state = "QUARANTINED" =>
                        tried[r][p].result \notin SaveErrorReasons \cup NoWriteReasons
  <2>1. Flush(r)
    BY <1>4 DEF Dies
  <2>2. /\ route[r] = "c" /\ Decide(r, p) # NoStatus
        /\ status'[p] = Decide(r, p) /\ status[p] = seen[r][p]
    BY <1>1, <1>4, <2>1, FlushRow
  <2>3. /\ SeenIsVersion(r, p) /\ ResolvedTry(r, p) /\ now[r] <= clock
    BY <1>1 DEF Basic
  <2>4. LET w == status'[p] old == status[p]
        IN  /\ w \in StatusRows
            /\ w.last = now[r] /\ w.first <= now[r]
            /\ (w.next # NoTime) <=> (w.state = "RETRYABLE")
            /\ w.attempts = IF old = NoStatus THEN 1 ELSE old.attempts + 1
            /\ old # NoStatus => w.first = old.first
            /\ tried[r][p] # Untried /\ tried[r][p].result \notin NoWriteReasons
            /\ w.state = "RESOLVED" => /\ old # NoStatus /\ tried[r][p].result = Resolved
                                       /\ w.label = tried[r][p].label
            /\ w.state # "RESOLVED" => tried[r][p].result # Resolved
            /\ w.state = "QUARANTINED" => tried[r][p].result \notin SaveErrorReasons
    BY <1>1, <2>2, <2>3, DecideFacts
  <2> QED
    BY <2>2, <2>3, <2>4 DEF ResolvedTry
<1>5. status' \in [Predictions -> StatusRows \cup {NoStatus}]
  <2>1. \A p \in Predictions : status'[p] \in StatusRows \cup {NoStatus}
    BY <1>1, <1>4 DEF Types
  <2>2. status' = [p \in Predictions |-> status'[p]]
    BY <1>1 DEF Types, Flush, Dies
  <2> QED
    BY <2>1, <2>2
<1>6. Types'
  <2>1. <<>> \in Seq(Predictions)
    OBVIOUS
  <2> QED
    BY <1>1, <1>2, <1>5, <2>1 DEF Types
<1>7. Basic'
  <2>1. ASSUME NEW p \in Predictions PROVE Shape(p)'
    <3>1. CASE status'[p] = status[p]
      BY <1>1, <1>2, <3>1 DEF Basic, Shape
    <3>2. CASE status'[p] # status[p]
      BY <1>2, <1>4, <3>2 DEF Shape
    <3> QED
      BY <3>1, <3>2
  <2>2. ASSUME NEW q \in Runs
        PROVE  (Len(queue[q]) <= Limit /\ now[q] <= clock /\ Quiet(q))'
    BY <1>1, <1>2, <1>3 DEF Basic, Types, Quiet, ResolverAssumption
  <2>3. ASSUME NEW q \in Runs, NEW p \in Predictions PROVE ResolvedTry(q, p)'
    BY <1>1, <1>2, <1>3 DEF Basic, ResolvedTry
  <2>4. ASSUME NEW q \in Runs, NEW p \in Predictions PROVE SeenIsVersion(q, p)'
    <3>1. SeenIsVersion(q, p)
      BY <1>1 DEF Basic
    <3>2. CASE q = r
      BY <1>3, <3>2 DEF SeenIsVersion
    <3>3. CASE q # r /\ status'[p] = status[p]
      BY <1>3, <3>1, <3>3 DEF SeenIsVersion
    <3>4. CASE q # r /\ status'[p] # status[p]
      <4>1. CASE seen[q][p] = NoStatus
        BY <1>3, <3>4, <4>1 DEF SeenIsVersion
      <4>2. CASE seen[q][p] # NoStatus
        <5>1. /\ status[p] # NoStatus /\ status[p] \in StatusRows /\ seen[q][p] \in StatusRows
              /\ status[p].attempts >= seen[q][p].attempts
          BY <1>1, <3>1, <4>2 DEF SeenIsVersion, Types
        <5>2. /\ status'[p] \in StatusRows /\ status'[p].attempts = status[p].attempts + 1
              /\ status'[p].first = status[p].first
          BY <1>4, <3>4, <5>1
        <5>3. status'[p].attempts > seen[q][p].attempts /\ status'[p] # NoStatus
          BY <5>1, <5>2 DEF StatusRows, NoStatus
        <5>4. status'[p].attempts # seen[q][p].attempts /\ status'[p].attempts >= seen[q][p].attempts
          BY <5>1, <5>2, <5>3 DEF StatusRows
        <5> QED
          BY <1>3, <3>1, <3>4, <4>2, <5>2, <5>3, <5>4 DEF SeenIsVersion
      <4> QED
        BY <4>1, <4>2
    <3> QED
      BY <3>2, <3>3, <3>4
  <2>5. ResolvedIsStored'
    BY <1>1, <1>2, <1>4 DEF Basic, ResolvedIsStored
  <2> QED
    BY <1>6, <2>1, <2>2, <2>3, <2>4, <2>5 DEF Basic
<1>8. trouble' \subseteq {"loss"} =>
          Exclusive!2 /\ \A q \in Runs \ {r} : phase[q] # "trying" /\ queue[q] = <<>>
  BY <1>1, <1>2 DEF IInv, Exclusive, Basic, Quiet
<1>9. Exclusive'
  <2> SUFFICES ASSUME trouble' \subseteq {"loss"} PROVE Exclusive!2'
    BY DEF Exclusive
  <2>1. \A q \in Runs : phase'[q] # "trying" /\ queue'[q] = <<>>
    BY <1>3, <1>8
  <2>2. \A q \in Runs, p \in Predictions : tried'[q][p] = Untried
    BY <1>7, <2>1 DEF Basic, Quiet
  <2> QED
    BY <2>1, <2>2
<1>10. QuarantinedIsUnresolved'
  <2> SUFFICES ASSUME trouble' \subseteq {"loss"}, NEW p \in Predictions,
                      status'[p].state = "QUARANTINED"
               PROVE  outcome[p] = NoLabel
    BY <1>2 DEF QuarantinedIsUnresolved
  <2>1. CASE status'[p] = status[p]
    BY <1>2, <2>1 DEF IInv, QuarantinedIsUnresolved
  <2>2. CASE status'[p] # status[p]
    <3>1. /\ tried[r][p] # Untried
          /\ tried[r][p].result \notin {Resolved} \cup SaveErrorReasons \cup NoWriteReasons
      BY <1>4, <2>2
    <3> QED
      BY <1>8, <3>1
  <2> QED
    BY <2>1, <2>2
<1>11. Clean'
  <2> SUFFICES ASSUME trouble' = {} PROVE Clean!2'
    BY DEF Clean
  <2>1. Flush(r) /\ trouble = {} /\ Exclusive!2 /\ Clean!2
    BY <1>2, <1>8 DEF Dies, IInv, Clean
  <2>2. \A q \in Runs : phase'[q] # "trying"
    BY <1>3, <1>8
  <2>3. \A q \in Runs, p \in Predictions : tried'[q][p] = Untried
    BY <1>7, <2>2 DEF Basic, Quiet
  <2>4. ASSUME NEW p \in Predictions, status'[p].state = "RETRYABLE", outcome[p] # NoLabel
        PROVE  FALSE
    <3>1. CASE status'[p] # status[p]
      BY <1>4, <2>1, <2>4, <3>1
    <3>2. CASE status'[p] = status[p]
      <4>1. PICK q \in Runs : /\ phase[q] = "trying" /\ tried[q][p] # Untried
                              /\ tried[q][p].result = Resolved /\ seen[q][p] = status[p]
        BY <2>1, <2>4, <3>2
      <4>2. q = r /\ route[r] = "c"
        BY <1>2, <2>1, <4>1
      <4>3. /\ status[p] \in StatusRows /\ status[p] # NoStatus
            /\ status[p].state = "RETRYABLE"
        BY <1>1, <2>4, <3>2 DEF Types, NoStatus, StatusRows
      <4> DEFINE w == [status[p] EXCEPT !.state = "RESOLVED", !.attempts = @ + 1,
                          !.last = now[r], !.next = NoTime, !.label = tried[r][p].label]
      <4>4. Decide(r, p) = w
        BY <4>1, <4>2, <4>3 DEF Decide, DecideResolved, Resolved, NoWriteReasons
      <4>5. w.state = "RESOLVED" /\ w.attempts - 1 = status[p].attempts
        BY <4>3 DEF StatusRows
      <4>6. p \in Writes(r) /\ Accepts(p, Decide(r, p))
        <5>1. w # NoStatus
          BY <4>5 DEF NoStatus
        <5> HIDE DEF w
        <5>2. p \in Writes(r)
          BY <4>4, <4>5, <5>1 DEF Writes, Kept
        <5> QED
          BY <4>3, <4>4, <4>5, <5>2 DEF Accepts
      <4>7. status'[p] = [w EXCEPT !.first = status[p].first]
        BY <2>1, <4>2, <4>3, <4>4, <4>6 DEF Flush, Upserted
      <4>8. status'[p].state = "RESOLVED"
        BY <4>3, <4>7 DEF StatusRows
      <4> QED
        BY <2>4, <4>8
    <3> QED
      BY <3>1, <3>2
  <2> QED
    BY <1>2, <2>3, <2>4
<1> QED
  BY <1>7, <1>9, <1>10, <1>11 DEF IInv

-----------------------------------------------------------------------------
(* The theorems.                                                           *)

LEMMA NextIInv ==
    ASSUME ResolverAssumption, IInv, [ResolverNext]_resolverVars
    PROVE  IInv'
<1>1. CASE Tick \/ UNCHANGED resolverVars
  BY <1>1, TickKeeps
<1>2. ASSUME NEW r \in Runs, Start(r, "c") \/ Start(r, "legacy")
      PROVE  IInv'
  BY <1>2, StartKeeps
<1>3. ASSUME NEW r \in Runs, Unresolved(r) \/ Save(r) \/ SaveFails(r)
      PROVE  IInv'
  <2>1. Types
    BY DEF IInv, Basic
  <2>2. PICK p \in Predictions, result \in Results, label \in Labels \cup {NoLabel} :
            Try(r, p, result, label)
    BY <1>3, <2>1, TryFacts
  <2> QED
    BY <2>2, TryKeeps
<1>4. ASSUME NEW r \in Runs, Defer(r)
      PROVE  IInv'
  BY <1>4, DeferKeeps
<1>5. ASSUME NEW r \in Runs, Flush(r) \/ Dies(r)
      PROVE  IInv'
  BY <1>5, EndKeeps
<1> QED
  BY <1>1, <1>2, <1>3, <1>4, <1>5 DEF ResolverNext

\* The invariant holds of every run of the resolver.
THEOREM ResolverInvariant == ASSUME ResolverAssumption PROVE ResolverSpec => []IInv
<1>1. ResolverInit => IInv
  BY InitIInv
<1>2. IInv /\ [ResolverNext]_resolverVars => IInv'
  BY NextIInv
<1> QED
  BY <1>1, <1>2, PTL DEF ResolverSpec

\* The two tables keep their shape and every status row its chronology.
THEOREM ResolverTyped == ASSUME ResolverAssumption PROVE ResolverSpec => []ResolverTypeOK
<1>1. IInv => ResolverTypeOK
  BY DEF IInv, Basic, Types, Shape, ResolverTypeOK
<1> QED
  BY <1>1, ResolverInvariant, PTL

\* RESOLVED is only ever said of the outcome the database holds, whatever runs
\* overlap, die or lose their replies.
THEOREM ResolverTruth == ASSUME ResolverAssumption PROVE ResolverSpec => []ResolvedIsStored
<1>1. IInv => ResolvedIsStored
  BY DEF IInv, Basic
<1> QED
  BY <1>1, ResolverInvariant, PTL

\* Without overlap and legacy runs a quarantined row is an unresolved one.
THEOREM ResolverQuarantine ==
    ASSUME ResolverAssumption PROVE ResolverSpec => []QuarantinedIsUnresolved
<1>1. IInv => QuarantinedIsUnresolved
  BY DEF IInv
<1> QED
  BY <1>1, ResolverInvariant, PTL

\* While nothing goes wrong a resolved row leaves the retries.
THEOREM ResolverLeavesRetry ==
    ASSUME ResolverAssumption PROVE ResolverSpec => []ResolvedLeavesRetry
<1>1. IInv => ResolvedLeavesRetry
  BY DEF IInv, Clean, ResolvedLeavesRetry, Active
<1> QED
  BY <1>1, ResolverInvariant, PTL

\* A row that a step changes continues the version that was read of it.
LEMMA StatusStep ==
    ASSUME ResolverAssumption, IInv, [ResolverNext]_resolverVars,
           NEW p \in Predictions, status'[p] # status[p]
    PROVE  /\ status[p] = NoStatus \/ status[p].state = "RETRYABLE"
           /\ status[p] # NoStatus => /\ status'[p].attempts = status[p].attempts + 1
                                      /\ status'[p].first = status[p].first
                                      /\ status'[p].last >= status[p].next
<1>1. PICK r \in Runs : Flush(r)
  BY DEF ResolverNext, resolverVars, Tick, runVars, Start, Unresolved, Save, SaveFails,
         Attempted, Defer, Dies
<1>2. /\ Decide(r, p) # NoStatus /\ status'[p] = Decide(r, p) /\ status[p] = seen[r][p]
  BY <1>1, FlushRow DEF IInv
<1>3. Types /\ SeenIsVersion(r, p)
  BY DEF IInv, Basic
<1>4. status[p] # NoStatus => /\ status'[p].attempts = status[p].attempts + 1
                              /\ status'[p].first = status[p].first
                              /\ status'[p].last = now[r]
  BY <1>2, <1>3, DecideFacts
<1>5. status[p] # NoStatus =>
          /\ status[p].state = "RETRYABLE" /\ status[p].next <= now[r]
          /\ status[p].next \in Nat \cup {NoTime} /\ now[r] \in Nat
  BY <1>2, <1>3 DEF SeenIsVersion, Types, StatusRows
<1> QED
  BY <1>4, <1>5 DEF NoTime

\* Verdicts and outcomes are final under any overlap of runs.
THEOREM ResolverFinal == ASSUME ResolverAssumption PROVE ResolverSpec => VerdictsAreFinal
<1> DEFINE Final == \A p \in Predictions :
          /\ status[p].state \in {"RESOLVED", "QUARANTINED"} => status'[p] = status[p]
          /\ outcome[p] # NoLabel => outcome'[p] = outcome[p]
<1>1. IInv /\ [ResolverNext]_resolverVars => [Final]_resolverVars
  <2> SUFFICES ASSUME IInv, [ResolverNext]_resolverVars, NEW p \in Predictions
               PROVE  /\ status[p].state \in {"RESOLVED", "QUARANTINED"} => status'[p] = status[p]
                      /\ outcome[p] # NoLabel => outcome'[p] = outcome[p]
    OBVIOUS
  <2>1. status[p].state \in {"RESOLVED", "QUARANTINED"} => status'[p] = status[p]
    BY StatusStep DEF NoStatus
  <2>2. outcome[p] # NoLabel => outcome'[p] = outcome[p]
    <3>1. outcome \in [Predictions -> Labels \cup {NoLabel}]
      BY DEF IInv, Basic, Types
    <3>2. \A x, l : outcome' = Insert(x, l) /\ outcome[p] # NoLabel => outcome'[p] = outcome[p]
      BY <3>1 DEF Insert
    <3>3. outcome' = outcome \/ \E x, l : outcome' = Insert(x, l)
      BY DEF ResolverNext, resolverVars, Tick, runVars, Start, Unresolved, Save, SaveFails,
             Defer, Flush, Dies, Ends
    <3> QED
      BY <3>2, <3>3
  <2> QED
    BY <2>1, <2>2
<1> QED
  BY <1>1, ResolverInvariant, PTL DEF ResolverSpec, VerdictsAreFinal

\* Attempts are counted one by one, each after the back-off of the one before.
THEOREM ResolverSpaced == ASSUME ResolverAssumption PROVE ResolverSpec => AttemptsAreSpaced
<1> DEFINE Spaced == \A p \in Predictions :
          status[p].state = "RETRYABLE" /\ status'[p] # status[p] =>
              /\ status'[p].attempts = status[p].attempts + 1
              /\ status'[p].first = status[p].first
              /\ status'[p].last >= status[p].next
<1>1. IInv /\ [ResolverNext]_resolverVars => [Spaced]_resolverVars
  BY StatusStep DEF NoStatus
<1> QED
  BY <1>1, ResolverInvariant, PTL DEF ResolverSpec, AttemptsAreSpaced

\* The status ledger never contradicts the outcomes, whatever runs overlap or die.
THEOREM ResolverStatusIsTrue == ASSUME ResolverAssumption PROVE ResolverSpec => []StatusIsTrue
<1>1. ResolvedIsStored /\ QuarantinedIsUnresolved /\ ResolvedLeavesRetry => StatusIsTrue
  BY DEF StatusIsTrue
<1> QED
  BY <1>1, ResolverTruth, ResolverQuarantine, ResolverLeavesRetry, PTL

-----------------------------------------------------------------------------
(* OneLook.                                                                *)
(*                                                                         *)
(* LookInv says of every job what its place in the protocol means for the  *)
(* seal: a job past its claim is the seal's claimant, one that may capture *)
(* holds the very rows the seal recorded, one that computes holds the      *)
(* captured snapshot.  Every statement, answered or stray, is Valid: who   *)
(* sent it entitles it to what it writes.  A Valid statement keeps the     *)
(* seal's own invariant (StatementKeeps), and takes from no other job what *)
(* that job relies on (StatementFrame).                                    *)

StatementRows == [op : Statements, job : Jobs, pin : Pins \cup {NoPin},
                  rows : Versions \cup {NoRows}]
SealRows == [claimant : Jobs \cup {Nobody}, pin : Pins \cup {NoPin},
             raw : Versions \cup {NoRows}, snapshot : Snapshots \cup {NoSnapshot},
             state : States]

LookTypes ==
    /\ closed \in BOOLEAN
    /\ population \in Versions /\ reported \subseteq Versions
    /\ seal \in SealRows
    /\ pc \in [Jobs -> Places] /\ pin \in [Jobs -> Pins \cup {NoPin}]
    /\ expected \in [Jobs -> Versions \cup {NoRows}]
    /\ evidence \in [Jobs -> Versions \cup {NoRows}]
    /\ strays \subseteq StatementRows
    /\ artifacts \subseteq Snapshots

SealInv ==
    /\ seal.state = "NONE" => seal = NoSeal
    /\ seal.state # "NONE" => seal.claimant \in Jobs /\ seal.pin \in Pins
    /\ seal.state \in Captured =>
          /\ seal.raw \in Versions /\ seal.raw \in reported
          /\ seal.snapshot = [rows |-> seal.raw, pin |-> seal.pin]
    /\ seal.state \notin Captured => seal.snapshot = NoSnapshot /\ results = {} /\ artifacts = {}
    /\ seal.state = "COMPLETE" => results # {}
    /\ \A r \in results \cup artifacts : r = seal.snapshot
    /\ \A x \in exposed : /\ closed /\ seal.raw \in Versions
                          /\ x = [job |-> seal.claimant, rows |-> seal.raw]

Valid(s) ==
    /\ s \in StatementRows
    /\ s.op = "claim" => s.pin \in Pins
    /\ s.op \in {"read", "capture", "fail"} => seal.claimant = s.job
    /\ s.op = "capture" => /\ s.pin = seal.pin /\ s.rows = seal.raw
                           /\ s.rows \in reported /\ s.rows \in Versions
    /\ s.op = "complete" => results # {}

Holds(j) ==
    /\ closed
    /\ seal.state = "CLAIMED" /\ seal.claimant = j /\ seal.pin = pin[j]
    /\ expected[j] \in reported

Stage(j) ==
    /\ pc[j] = "new" => evidence[j] = NoRows
    /\ pc[j] \in {"compare", "claim"} =>
          closed /\ pin[j] \in Pins /\ expected[j] \in reported /\ evidence[j] = NoRows
    /\ pc[j] = "read" => Holds(j) /\ seal.raw = NoRows
    /\ pc[j] \in {"examine", "capture", "fail"} =>
          Holds(j) /\ seal.raw = evidence[j] /\ evidence[j] \in Versions
    /\ pc[j] = "capture" => evidence[j] \in reported
    /\ pc[j] \in {"compute", "recompute", "repeat"} =>
          seal.state \in Captured /\ seal.snapshot = Result(j)
    /\ pc[j] = "complete" => results # {}

Stray(s) == Valid(s) /\ pc[s.job] \in Ended

LookInv ==
    /\ LookTypes
    /\ SealInv
    /\ \A j \in Jobs : Stage(j)
    /\ \A s \in strays : Stray(s)

-----------------------------------------------------------------------------
(* Statements.                                                             *)

LEMMA StatementIsValid ==
    ASSUME LookInv, NEW j \in Jobs, pc[j] \in Statements
    PROVE  Valid(Statement(j))
<1>1. /\ LookTypes /\ Stage(j)
  BY DEF LookInv
<1>2. Statement(j) \in StatementRows
  BY <1>1 DEF LookTypes, Statement, StatementRows
<1> QED
  BY <1>1, <1>2 DEF Statement, Valid, Stage, Holds

LEMMA LandsFacts ==
    ASSUME NEW s \in StatementRows, Lands(s)
    PROVE  /\ s.op = "claim" => seal.state = "NONE"
           /\ s.op = "read" => seal.state = "CLAIMED" /\ seal.raw = NoRows
           /\ s.op = "capture" => /\ seal.state = "CLAIMED" /\ seal.raw # NoRows
                                  /\ seal.snapshot = NoSnapshot /\ seal.pin = s.pin
           /\ s.op = "fail" => seal.state \in {"CLAIMED", "CAPTURE_FAILED"}
           /\ s.op = "noresult" => seal.state \in {"SEALED_RAW_CAPTURED", "SEALED_NO_RESULT"}
           /\ s.op = "complete" => seal.state \in Captured
BY DEF Lands, Legal, Target, StatementRows, Statements, Captured

LEMMA WrittenFacts ==
    ASSUME NEW s \in StatementRows
    PROVE  /\ s.op = "claim" => Written(s) = [NoSeal EXCEPT !.claimant = s.job, !.pin = s.pin,
                                                          !.state = "CLAIMED"]
           /\ s.op = "read" => Written(s) = [seal EXCEPT !.raw = population]
           /\ s.op = "capture" =>
                 Written(s) = [seal EXCEPT !.snapshot = [rows |-> s.rows, pin |-> s.pin],
                                           !.state = "SEALED_RAW_CAPTURED"]
           /\ s.op = "fail" => Written(s) = [seal EXCEPT !.state = "CAPTURE_FAILED"]
           /\ s.op = "noresult" => Written(s) = [seal EXCEPT !.state = "SEALED_NO_RESULT"]
           /\ s.op = "complete" => Written(s) = [seal EXCEPT !.state = "COMPLETE"]
BY DEF Written, Target, StatementRows, Statements

\* What a statement leaves to everybody: the claim, the rows and the snapshot once
\* they are there, and a look that is not the sender's.
LEMMA StatementFrame ==
    ASSUME OneLookAssumption, LookTypes, SealInv, NEW s, Valid(s), Execute(s)
    PROVE  /\ seal' \in SealRows
           /\ seal.state # "NONE" =>
                 /\ seal'.state # "NONE"
                 /\ seal'.claimant = seal.claimant /\ seal'.pin = seal.pin
           /\ seal.raw # NoRows => seal'.raw = seal.raw
           /\ seal.state \in Captured =>
                 seal'.state \in Captured /\ seal'.snapshot = seal.snapshot
           /\ seal.state = "COMPLETE" => seal' = seal
           /\ seal.state = "CLAIMED" /\ seal.claimant # s.job => seal' = seal
           /\ s.op = "read" /\ Lands(s) => seal'.raw = population
           /\ s.op = "capture" /\ Lands(s) => seal'.snapshot = [rows |-> s.rows, pin |-> s.pin]
           /\ s.op = "capture" /\ Lands(s) => seal'.state = "SEALED_RAW_CAPTURED"
           /\ s.op = "claim" /\ Lands(s) =>
                 seal' = [NoSeal EXCEPT !.claimant = s.job, !.pin = s.pin, !.state = "CLAIMED"]
           /\ s.op = "read" /\ Lands(s) => seal'.state = "CLAIMED" /\ seal'.claimant = seal.claimant
<1>1. s \in StatementRows /\ seal \in SealRows
  BY DEF Valid, LookTypes
<1>2. CASE ~Lands(s)
  BY <1>1, <1>2 DEF Execute
<1>3. CASE Lands(s)
  <2>1. seal' = Written(s)
    BY <1>3 DEF Execute
  <2>2. seal.state # "COMPLETE" \/ s.op \in {"complete"}
    BY <1>1, <1>3, LandsFacts DEF StatementRows, Statements
  <2>3. CASE s.op = "claim"
    <3>1. seal.state = "NONE" /\ seal' = [NoSeal EXCEPT !.claimant = s.job, !.pin = s.pin,
                                                      !.state = "CLAIMED"]
      BY <1>1, <1>3, <2>1, <2>3, LandsFacts, WrittenFacts
    <3>2. seal = NoSeal
      BY <3>1 DEF SealInv
    <3>3. seal' = [claimant |-> s.job, pin |-> s.pin, raw |-> NoRows,
                   snapshot |-> NoSnapshot, state |-> "CLAIMED"]
      BY <3>1 DEF NoSeal
    <3>4. seal' \in SealRows
      BY <1>1, <3>3 DEF SealRows, StatementRows, States
    <3> QED
      BY <2>3, <3>1, <3>2, <3>3, <3>4 DEF NoSeal, Captured
  <2>4. CASE s.op = "read"
    <3>1. /\ seal.state = "CLAIMED" /\ seal.raw = NoRows /\ seal.claimant = s.job
          /\ seal' = [seal EXCEPT !.raw = population]
      BY <1>1, <1>3, <2>1, <2>4, LandsFacts, WrittenFacts DEF Valid
    <3> QED
      BY <1>1, <2>4, <3>1 DEF SealRows, LookTypes, Captured
  <2>5. CASE s.op = "capture"
    <3>1. /\ seal.state = "CLAIMED" /\ seal.claimant = s.job
          /\ seal' = [seal EXCEPT !.snapshot = [rows |-> s.rows, pin |-> s.pin],
                                  !.state = "SEALED_RAW_CAPTURED"]
      BY <1>1, <1>3, <2>1, <2>5, LandsFacts, WrittenFacts DEF Valid
    <3>2. [rows |-> s.rows, pin |-> s.pin] \in Snapshots
      BY <2>5, <3>1 DEF Valid, SealInv, Snapshots
    <3> QED
      BY <1>1, <2>5, <3>1, <3>2 DEF SealRows, States, Captured
  <2>6. CASE s.op = "fail"
    <3>1. /\ seal.state \in {"CLAIMED", "CAPTURE_FAILED"} /\ seal.claimant = s.job
          /\ seal' = [seal EXCEPT !.state = "CAPTURE_FAILED"]
      BY <1>1, <1>3, <2>1, <2>6, LandsFacts, WrittenFacts DEF Valid
    <3> QED
      BY <1>1, <2>6, <3>1 DEF SealRows, States, Captured
  <2>7. CASE s.op = "noresult"
    <3>1. /\ seal.state \in {"SEALED_RAW_CAPTURED", "SEALED_NO_RESULT"}
          /\ seal' = [seal EXCEPT !.state = "SEALED_NO_RESULT"]
      BY <1>1, <1>3, <2>1, <2>7, LandsFacts, WrittenFacts
    <3> QED
      BY <1>1, <2>7, <3>1 DEF SealRows, States, Captured
  <2>8. CASE s.op = "complete"
    <3>1. /\ seal.state \in Captured
          /\ seal' = [seal EXCEPT !.state = "COMPLETE"]
      BY <1>1, <1>3, <2>1, <2>8, LandsFacts, WrittenFacts
    <3> QED
      BY <1>1, <2>8, <3>1 DEF SealRows, States, Captured
  <2> QED
    BY <1>1, <2>3, <2>4, <2>5, <2>6, <2>7, <2>8 DEF StatementRows, Statements
<1> QED
  BY <1>2, <1>3

\* The seal's own invariant, as far as a statement that changes no history can
\* disturb it.
LEMMA StatementKeeps ==
    ASSUME OneLookAssumption, LookTypes, SealInv, NEW s, Valid(s), Execute(s)
    PROVE  /\ seal'.state = "NONE" => seal' = NoSeal
           /\ seal'.state # "NONE" => seal'.claimant \in Jobs /\ seal'.pin \in Pins
           /\ seal'.state \in Captured =>
                 /\ seal'.raw \in Versions /\ seal'.raw \in reported
                 /\ seal'.snapshot = [rows |-> seal'.raw, pin |-> seal'.pin]
           /\ seal'.state \notin Captured =>
                 seal'.snapshot = NoSnapshot /\ results = {} /\ artifacts = {}
           /\ seal'.state = "COMPLETE" => results # {}
           /\ \A r \in results \cup artifacts : r = seal'.snapshot
           /\ \A x \in exposed : /\ closed /\ seal'.raw \in Versions
                                 /\ x = [job |-> seal'.claimant, rows |-> seal'.raw]
<1>1. s \in StatementRows /\ seal \in SealRows
  BY DEF Valid, LookTypes
<1>2. CASE ~Lands(s)
  BY <1>2 DEF Execute, SealInv
<1>3. CASE Lands(s)
  <2>1. seal' = Written(s)
    BY <1>3 DEF Execute
  <2>2. NoRows \notin Versions
    BY DEF NoRows, Versions, OneLookAssumption
  <2>3. CASE s.op = "claim"
    <3>1. seal.state = "NONE" /\ seal' = [NoSeal EXCEPT !.claimant = s.job, !.pin = s.pin,
                                                      !.state = "CLAIMED"]
      BY <1>1, <1>3, <2>1, <2>3, LandsFacts, WrittenFacts
    <3>2. seal = NoSeal /\ results = {} /\ artifacts = {} /\ exposed = {}
      BY <2>2, <3>1 DEF SealInv, Captured, NoSeal
    <3>3. seal' = [claimant |-> s.job, pin |-> s.pin, raw |-> NoRows,
                   snapshot |-> NoSnapshot, state |-> "CLAIMED"]
      BY <3>1 DEF NoSeal
    <3> QED
      BY <1>1, <2>3, <3>2, <3>3 DEF Valid, StatementRows, Captured
  <2>4. CASE s.op = "read"
    <3>1. /\ seal.state = "CLAIMED" /\ seal.raw = NoRows
          /\ seal' = [seal EXCEPT !.raw = population]
      BY <1>1, <1>3, <2>1, <2>4, LandsFacts, WrittenFacts
    <3>2. exposed = {}
      BY <2>2, <3>1 DEF SealInv
    <3> QED
      BY <1>1, <3>1, <3>2 DEF SealInv, SealRows, Captured
  <2>5. CASE s.op = "capture"
    <3>1. /\ seal.state = "CLAIMED"
          /\ seal' = [seal EXCEPT !.snapshot = [rows |-> s.rows, pin |-> s.pin],
                                  !.state = "SEALED_RAW_CAPTURED"]
      BY <1>1, <1>3, <2>1, <2>5, LandsFacts, WrittenFacts
    <3>2. results = {} /\ artifacts = {}
      BY <3>1 DEF SealInv, Captured
    <3> QED
      BY <1>1, <2>5, <3>1, <3>2 DEF SealInv, SealRows, Valid, Captured
  <2>6. CASE s.op = "fail"
    <3>1. /\ seal.state \in {"CLAIMED", "CAPTURE_FAILED"}
          /\ seal' = [seal EXCEPT !.state = "CAPTURE_FAILED"]
      BY <1>1, <1>3, <2>1, <2>6, LandsFacts, WrittenFacts
    <3> QED
      BY <1>1, <3>1 DEF SealInv, SealRows, Captured
  <2>7. CASE s.op = "noresult"
    <3>1. /\ seal.state \in {"SEALED_RAW_CAPTURED", "SEALED_NO_RESULT"}
          /\ seal' = [seal EXCEPT !.state = "SEALED_NO_RESULT"]
      BY <1>1, <1>3, <2>1, <2>7, LandsFacts, WrittenFacts
    <3> QED
      BY <1>1, <3>1 DEF SealInv, SealRows, Captured
  <2>8. CASE s.op = "complete"
    <3>1. /\ seal.state \in Captured /\ results # {}
          /\ seal' = [seal EXCEPT !.state = "COMPLETE"]
      BY <1>1, <1>3, <2>1, <2>8, LandsFacts, WrittenFacts DEF Valid
    <3> QED
      BY <1>1, <3>1 DEF SealInv, SealRows, Captured
  <2> QED
    BY <1>1, <2>3, <2>4, <2>5, <2>6, <2>7, <2>8 DEF StatementRows, Statements
<1> QED
  BY <1>2, <1>3

-----------------------------------------------------------------------------
(* Steps.                                                                  *)

\* What a step of job i, or a statement of its, leaves to all the others.
StepFrame(i) ==
    /\ \A j \in Jobs \ {i} : /\ pc'[j] = pc[j] /\ pin'[j] = pin[j]
                             /\ expected'[j] = expected[j] /\ evidence'[j] = evidence[j]
    /\ i \in Jobs /\ pc[i] \in Ended => pc'[i] = pc[i]
    /\ closed => closed'
    /\ reported \subseteq reported' /\ results \subseteq results'
    /\ seal.state # "NONE" =>
          seal'.state # "NONE" /\ seal'.claimant = seal.claimant /\ seal'.pin = seal.pin
    /\ seal.raw # NoRows => seal'.raw = seal.raw
    /\ seal.state \in Captured => seal'.state \in Captured /\ seal'.snapshot = seal.snapshot
    /\ seal.state = "CLAIMED" /\ seal.claimant # i => seal' = seal

LEMMA OthersKeep ==
    ASSUME OneLookAssumption, LookInv, NEW i, StepFrame(i), NEW j \in Jobs \ {i}
    PROVE  Stage(j)'
<1>1. /\ Stage(j) /\ LookTypes
      /\ pc'[j] = pc[j] /\ pin'[j] = pin[j] /\ expected'[j] = expected[j]
      /\ evidence'[j] = evidence[j]
  BY DEF LookInv, StepFrame
<1>2. Holds(j) => Holds(j)' /\ seal' = seal
  BY <1>1 DEF Holds, StepFrame
<1>3. Result(j)' = Result(j)
  BY <1>1 DEF Result
<1> QED
  BY <1>1, <1>2, <1>3 DEF Stage, StepFrame

LEMMA StraysKeep ==
    ASSUME OneLookAssumption, LookInv, NEW i, StepFrame(i), NEW t \in strays
    PROVE  Stray(t)'
<1>1. Stray(t) /\ LookTypes /\ SealInv /\ t \in StatementRows
  BY DEF LookInv, Stray, Valid
<1>2. pc'[t.job] \in Ended
  BY <1>1 DEF Stray, StatementRows, StepFrame
<1>3. seal.claimant = t.job => seal.state # "NONE"
  BY <1>1 DEF SealInv, NoSeal, OneLookAssumption, StatementRows
<1>4. t.rows \in Versions => t.rows # NoRows
  BY DEF Versions, NoRows, OneLookAssumption
<1> QED
  BY <1>1, <1>2, <1>3, <1>4 DEF Stray, Valid, StepFrame

LEMMA StepKeeps ==
    ASSUME OneLookAssumption, LookInv, NEW i, StepFrame(i), LookTypes', SealInv',
           i \in Jobs => Stage(i)',
           \A t \in strays' \ strays : Stray(t)'
    PROVE  LookInv'
BY OthersKeep, StraysKeep DEF LookInv

\* A job past none of its statements that has ended leaves a Valid one behind.
LEMMA LeavesValid ==
    ASSUME OneLookAssumption, LookInv, NEW j \in Jobs, pc[j] \notin Ended, Strays(j),
           NEW label \in {"failed", "killed"}, Goto(j, label),
           UNCHANGED <<closed, population, reported, seal, pin, expected, evidence, artifacts,
                       exposed, results>>
    PROVE  LookInv'
<1>1. LookTypes /\ SealInv
  BY DEF LookInv
<1>2. pc'[j] = label /\ \A k \in Jobs \ {j} : pc'[k] = pc[k]
  BY <1>1 DEF LookTypes, Goto
<1>3. pc[j] \in Statements => Valid(Statement(j))
  BY StatementIsValid
<1>4. \A t \in strays' \ strays : Stray(t)'
  <2> SUFFICES ASSUME NEW t \in strays' \ strays PROVE Stray(t)'
    OBVIOUS
  <2>1. Valid(t) /\ t.job = j
    BY <1>3 DEF Strays, Statement
  <2>2. Valid(t)'
    BY <2>1 DEF Valid
  <2> QED
    BY <1>2, <2>1, <2>2 DEF Stray, Ended
<1>5. LookTypes'
  <2>1. strays' \subseteq StatementRows
    BY <1>1, <1>3 DEF LookTypes, Strays, Valid
  <2>2. pc' \in [Jobs -> Places]
    BY <1>1 DEF LookTypes, Goto, Places, Ended
  <2> QED
    BY <1>1, <2>1, <2>2 DEF LookTypes
<1>6. SealInv'
  BY <1>1 DEF SealInv
<1>7. StepFrame(j)
  BY <1>2 DEF StepFrame
<1>8. Stage(j)'
  BY <1>2 DEF Stage, Statements
<1> QED
  BY <1>4, <1>5, <1>6, <1>7, <1>8, StepKeeps

LEMMA AnsweredKeeps ==
    ASSUME OneLookAssumption, LookInv, NEW j \in Jobs, Answered(j)
    PROVE  LookInv'
<1> DEFINE s == Statement(j)
<1>1. /\ LookTypes /\ SealInv /\ Stage(j) /\ pc[j] \in Statements
  BY DEF LookInv, Answered
<1>2. /\ Valid(s) /\ s \in StatementRows
      /\ s.op = pc[j] /\ s.job = j /\ s.pin = pin[j] /\ s.rows = evidence[j]
  BY <1>1, StatementIsValid DEF Valid, Statement
<1>3. /\ Execute(s) /\ Goto(j, AfterReply(s.op, Lands(s)))
      /\ IF s.op = "read" /\ Lands(s)
         THEN /\ evidence' = [evidence EXCEPT ![j] = population]
              /\ exposed' = exposed \cup {[job |-> j, rows |-> population]}
         ELSE UNCHANGED <<evidence, exposed>>
      /\ artifacts' = IF s.op = "capture" /\ Lands(s)
                      THEN artifacts \cup {[rows |-> s.rows, pin |-> s.pin]} ELSE artifacts
      /\ UNCHANGED <<closed, population, reported, pin, expected, strays, results>>
  BY DEF Answered
<1> HIDE DEF s
<1>4. /\ seal' \in SealRows
      /\ seal.state # "NONE" =>
            seal'.state # "NONE" /\ seal'.claimant = seal.claimant /\ seal'.pin = seal.pin
      /\ seal.raw # NoRows => seal'.raw = seal.raw
      /\ seal.state \in Captured => seal'.state \in Captured /\ seal'.snapshot = seal.snapshot
      /\ seal.state = "CLAIMED" /\ seal.claimant # j => seal' = seal
      /\ s.op = "read" /\ Lands(s) =>
            seal'.raw = population /\ seal'.state = "CLAIMED" /\ seal'.claimant = seal.claimant
      /\ s.op = "capture" /\ Lands(s) =>
            /\ seal'.snapshot = [rows |-> s.rows, pin |-> s.pin]
            /\ seal'.state = "SEALED_RAW_CAPTURED"
      /\ s.op = "claim" /\ Lands(s) =>
            seal' = [NoSeal EXCEPT !.claimant = s.job, !.pin = s.pin, !.state = "CLAIMED"]
  BY <1>1, <1>2, <1>3, StatementFrame
<1>5. /\ pc'[j] = AfterReply(pc[j], Lands(s))
      /\ evidence'[j] = IF pc[j] = "read" /\ Lands(s) THEN population ELSE evidence[j]
      /\ \A k \in Jobs \ {j} : pc'[k] = pc[k] /\ evidence'[k] = evidence[k]
  BY <1>1, <1>2, <1>3 DEF LookTypes, Goto
<1>6. Lands(s) => /\ pc[j] = "read" => seal.state = "CLAIMED" /\ seal.raw = NoRows
                  /\ pc[j] = "capture" => seal.state = "CLAIMED" /\ seal.raw # NoRows
                  /\ pc[j] = "claim" => seal.state = "NONE"
  BY <1>2, LandsFacts
<1>7. AfterReply(pc[j], Lands(s)) =
        CASE pc[j] = "claim" -> IF Lands(s) THEN "read" ELSE "refused"
          [] pc[j] = "read" -> IF Lands(s) THEN "examine" ELSE "failed"
          [] pc[j] = "capture" -> IF Lands(s) THEN "compute" ELSE "fail"
          [] OTHER -> "done"
  BY DEF AfterReply
<1>8. LookTypes'
  <2>1. pc' \in [Jobs -> Places]
    <3>1. AfterReply(pc[j], Lands(s)) \in Places
      BY <1>1, <1>7 DEF Places, Statements, Ended
    <3> QED
      BY <1>1, <1>2, <1>3, <3>1 DEF LookTypes, Goto
  <2>2. evidence' \in [Jobs -> Versions \cup {NoRows}]
    BY <1>1, <1>3 DEF LookTypes
  <2>3. artifacts' \subseteq Snapshots
    <3>1. CASE s.op = "capture" /\ Lands(s)
      <4>1. s.rows \in Versions /\ s.pin = seal.pin /\ seal.pin \in Pins
        BY <1>2, <1>6, <3>1 DEF Valid, SealInv, LookInv
      <4> QED
        BY <1>1, <1>3, <3>1, <4>1 DEF LookTypes, Snapshots
    <3>2. CASE ~(s.op = "capture" /\ Lands(s))
      BY <1>1, <1>3, <3>2 DEF LookTypes
    <3> QED
      BY <3>1, <3>2
  <2> QED
    BY <1>1, <1>3, <1>4, <2>1, <2>2, <2>3 DEF LookTypes
<1>9. SealInv'
  <2>1. /\ seal'.state = "NONE" => seal' = NoSeal
        /\ seal'.state # "NONE" => seal'.claimant \in Jobs /\ seal'.pin \in Pins
        /\ seal'.state \in Captured =>
              /\ seal'.raw \in Versions /\ seal'.raw \in reported
              /\ seal'.snapshot = [rows |-> seal'.raw, pin |-> seal'.pin]
        /\ seal'.state \notin Captured =>
              seal'.snapshot = NoSnapshot /\ results = {} /\ artifacts = {}
        /\ seal'.state = "COMPLETE" => results # {}
        /\ \A r \in results \cup artifacts : r = seal'.snapshot
        /\ \A x \in exposed : /\ closed /\ seal'.raw \in Versions
                              /\ x = [job |-> seal'.claimant, rows |-> seal'.raw]
    BY <1>1, <1>2, <1>3, StatementKeeps
  <2>2. /\ \A a \in artifacts' : a = seal'.snapshot
        /\ seal'.state \notin Captured => artifacts' = {}
    BY <1>3, <1>4, <2>1 DEF Captured
  <2>3. \A x \in exposed' : /\ closed' /\ seal'.raw \in Versions
                            /\ x = [job |-> seal'.claimant, rows |-> seal'.raw]
    <3>1. CASE s.op = "read" /\ Lands(s)
      <4>1. closed /\ seal.claimant = j
        BY <1>1, <1>2, <3>1 DEF Stage, Holds
      <4>2. seal'.raw = population /\ seal'.claimant = j /\ population \in Versions
        BY <1>1, <1>4, <3>1, <4>1 DEF LookTypes
      <4> QED
        BY <1>3, <2>1, <3>1, <4>1, <4>2
    <3>2. CASE ~(s.op = "read" /\ Lands(s))
      BY <1>3, <2>1, <3>2
    <3> QED
      BY <3>1, <3>2
  <2> QED
    BY <1>3, <2>1, <2>2, <2>3 DEF SealInv
<1>10. StepFrame(j)
  BY <1>1, <1>3, <1>4, <1>5 DEF StepFrame, Statements, Ended
<1>11. Stage(j)'
  <2>1. CASE pc[j] = "claim" /\ Lands(s)
    <3>1. pc'[j] = "read" /\ closed /\ expected[j] \in reported
      BY <1>1, <1>5, <1>7, <2>1 DEF Stage
    <3>2. seal'.claimant = j /\ seal'.pin = pin[j] /\ seal'.raw = NoRows /\ seal'.state = "CLAIMED"
      BY <1>2, <1>4, <2>1 DEF NoSeal
    <3> QED
      BY <1>3, <3>1, <3>2 DEF Stage, Holds
  <2>2. CASE pc[j] = "read" /\ Lands(s)
    <3>1. pc'[j] = "examine" /\ Holds(j) /\ evidence'[j] = population
      BY <1>1, <1>5, <1>7, <2>2 DEF Stage
    <3>2. Holds(j)' /\ seal'.raw = population
      BY <1>2, <1>3, <1>4, <2>2, <3>1 DEF Holds
    <3> QED
      BY <1>1, <3>1, <3>2 DEF Stage, LookTypes
  <2>3. CASE pc[j] = "capture" /\ Lands(s)
    <3>1. pc'[j] = "compute" /\ evidence'[j] = evidence[j] /\ pin'[j] = pin[j]
      BY <1>3, <1>5, <1>7, <2>3
    <3>2. seal'.state \in Captured /\ seal'.snapshot = [rows |-> evidence[j], pin |-> pin[j]]
      BY <1>2, <1>4, <2>3 DEF Captured
    <3> QED
      BY <3>1, <3>2 DEF Stage, Result
  <2>4. CASE pc[j] = "capture" /\ ~Lands(s)
    <3>1. pc'[j] = "fail" /\ evidence'[j] = evidence[j] /\ seal' = seal
      BY <1>2, <1>3, <1>5, <1>7, <2>4 DEF Execute
    <3>2. Holds(j) /\ seal.raw = evidence[j] /\ evidence[j] \in Versions
      BY <1>1, <2>4 DEF Stage
    <3> QED
      BY <1>3, <3>1, <3>2 DEF Stage, Holds
  <2>5. CASE pc'[j] \in Ended
    BY <2>5 DEF Stage, Ended
  <2> QED
    BY <1>5, <1>7, <2>1, <2>2, <2>3, <2>4, <2>5 DEF Ended
<1> QED
  BY <1>3, <1>8, <1>9, <1>10, <1>11, StepKeeps

LEMMA StrayEndsKeeps ==
    ASSUME OneLookAssumption, LookInv, NEW s \in strays, StrayEnds(s)
    PROVE  LookInv'
<1>1. /\ LookTypes /\ SealInv /\ Valid(s) /\ s \in StatementRows /\ s.job \in Jobs
      /\ pc[s.job] \in Ended
  BY DEF LookInv, Stray, Valid, StatementRows
<1>2. /\ Execute(s) \/ seal' = seal
      /\ strays' \subseteq strays
      /\ UNCHANGED <<closed, population, reported, pc, pin, expected, evidence, artifacts,
                     exposed, results>>
  BY DEF StrayEnds, jobVars
<1>3. /\ seal' \in SealRows
      /\ seal.state # "NONE" =>
            seal'.state # "NONE" /\ seal'.claimant = seal.claimant /\ seal'.pin = seal.pin
      /\ seal.raw # NoRows => seal'.raw = seal.raw
      /\ seal.state \in Captured => seal'.state \in Captured /\ seal'.snapshot = seal.snapshot
      /\ seal.state = "CLAIMED" /\ seal.claimant # s.job => seal' = seal
  BY <1>1, <1>2, StatementFrame DEF LookTypes
<1>4. LookTypes'
  BY <1>1, <1>2, <1>3 DEF LookTypes
<1>5. SealInv'
  <2>1. CASE Execute(s)
    BY <1>1, <1>2, <2>1, StatementKeeps DEF SealInv
  <2>2. CASE seal' = seal
    BY <1>1, <1>2, <2>2 DEF SealInv
  <2> QED
    BY <1>2, <2>1, <2>2
<1>6. StepFrame(s.job)
  BY <1>2, <1>3 DEF StepFrame
<1>7. Stage(s.job)'
  BY <1>1, <1>2 DEF Stage, Statements, Ended
<1> QED
  BY <1>2, <1>4, <1>5, <1>6, <1>7, StepKeeps

\* T_close, the population and readiness move beside the jobs.
LEMMA WorldKeeps ==
    ASSUME OneLookAssumption, LookInv, Close \/ Drift \/ Readiness
    PROVE  LookInv'
<1>1. LookTypes /\ SealInv
  BY DEF LookInv
<1>2. /\ closed => closed'
      /\ closed' \in BOOLEAN /\ population' \in Versions /\ reported \subseteq reported'
      /\ reported' \subseteq Versions
      /\ UNCHANGED <<seal, pc, pin, expected, evidence, strays, artifacts, exposed, results>>
  <2>1. CASE Close
    BY <1>1, <2>1 DEF LookTypes, Close, jobVars
  <2>2. CASE Drift
    <3>1. population' \in Versions
      BY <1>1, <2>2 DEF LookTypes, Drift, Versions, OneLookAssumption
    <3> QED
      BY <1>1, <2>2, <3>1 DEF LookTypes, Drift, jobVars
  <2>3. CASE Readiness
    BY <1>1, <2>3 DEF LookTypes, Readiness, jobVars
  <2> QED
    BY <2>1, <2>2, <2>3
<1>3. LookTypes'
  BY <1>1, <1>2 DEF LookTypes
<1>4. SealInv'
  BY <1>1, <1>2 DEF SealInv
<1>5. StepFrame(Nobody)
  BY <1>2 DEF StepFrame, OneLookAssumption
<1> QED
  BY <1>2, <1>3, <1>4, <1>5, StepKeeps DEF OneLookAssumption

LEMMA AuditKeeps ==
    ASSUME OneLookAssumption, LookInv, NEW a \in artifacts, Audit(a)
    PROVE  LookInv'
<1>1. LookTypes /\ SealInv
  BY DEF LookInv
<1>2. /\ results' = results \cup {a}
      /\ UNCHANGED <<closed, population, reported, seal, pc, pin, expected, evidence, strays,
                     artifacts, exposed>>
  BY DEF Audit, jobVars
<1>3. seal.state \in Captured /\ a = seal.snapshot
  BY <1>1 DEF SealInv
<1>4. LookTypes'
  BY <1>1, <1>2 DEF LookTypes
<1>5. SealInv'
  BY <1>1, <1>2, <1>3 DEF SealInv
<1>6. StepFrame(Nobody)
  BY <1>2 DEF StepFrame, OneLookAssumption
<1> QED
  BY <1>2, <1>4, <1>5, <1>6, StepKeeps DEF OneLookAssumption

\* A step that changes nothing but its job's own state.
LEMMA OwnStepKeeps ==
    ASSUME OneLookAssumption, LookInv, NEW j \in Jobs, pc[j] \notin Ended,
           NEW label \in Places, Goto(j, label),
           UNCHANGED <<closed, population, reported, seal, strays, artifacts, exposed, results>>,
           pin' \in [Jobs -> Pins \cup {NoPin}],
           expected' \in [Jobs -> Versions \cup {NoRows}],
           evidence' \in [Jobs -> Versions \cup {NoRows}],
           \A k \in Jobs \ {j} : /\ pin'[k] = pin[k] /\ expected'[k] = expected[k]
                                  /\ evidence'[k] = evidence[k],
           pc'[j] = label => Stage(j)'
    PROVE  LookInv'
<1>1. LookTypes /\ SealInv
  BY DEF LookInv
<1>2. /\ pc' \in [Jobs -> Places] /\ pc'[j] = label
      /\ \A k \in Jobs \ {j} : pc'[k] = pc[k]
  BY <1>1 DEF LookTypes, Goto
<1>3. LookTypes'
  BY <1>1, <1>2 DEF LookTypes
<1>4. SealInv'
  BY <1>1 DEF SealInv
<1>5. StepFrame(j)
  BY <1>2 DEF StepFrame
<1> QED
  BY <1>2, <1>3, <1>4, <1>5, StepKeeps

LEMMA ConsumeKeeps ==
    ASSUME OneLookAssumption, LookInv, NEW j \in Jobs, Consume(j)
    PROVE  LookInv'
<1>1. LookTypes /\ Stage(j)
  BY DEF LookInv
<1>2. PICK p \in Pins, id \in reported :
          pin' = [pin EXCEPT ![j] = p] /\ expected' = [expected EXCEPT ![j] = id]
  BY DEF Consume
<1>3. PICK label \in {"compare", "refused"} : Goto(j, label)
  BY DEF Consume
<1>4. /\ pc[j] = "new" /\ closed
      /\ UNCHANGED <<closed, population, reported, seal, evidence, strays, artifacts, exposed,
                     results>>
  BY DEF Consume
<1>5. /\ pin' \in [Jobs -> Pins \cup {NoPin}] /\ pin'[j] = p
      /\ expected' \in [Jobs -> Versions \cup {NoRows}] /\ expected'[j] = id
      /\ \A k \in Jobs \ {j} : pin'[k] = pin[k] /\ expected'[k] = expected[k]
  BY <1>1, <1>2 DEF LookTypes
<1>6. pc'[j] = label => Stage(j)'
  BY <1>1, <1>3, <1>4, <1>5 DEF Stage, Statements
<1>7. pc[j] \notin Ended /\ label \in Places
  BY <1>4 DEF Ended, Places
<1> QED
  BY <1>1, <1>3, <1>4, <1>5, <1>6, <1>7, OwnStepKeeps DEF LookTypes

LEMMA CompareKeeps ==
    ASSUME OneLookAssumption, LookInv, NEW j \in Jobs, Compare(j)
    PROVE  LookInv'
<1>1. LookTypes /\ Stage(j)
  BY DEF LookInv
<1>2. PICK label \in {"claim", "refused"} : Goto(j, label)
  BY DEF Compare
<1>3. /\ pc[j] = "compare"
      /\ UNCHANGED <<closed, population, reported, seal, pin, expected, evidence, strays,
                     artifacts, exposed, results>>
  BY DEF Compare
<1>4. pc'[j] = label => Stage(j)'
  BY <1>1, <1>2, <1>3 DEF Stage, Statements
<1>5. pc[j] \notin Ended /\ label \in Places
  BY <1>3 DEF Ended, Places, Statements
<1> QED
  BY <1>1, <1>2, <1>3, <1>4, <1>5, OwnStepKeeps DEF LookTypes

LEMMA ExamineKeeps ==
    ASSUME OneLookAssumption, LookInv, NEW j \in Jobs, Examine(j)
    PROVE  LookInv'
<1>1. LookTypes /\ Stage(j)
  BY DEF LookInv
<1>2. PICK label \in {"capture", "fail"} :
          Goto(j, label) /\ (label = "capture" => evidence[j] = expected[j])
  BY DEF Examine
<1>3. /\ pc[j] = "examine"
      /\ UNCHANGED <<closed, population, reported, seal, pin, expected, evidence, strays,
                     artifacts, exposed, results>>
  BY DEF Examine
<1>4. pc'[j] = label => Stage(j)'
  BY <1>1, <1>2, <1>3 DEF Stage, Holds, Statements
<1>5. pc[j] \notin Ended /\ label \in Places
  BY <1>3 DEF Ended, Places, Statements
<1> QED
  BY <1>1, <1>2, <1>3, <1>4, <1>5, OwnStepKeeps DEF LookTypes

LEMMA ComputeFailsKeeps ==
    ASSUME OneLookAssumption, LookInv, NEW j \in Jobs, ComputeFails(j)
    PROVE  LookInv'
<1>1. LookTypes /\ Stage(j)
  BY DEF LookInv
<1>2. /\ pc[j] = "compute" /\ Goto(j, "noresult")
      /\ UNCHANGED <<closed, population, reported, seal, pin, expected, evidence, strays,
                     artifacts, exposed, results>>
  BY DEF ComputeFails
<1>3. pc'[j] = "noresult" => Stage(j)'
  BY DEF Stage
<1>4. pc[j] \notin Ended /\ "noresult" \in Places
  BY <1>2 DEF Ended, Places, Statements
<1> QED
  BY <1>1, <1>2, <1>3, <1>4, OwnStepKeeps DEF LookTypes

LEMMA RecoverKeeps ==
    ASSUME OneLookAssumption, LookInv, NEW j \in Jobs, Recover(j)
    PROVE  LookInv'
<1>1. LookTypes /\ SealInv /\ Stage(j)
  BY DEF LookInv
<1>2. PICK p \in Pins :
          /\ pin' = [pin EXCEPT ![j] = p]
          /\ IF Recoverable(p)
             THEN /\ evidence' = [evidence EXCEPT ![j] = seal.snapshot.rows]
                  /\ Goto(j, IF seal.state = "COMPLETE" THEN "repeat" ELSE "recompute")
             ELSE Goto(j, "refused") /\ UNCHANGED evidence
  BY DEF Recover
<1>3. /\ pc[j] = "new"
      /\ UNCHANGED <<closed, population, reported, seal, expected, strays, artifacts, exposed,
                     results>>
  BY DEF Recover
<1>4. pin' \in [Jobs -> Pins \cup {NoPin}] /\ pin'[j] = p
      /\ \A k \in Jobs \ {j} : pin'[k] = pin[k]
  BY <1>1, <1>2 DEF LookTypes
<1>5. pc[j] \notin Ended
  BY <1>3 DEF Ended
<1>6. CASE Recoverable(p)
  <2>1. PICK label \in {"repeat", "recompute"} : Goto(j, label)
    BY <1>2, <1>6
  <2>2. /\ seal.state \in Captured
        /\ seal.snapshot = [rows |-> seal.raw, pin |-> p] /\ seal.snapshot.rows \in Versions
    BY <1>1, <1>6 DEF SealInv, Recoverable
  <2>3. /\ evidence' \in [Jobs -> Versions \cup {NoRows}] /\ evidence'[j] = seal.snapshot.rows
        /\ \A k \in Jobs \ {j} : evidence'[k] = evidence[k]
    BY <1>1, <1>2, <1>6, <2>2 DEF LookTypes
  <2>4. pc'[j] = label => Stage(j)'
    BY <1>3, <1>4, <2>2, <2>3 DEF Stage, Result
  <2>5. label \in Places
    BY DEF Places
  <2> QED
    BY <1>1, <1>3, <1>4, <1>5, <2>1, <2>3, <2>4, <2>5, OwnStepKeeps DEF LookTypes
<1>7. CASE ~Recoverable(p)
  <2>1. Goto(j, "refused") /\ UNCHANGED evidence
    BY <1>2, <1>7
  <2>2. pc'[j] = "refused" => Stage(j)'
    BY DEF Stage
  <2>3. "refused" \in Places
    BY DEF Places, Ended
  <2> QED
    BY <1>1, <1>3, <1>4, <1>5, <2>1, <2>2, <2>3, OwnStepKeeps DEF LookTypes
<1> QED
  BY <1>6, <1>7

\* A result is computed from the captured snapshot, by whomever.
LEMMA ResultKeeps ==
    ASSUME OneLookAssumption, LookInv, NEW j \in Jobs, Compute(j) \/ Recompute(j)
    PROVE  LookInv'
<1>1. LookTypes /\ SealInv /\ Stage(j)
  BY DEF LookInv
<1>2. PICK label \in {"complete", "done"} : Goto(j, label)
  BY DEF Compute, Recompute
<1>3. /\ pc[j] \in {"compute", "recompute", "repeat"} /\ results' = results \cup {Result(j)}
      /\ UNCHANGED <<closed, population, reported, seal, pin, expected, evidence, strays,
                     artifacts, exposed>>
  BY DEF Compute, Recompute
<1>4. seal.state \in Captured /\ seal.snapshot = Result(j)
  BY <1>1, <1>3 DEF Stage
<1>5. pc' \in [Jobs -> Places] /\ pc'[j] = label /\ \A k \in Jobs \ {j} : pc'[k] = pc[k]
  BY <1>1, <1>2 DEF LookTypes, Goto, Places, Statements, Ended
<1>6. LookTypes'
  BY <1>1, <1>3, <1>5 DEF LookTypes
<1>7. SealInv'
  BY <1>1, <1>3, <1>4 DEF SealInv
<1>8. StepFrame(j)
  BY <1>3, <1>5 DEF StepFrame, Ended
<1>9. Stage(j)'
  BY <1>3, <1>5 DEF Stage
<1> QED
  BY <1>3, <1>6, <1>7, <1>8, <1>9, StepKeeps

\* The job is gone; its statement, if it had one, is a stray.
LEMMA LeftKeeps ==
    ASSUME OneLookAssumption, LookInv, NEW j \in Jobs, Unanswered(j) \/ Killed(j)
    PROVE  LookInv'
<1>1. pc[j] \notin Ended /\ Strays(j)
  BY DEF Unanswered, Killed, Statements, Ended
<1>2. PICK label \in {"failed", "killed"} : Goto(j, label)
  BY DEF Unanswered, Killed
<1>3. UNCHANGED <<closed, population, reported, seal, pin, expected, evidence, artifacts,
                  exposed, results>>
  BY DEF Unanswered, Killed
<1> QED
  BY <1>1, <1>2, <1>3, LeavesValid

LEMMA InitLookInv ==
    ASSUME OneLookAssumption, OneLookInit
    PROVE  LookInv
<1>1. LookTypes
  <2>1. population \in Versions
    <3>1. 0 \in Versions
      BY DEF OneLookAssumption, Versions
    <3> QED
      BY <3>1 DEF OneLookInit
  <2>2. seal \in SealRows
    <3>1. NoSnapshot \in Snapshots \cup {NoSnapshot} /\ "NONE" \in States
      BY DEF States
    <3>2. NoSeal \in SealRows
      BY <3>1 DEF NoSeal, SealRows
    <3> QED
      BY <3>2 DEF OneLookInit
  <2>3. pc \in [Jobs -> Places]
    BY DEF OneLookInit, Places
  <2> QED
    BY <2>1, <2>2, <2>3 DEF OneLookInit, LookTypes
<1>2. SealInv
  BY DEF OneLookInit, SealInv, NoSeal, Captured
<1>3. \A j \in Jobs : Stage(j)
  BY DEF OneLookInit, Stage
<1> QED
  BY <1>1, <1>2, <1>3 DEF OneLookInit, LookInv

LEMMA NextLookInv ==
    ASSUME OneLookAssumption, LookInv, OneLookNext
    PROVE  LookInv'
<1>1. CASE Close \/ Drift \/ Readiness
  BY <1>1, WorldKeeps
<1>2. CASE \E j \in Jobs : Consume(j) \/ Compare(j) \/ Answered(j)
  BY <1>2, ConsumeKeeps, CompareKeeps, AnsweredKeeps
<1>3. CASE \E j \in Jobs : Unanswered(j) \/ Killed(j)
  BY <1>3, LeftKeeps
<1>4. CASE \E j \in Jobs : Examine(j) \/ ComputeFails(j) \/ Recover(j)
  BY <1>4, ExamineKeeps, ComputeFailsKeeps, RecoverKeeps
<1>5. CASE \E j \in Jobs : Compute(j) \/ Recompute(j)
  BY <1>5, ResultKeeps
<1>6. CASE \E s \in strays : StrayEnds(s)
  BY <1>6, StrayEndsKeeps
<1>7. CASE \E a \in artifacts : Audit(a)
  BY <1>7, AuditKeeps
<1> QED
  BY <1>1, <1>2, <1>3, <1>4, <1>5, <1>6, <1>7 DEF OneLookNext

LEMMA StutterIInv ==
    ASSUME LookInv, UNCHANGED vars
    PROVE  LookInv'
<1>1. LookTypes' /\ SealInv'
  BY DEF LookInv, vars, jobVars, LookTypes, SealInv
<1>2. \A j \in Jobs : Stage(j)'
  BY DEF LookInv, vars, jobVars, Stage, Holds, Result
<1>3. \A s \in strays : Stray(s)'
  BY DEF LookInv, vars, jobVars, Stray, Valid
<1> QED
  BY <1>1, <1>2, <1>3 DEF LookInv, vars

\* The inductive invariant of the one look.
THEOREM OneLookInvariant == OneLookSpec => []LookInv
<1>1. OneLookInit => LookInv
  BY OneLookAssumption, InitLookInv
<1>2. LookInv /\ [OneLookNext]_vars => LookInv'
  BY OneLookAssumption, NextLookInv, StutterIInv
<1> QED
  BY <1>1, <1>2, PTL DEF OneLookSpec

-----------------------------------------------------------------------------
(* What it implies.                                                        *)

\* The shape of the state and the checks of migration 0009 (OneLookTypeOK), for any
\* number of dispatches.
THEOREM OneLookTyped == OneLookSpec => []OneLookTypeOK
<1>1. LookInv => OneLookTypeOK
  <2> SUFFICES ASSUME LookInv PROVE OneLookTypeOK
    OBVIOUS
  <2>1. LookTypes /\ SealInv
    BY DEF LookInv
  <2>2. NoRows \notin Versions
    BY OneLookAssumption DEF NoRows, Versions
  <2>3. seal.state \in {"NONE", "CLAIMED"} => seal.snapshot = NoSnapshot
    BY <2>1 DEF SealInv, Captured
  <2>4. seal.state \in Captured => seal.raw # NoRows /\ seal.snapshot # NoSnapshot
    BY <2>1, <2>2 DEF SealInv, NoSnapshot
  <2> QED
    BY <2>1, <2>3, <2>4 DEF LookTypes, OneLookTypeOK, SealRows
<1> QED
  BY <1>1, OneLookInvariant, PTL

\* At most one job is ever handed the probabilities, the seal's claimant, and what it
\* was handed is what the seal records (ExposureIsRecorded).
THEOREM OneLookExposure == OneLookSpec => []ExposureIsRecorded
<1>1. LookInv => ExposureIsRecorded
  <2> SUFFICES ASSUME LookInv PROVE ExposureIsRecorded
    OBVIOUS
  <2> DEFINE only == [job |-> seal.claimant, rows |-> seal.raw]
  <2>1. \A x \in exposed : closed /\ x = only
    BY DEF LookInv, SealInv
  <2>2. exposed = {} \/ exposed = {only}
    BY <2>1
  <2>3. Cardinality(exposed) \in {0, 1}
    BY <2>2, FS_EmptySet, FS_Singleton, Zenon
  <2>4. Cardinality(exposed) <= 1
    BY <2>3
  <2> QED
    BY <2>1, <2>4 DEF ExposureIsRecorded
<1> QED
  BY <1>1, OneLookInvariant, PTL

\* Every result ever computed is of the rows the seal recorded, under the rules of the
\* claim (ResultsAgree).
THEOREM OneLookResults == OneLookSpec => []ResultsAgree
<1>1. LookInv => ResultsAgree
  <2> SUFFICES ASSUME LookInv, NEW r \in results
               PROVE  r.rows = seal.raw /\ r.pin = seal.pin /\ r.rows \in reported
    BY DEF ResultsAgree
  <2> QED
    BY DEF LookInv, SealInv
<1> QED
  BY <1>1, OneLookInvariant, PTL

\* What the state of the seal says of the existence of a result is so
\* (StateTellsResult).
THEOREM OneLookState == OneLookSpec => []StateTellsResult
<1>1. LookInv => StateTellsResult
  BY DEF LookInv, SealInv, StateTellsResult, Captured
<1> QED
  BY <1>1, OneLookInvariant, PTL

\* No step, of whichever job or lost statement, takes back a captured look or its
\* completion (CaptureIsKept).
THEOREM OneLookCapture == OneLookSpec => CaptureIsKept
<1> DEFINE Untaken == seal.state \in Captured =>
                     /\ seal'.state \in Captured /\ seal'.snapshot = seal.snapshot
                     /\ seal'.pin = seal.pin /\ seal'.raw = seal.raw
                     /\ seal.state = "COMPLETE" => seal' = seal
<1>1. LookInv => (seal.state \in Captured => Recoverable(seal.pin))
  <2> SUFFICES ASSUME LookInv, seal.state \in Captured PROVE Recoverable(seal.pin)
    OBVIOUS
  <2>1. /\ SealInv /\ seal.raw # NoRows
        /\ seal.snapshot = [rows |-> seal.raw, pin |-> seal.pin]
    BY OneLookAssumption DEF LookInv, SealInv, NoRows, Versions
  <2> QED
    BY <2>1 DEF Recoverable, NoSnapshot
<1>2. ASSUME LookInv, [OneLookNext]_vars PROVE Untaken
  <2>1. LookTypes /\ SealInv
    BY <1>2 DEF LookInv
  <2>2. ASSUME NEW s, Valid(s), Execute(s) PROVE Untaken
    <3>1. seal.state \in Captured => seal.raw # NoRows /\ seal.state # "NONE"
      BY <2>1, OneLookAssumption DEF SealInv, NoRows, Versions, Captured
    <3> QED
      BY <2>1, <2>2, <3>1, StatementFrame, OneLookAssumption
  <2>3. CASE seal' = seal
    BY <2>3
  <2>4. CASE \E j \in Jobs : Answered(j)
    <3>1. PICK j \in Jobs : Answered(j)
      BY <2>4
    <3> QED
      BY <1>2, <2>2, <3>1, StatementIsValid DEF Answered
  <2>5. CASE \E s \in strays : StrayEnds(s)
    BY <1>2, <2>2, <2>3, <2>5 DEF StrayEnds, LookInv, Stray
  <2>6. CASE UNCHANGED vars
    BY <2>3, <2>6 DEF vars
  <2> QED
    BY <1>2, <2>3, <2>4, <2>5, <2>6
       DEF OneLookNext, Close, Drift, Readiness, Consume, Compare, Unanswered, Killed,
           Examine, Compute, ComputeFails, Recover, Recompute, Audit
<1>3. LookInv /\ [OneLookNext]_vars => KeepsCapture
  <2> SUFFICES ASSUME LookInv, [OneLookNext]_vars, seal.state \in Captured
               PROVE  KeepsCapture
    BY DEF KeepsCapture
  <2>1. Recoverable(seal.pin)
    BY <1>1
  <2>2. Untaken
    BY <1>2
  <2>3. seal'.pin = seal.pin /\ seal'.raw = seal.raw /\ seal'.snapshot = seal.snapshot
    BY <2>2
  <2>4. Recoverable(seal.pin)'
    BY <2>1, <2>3 DEF Recoverable
  <2> QED
    BY <2>1, <2>2, <2>4 DEF KeepsCapture
<1> QED
  BY <1>3, OneLookInvariant, PTL DEF CaptureIsKept, OneLookSpec

\* The seal and the result tell one story, of one look.
THEOREM OneLookResultIsOne == OneLookSpec => []ResultIsOne
<1>1. ResultsAgree /\ StateTellsResult => ResultIsOne
  BY DEF ResultIsOne
<1> QED
  BY <1>1, OneLookResults, OneLookState, PTL
=============================================================================
