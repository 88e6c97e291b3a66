------------------------- MODULE SingleFlightProofs -------------------------
(* Theorems of SingleFlight for every number of callers and of attempts, and *)
(* every deadline.                                                           *)
EXTENDS SingleFlight, TLAPS

-----------------------------------------------------------------------------
(***************************************************************************)
(* The inductive invariant.  Table is the first half of CallsAreLed; Frame *)
(* says what a thread knows of its own request and of the exchange in its  *)
(* hand, and Waiting what a follower knows of the call it waits for: the   *)
(* leader still flies with the follower's identity, or the call says what  *)
(* Given allows.                                                           *)
(***************************************************************************)
Table ==
    \A k \in Keys, c \in Callers :
        calls[k] = c <=> phase[c] \in {"lead", "retire"} /\ key[c] = k

\* The exchange x is c's own, under the identity it asked for.
Mine(c, x) ==
    /\ x \in Exchange /\ x.by = c
    /\ x.signed <=> key[c] = c
    /\ asked[c] <= x.until

\* The exchange x of another caller may be given to c.
Given(c, x) ==
    /\ x \in Exchange /\ x.by # c
    /\ x.body = "json" /\ ~x.cookie /\ ~x.signed /\ ~jar[c]
    /\ asked[c] <= x.until

Frame(c) ==
    /\ key[c] \in {c, Anonymous}
    /\ phase[c] \in Flying \cup {"wait"} => key[c] = Identity(c)
    /\ phase[c] \in {"retire", "announce"} => Mine(c, got[c])
    /\ phase[c] = "judge" => Mine(c, got[c]) \/ Given(c, got[c])
    /\ phase[c] \notin {"retire", "announce", "judge"} => got[c] = Nothing
    /\ asked[c] <= version

\* c waits for a call that is still led.
Led(c) ==
    /\ call[c] = NotDone
    /\ phase[joined[c]] \in Leading /\ key[joined[c]] = key[c]
    /\ phase[joined[c]] = "announce" => asked[c] <= got[joined[c]].until

Waiting(c) ==
    /\ phase[c] # "wait" => call[c] = NotDone /\ joined[c] = Nobody
    /\ phase[c] = "wait" => joined[c] \in Callers /\ (Led(c) \/ call[c] = Nothing \/ Given(c, call[c]))

FlightInv == FlightTypeOK /\ Table /\ \A c \in Callers : Frame(c) /\ Waiting(c)

-----------------------------------------------------------------------------
LEMMA InitInv == Init => FlightInv
<1> SUFFICES ASSUME Init PROVE FlightInv
  OBVIOUS
<1>1. FlightTypeOK
  BY FlightAssumption DEF Init, FlightTypeOK, Phases, Leading, Keys, Results, Exchange
<1>2. Table
  BY FlightAssumption DEF Init, Table, Keys
<1>3. ASSUME NEW c \in Callers PROVE Frame(c) /\ Waiting(c)
  BY DEF Init, Frame, Waiting, Flying
<1> QED
  BY <1>1, <1>2, <1>3 DEF FlightInv

LEMMA StepTypes ==
    ASSUME FlightInv, [Next]_vars PROVE FlightTypeOK'
<1> USE FlightAssumption DEF FlightInv, FlightTypeOK, Goto, Got, environment
<1>1. ASSUME NEW c \in Callers, Limited(c) PROVE FlightTypeOK'
  BY <1>1 DEF Limited, Leaves, Phases, Keys, Results
<1>2. ASSUME NEW c \in Callers, SendAlone(c) \/ Lead(c) \/ Follow(c) PROVE FlightTypeOK'
  BY <1>2 DEF SendAlone, Lead, Follow, Ask, Phases, Leading, Keys, Identity
<1>3. ASSUME NEW c \in Callers, NEW body \in Bodies, NEW cookie \in BOOLEAN,
             SendEnds(c, Response(c, body, cookie))
      PROVE  FlightTypeOK'
  <2>1. Response(c, body, cookie) \in Exchange /\ Response(c, body, cookie).cookie \in BOOLEAN
    BY DEF Response, Exchange
  <2> QED
    BY <1>3, <2>1 DEF SendEnds, Phases, Leading
<1>4. ASSUME NEW c \in Callers, Retire(c) PROVE FlightTypeOK'
  <2>1. got[c] \in Exchange
    BY <1>4 DEF Retire, Frame, Mine
  <2>2. [got[c] EXCEPT !.until = version] \in Exchange
    BY <2>1 DEF Exchange
  <2> QED
    BY <1>4, <2>2 DEF Retire, Phases, Leading, Keys
<1>5. ASSUME NEW c \in Callers, Announce(c) PROVE FlightTypeOK'
  <2>1. got[c] \in Exchange
    BY <1>5 DEF Announce, Frame, Mine
  <2> QED
    BY <1>5, <2>1 DEF Announce, Phases
<1>6. ASSUME NEW c \in Callers, Served(c) PROVE FlightTypeOK'
  BY <1>6 DEF Served, StopsWaiting, Phases
<1>7. ASSUME NEW c \in Callers, Unserved(c) \/ WaitsOut(c) PROVE FlightTypeOK'
  BY <1>7 DEF Unserved, WaitsOut, SendOwn, StopsWaiting, Phases
<1>8. ASSUME NEW c \in Callers, Ends(c) PROVE FlightTypeOK'
  <2>1. Verdict(c) \in Results
    <3>1. got[c] \in Exchange
      BY <1>8 DEF Ends, Frame, Mine, Given
    <3> QED
      BY <3>1 DEF Verdict, Results, Final, Failures, Exchange, Bodies, Exceeded
  <2> QED
    BY <1>8, <2>1 DEF Ends, Leaves, Phases, Keys
<1>9. ASSUME NEW c \in Callers, Retries(c) PROVE FlightTypeOK'
  BY <1>9 DEF Retries, Leaves, Phases, Keys
<1>10. CASE Tick
  BY <1>10 DEF Tick, Timed, Exceeded
<1>11. CASE ProviderMoves
  BY <1>11 DEF ProviderMoves, callerVars
<1>12. CASE UNCHANGED vars
  BY <1>12 DEF vars, callerVars
<1> QED
  BY <1>1, <1>2, <1>3, <1>4, <1>5, <1>6, <1>7, <1>8, <1>9, <1>10, <1>11, <1>12
     DEF Next, ThreadStep, ProviderStep, Reply, SendRaises, Bodies

-----------------------------------------------------------------------------
(* The table: a call enters it when it is led and leaves it when it retires. *)

LEMMA StepTable ==
    ASSUME FlightInv, [Next]_vars PROVE Table'
<1> USE FlightAssumption DEF FlightInv, FlightTypeOK, Goto, environment
<1>1. ASSUME NEW c \in Callers, calls' = calls,
             \A x \in Callers \ {c} : phase'[x] = phase[x] /\ key'[x] = key[x],
             phase[c] \in {"lead", "retire"} <=> phase'[c] \in {"lead", "retire"},
             phase[c] \in {"lead", "retire"} => key'[c] = key[c]
      PROVE  Table'
  BY <1>1 DEF Table
<1>2. ASSUME NEW c \in Callers, Lead(c) PROVE Table'
  <2>1. Identity(c) \in Keys
    BY DEF Identity, Keys
  <2> QED
    BY <1>2, <2>1 DEF Lead, Ask, Table
<1>3. ASSUME NEW c \in Callers, Retire(c) PROVE Table'
  BY <1>3 DEF Retire, Table
<1>4. ASSUME NEW c \in Callers,
             Limited(c) \/ SendAlone(c) \/ Follow(c) \/ Announce(c) \/ Served(c)
             \/ Unserved(c) \/ WaitsOut(c) \/ Ends(c) \/ Retries(c)
      PROVE  Table'
  BY <1>1, <1>4 DEF Limited, SendAlone, Follow, Ask, Announce, Served, Unserved, WaitsOut,
      SendOwn, StopsWaiting, Ends, Retries, Leaves
<1>5. ASSUME NEW c \in Callers, NEW exchange, SendEnds(c, exchange) PROVE Table'
  BY <1>1, <1>5 DEF SendEnds, Flying
<1>6. CASE Tick \/ ProviderMoves \/ UNCHANGED vars
  BY <1>6 DEF Tick, ProviderMoves, vars, callerVars, Table
<1> QED
  BY <1>2, <1>3, <1>4, <1>5, <1>6 DEF Next, ThreadStep, ProviderStep, Reply, SendRaises

-----------------------------------------------------------------------------
(* What a thread knows of its own request. *)

\* A thread whose own frame is left alone knows of it what it knew.
LEMMA FrameKept ==
    ASSUME FlightInv, NEW x \in Callers,
           phase'[x] = phase[x], key'[x] = key[x], jar'[x] = jar[x],
           got'[x] = got[x], asked'[x] = asked[x], version' \in Nat, version <= version'
    PROVE  Frame(x)'
BY FlightAssumption DEF FlightInv, FlightTypeOK, Frame, Identity, Mine, Given

\* Every step of a thread or of its exchange leaves the other threads' frames alone.
LEMMA OthersKept ==
    ASSUME FlightInv, NEW c \in Callers, ThreadStep(c) \/ ProviderStep(c),
           NEW x \in Callers \ {c}
    PROVE  /\ phase'[x] = phase[x] /\ key'[x] = key[x] /\ jar'[x] = jar[x]
           /\ got'[x] = got[x] /\ asked'[x] = asked[x] /\ age'[x] = age[x]
           /\ joined'[x] = joined[x] /\ version' = version
<1> USE DEF FlightInv, FlightTypeOK, Goto, Got, environment
<1>1. CASE Limited(c) \/ Ends(c) \/ Retries(c)
  BY <1>1 DEF Limited, Ends, Retries, Leaves
<1>2. CASE SendAlone(c) \/ Lead(c) \/ Follow(c)
  BY <1>2 DEF SendAlone, Lead, Follow, Ask
<1>3. CASE Retire(c) \/ Announce(c)
  BY <1>3 DEF Retire, Announce
<1>4. CASE Served(c) \/ Unserved(c) \/ WaitsOut(c)
  BY <1>4 DEF Served, Unserved, WaitsOut, SendOwn, StopsWaiting
<1>5. ASSUME NEW exchange, SendEnds(c, exchange)
      PROVE  /\ phase'[x] = phase[x] /\ key'[x] = key[x] /\ jar'[x] = jar[x]
             /\ got'[x] = got[x] /\ asked'[x] = asked[x] /\ age'[x] = age[x]
             /\ joined'[x] = joined[x] /\ version' = version
  BY <1>5 DEF SendEnds
<1> QED
  BY <1>1, <1>2, <1>3, <1>4, <1>5 DEF ThreadStep, ProviderStep, Reply, SendRaises

LEMMA StepFrame ==
    ASSUME FlightInv, [Next]_vars, NEW x \in Callers PROVE Frame(x)'
<1> USE FlightAssumption DEF FlightInv, FlightTypeOK, Goto, Got, environment
<1>1. ASSUME Limited(x) \/ Ends(x) \/ Retries(x) PROVE Frame(x)'
  BY <1>1 DEF Limited, Ends, Retries, Leaves, Frame, Flying
<1>2. ASSUME SendAlone(x) \/ Lead(x) \/ Follow(x) PROVE Frame(x)'
  BY <1>2 DEF SendAlone, Lead, Follow, Ask, Frame, Flying, Identity
<1>3. ASSUME NEW body \in Bodies, NEW cookie \in BOOLEAN,
             SendEnds(x, Response(x, body, cookie))
      PROVE  Frame(x)'
  <2> DEFINE r == Response(x, body, cookie)
  <2>1. /\ r \in Exchange /\ r.by = x /\ r.signed = jar[x] /\ r.until = version
    BY DEF Response, Exchange
  <2>2. phase[x] \in Flying /\ key[x] = Identity(x) /\ asked[x] <= version
    BY <1>3 DEF SendEnds, Frame
  <2>3. jar[x] <=> key[x] = x
    BY <2>2 DEF Identity
  <2>4. /\ got'[x] = r /\ key' = key /\ asked' = asked /\ version' = version
        /\ phase'[x] \in {"retire", "judge"}
    BY <1>3 DEF SendEnds
  <2> HIDE DEF r
  <2>5. Mine(x, got[x])'
    BY <2>1, <2>2, <2>3, <2>4 DEF Mine
  <2> QED
    BY <2>2, <2>4, <2>5 DEF Frame, Flying
<1>4. ASSUME Retire(x) PROVE Frame(x)'
  <2>1. Mine(x, got[x]) /\ asked[x] <= version
    BY <1>4 DEF Retire, Frame
  <2>2. /\ got'[x] = [got[x] EXCEPT !.until = version] /\ phase'[x] = "announce"
        /\ key' = key /\ asked' = asked /\ version' = version
    BY <1>4 DEF Retire
  <2>3. /\ got'[x] \in Exchange /\ got'[x].by = x /\ got'[x].signed = got[x].signed
        /\ got'[x].until = version
    BY <2>1, <2>2 DEF Mine, Exchange
  <2>4. Mine(x, got[x])'
    BY <2>1, <2>2, <2>3 DEF Mine
  <2> QED
    BY <2>1, <2>2, <2>4 DEF Frame, Flying
<1>5. ASSUME Announce(x) PROVE Frame(x)'
  <2>1. Mine(x, got[x]) /\ asked[x] <= version
    BY <1>5 DEF Announce, Frame
  <2> QED
    BY <1>5, <2>1 DEF Announce, Frame, Flying, Mine
<1>6. ASSUME Served(x) PROVE Frame(x)'
  <2>1. Given(x, call[x]) /\ asked[x] <= version /\ key[x] \in {x, Anonymous}
    BY <1>6 DEF Served, StopsWaiting, Waiting, Led, Frame
  <2>2. /\ got'[x] = call[x] /\ phase'[x] = "judge" /\ asked' = asked
        /\ key' = key /\ jar' = jar /\ version' = version
    BY <1>6 DEF Served, StopsWaiting
  <2>3. Given(x, got[x])'
    BY <2>1, <2>2 DEF Given
  <2> QED
    BY <2>1, <2>2, <2>3 DEF Frame, Flying
<1>7. ASSUME Unserved(x) \/ WaitsOut(x) PROVE Frame(x)'
  <2>1. SendOwn(x) /\ phase[x] = "wait"
    BY <1>7 DEF Unserved, WaitsOut, SendOwn, StopsWaiting
  <2> QED
    BY <2>1 DEF SendOwn, StopsWaiting, Frame, Flying, Identity
<1>8. ASSUME NEW c \in Callers \ {x}, ThreadStep(c) \/ ProviderStep(c) PROVE Frame(x)'
  BY <1>8, FrameKept, OthersKept
<1>9. CASE Tick \/ UNCHANGED vars
  BY <1>9, FrameKept DEF Tick, vars, callerVars
<1>10. CASE ProviderMoves
  BY <1>10, FrameKept DEF ProviderMoves, callerVars
<1>11. CASE ThreadStep(x) \/ ProviderStep(x)
  BY <1>1, <1>2, <1>3, <1>4, <1>5, <1>6, <1>7, <1>11
     DEF ThreadStep, ProviderStep, Reply, SendRaises, Bodies
<1> QED
  BY <1>8, <1>9, <1>10, <1>11 DEF Next

-----------------------------------------------------------------------------
(* What a follower knows of the call it waits for. *)

\* A follower asks while its leader is in the table, so the two share an identity,
\* which two callers can only do without a cookie.
LEMMA Strangers ==
    ASSUME FlightInv, NEW c \in Callers, NEW f \in Callers, f # c,
           phase[f] = "wait", phase[c] = "announce", key[c] = key[f]
    PROVE  ~got[c].signed /\ ~jar[f]
<1>1. key[f] = Identity(f) /\ key[c] \in {c, Anonymous} /\ (got[c].signed <=> key[c] = c)
  BY DEF FlightInv, Frame, Mine, Flying
<1> QED
  BY <1>1, FlightAssumption DEF Identity

LEMMA StepWaiting ==
    ASSUME FlightInv, [Next]_vars, NEW x \in Callers PROVE Waiting(x)'
<1> USE FlightAssumption DEF FlightInv, FlightTypeOK, Goto, Got, environment
\* Its own steps.
<1>1. ASSUME Limited(x) \/ SendAlone(x) \/ Lead(x) \/ Retire(x) \/ Ends(x) \/ Retries(x)
      PROVE  Waiting(x)'
  <2>1. phase[x] # "wait" /\ phase'[x] # "wait" /\ call' = call /\ joined' = joined
    <3>1. CASE Limited(x) \/ Ends(x) \/ Retries(x)
      BY <3>1 DEF Limited, Ends, Retries, Leaves
    <3>2. CASE SendAlone(x) \/ Lead(x)
      BY <3>2 DEF SendAlone, Lead, Ask
    <3>3. CASE Retire(x)
      BY <3>3 DEF Retire
    <3> QED
      BY <1>1, <3>1, <3>2, <3>3
  <2> QED
    BY <2>1 DEF Waiting
<1>2. ASSUME NEW exchange, SendEnds(x, exchange) PROVE Waiting(x)'
  <2>1. phase[x] # "wait" /\ phase'[x] # "wait" /\ call' = call /\ joined' = joined
    BY <1>2 DEF SendEnds, Flying
  <2> QED
    BY <2>1 DEF Waiting
<1>3. ASSUME Served(x) \/ Unserved(x) \/ WaitsOut(x) PROVE Waiting(x)'
  <2>1. phase'[x] # "wait" /\ call'[x] = NotDone /\ joined'[x] = Nobody
    BY <1>3 DEF Served, Unserved, WaitsOut, SendOwn, StopsWaiting
  <2> QED
    BY <2>1 DEF Waiting
<1>4. ASSUME Follow(x) PROVE Waiting(x)'
  <2> DEFINE l == calls[Identity(x)]
  <2>1. Identity(x) \in Keys /\ l \in Callers
    BY <1>4 DEF Follow, Identity, Keys
  <2>2. phase[l] \in {"lead", "retire"} /\ key[l] = Identity(x) /\ l # x
    BY <1>4, <2>1 DEF Table, Follow, Ask
  <2>3. /\ phase'[x] = "wait" /\ joined'[x] = l /\ call'[x] = NotDone
        /\ key'[x] = Identity(x) /\ key'[l] = key[l] /\ phase'[l] = phase[l]
    <3>1. call[x] = NotDone
      BY <1>4 DEF Follow, Ask, Waiting
    <3> QED
      BY <1>4, <2>1, <2>2, <3>1 DEF Follow, Ask
  <2> QED
    BY <2>1, <2>2, <2>3 DEF Waiting, Led, Leading
<1>5. ASSUME Announce(x) PROVE Waiting(x)'
  <2>1. call[x] = NotDone /\ joined[x] = Nobody
    BY <1>5 DEF Announce, Waiting
  <2> QED
    BY <1>5, <2>1 DEF Announce, Followers, Waiting
\* The steps of others: its leader's alone matter.
<1>6. ASSUME NEW c \in Callers \ {x}, ThreadStep(c) \/ ProviderStep(c) PROVE Waiting(x)'
  <2>1. /\ phase'[x] = phase[x] /\ key'[x] = key[x] /\ jar'[x] = jar[x]
        /\ asked'[x] = asked[x] /\ joined'[x] = joined[x]
    BY <1>6, OthersKept
  <2>2. CASE Announce(c)
    <3>1. CASE x \in Followers(c)
      <4>1. call[x] = NotDone /\ joined[x] = c /\ c # Nobody /\ phase[x] = "wait"
        BY <3>1 DEF Followers, Waiting
      <4>2. Led(x)
        BY <4>1, MarkAssumption DEF Waiting, Given
      <4>3. phase[c] = "announce" /\ key[c] = key[x] /\ asked[x] <= got[c].until
        BY <2>2, <4>1, <4>2 DEF Announce, Led
      <4>4. Mine(c, got[c]) /\ ~got[c].signed /\ ~jar[x]
        BY <4>1, <4>3, Strangers DEF Frame
      <4>5. call'[x] = IF Shareable(got[c]) THEN got[c] ELSE Nothing
        BY <2>2, <3>1 DEF Announce
      <4>6. Shareable(got[c]) => Given(x, got[c])
        BY <4>3, <4>4 DEF Shareable, Mine, Given
      <4> QED
        BY <2>1, <4>1, <4>5, <4>6 DEF Waiting, Given
    <3>2. CASE x \notin Followers(c)
      <4>1. call'[x] = call[x]
        BY <2>2, <3>2 DEF Announce
      <4>2. Led(x) => joined[x] # c
        BY <3>2 DEF Led, Followers
      <4>3. \A l \in Callers \ {c} :
               phase'[l] = phase[l] /\ key'[l] = key[l] /\ got'[l] = got[l]
        BY <1>6, OthersKept
      <4> QED
        BY <2>1, <4>1, <4>2, <4>3 DEF Waiting, Led, Given
    <3> QED
      BY <3>1, <3>2
  <2>3. CASE ~Announce(c)
    <3>1. call'[x] = call[x]
      BY <1>6, <2>3 DEF ThreadStep, ProviderStep, Reply, SendRaises, SendEnds, Limited,
          SendAlone, Lead, Follow, Ask, Retire, Served, Unserved, WaitsOut, SendOwn,
          StopsWaiting, Ends, Retries, Leaves
    <3>2. phase[x] = "wait" /\ Led(x) => Led(x)'
      <4> SUFFICES ASSUME phase[x] = "wait", Led(x) PROVE Led(x)'
        OBVIOUS
      <4> DEFINE l == joined[x]
      <4>1. l \in Callers /\ l # x
        BY DEF Waiting, Led, Leading
      <4>2. CASE l # c
        <5>1. phase'[l] = phase[l] /\ key'[l] = key[l] /\ got'[l] = got[l]
          BY <1>6, <4>1, <4>2, OthersKept
        <5> QED
          BY <2>1, <3>1, <5>1 DEF Led
      <4>3. CASE l = c
        <5>1. phase[c] \in Leading /\ key[c] = key[x]
          BY <4>3 DEF Led
        <5>2. CASE Retire(c)
          <6>1. got[c] \in Exchange
            BY <5>2 DEF Retire, Frame, Mine
          <6>2. got'[c].until = version /\ phase'[c] = "announce" /\ key'[c] = key[c]
            BY <5>2, <6>1 DEF Retire, Exchange
          <6>3. asked[x] <= version
            BY DEF Frame
          <6> QED
            BY <2>1, <3>1, <4>3, <5>1, <6>2, <6>3 DEF Led, Leading
        <5>3. CASE \E exchange : SendEnds(c, exchange)
          <6>1. phase'[c] = "retire" /\ key'[c] = key[c]
            BY <5>1, <5>3 DEF SendEnds, Flying, Leading
          <6> QED
            BY <2>1, <3>1, <4>3, <5>1, <6>1 DEF Led, Leading
        <5>4. Retire(c) \/ \E exchange : SendEnds(c, exchange)
          BY <1>6, <2>3, <5>1 DEF ThreadStep, ProviderStep, Reply, SendRaises, Limited,
              SendAlone, Lead, Follow, Ask, Served, Unserved, WaitsOut, SendOwn,
              StopsWaiting, Ends, Retries, Leading
        <5> QED
          BY <5>2, <5>3, <5>4
      <4> QED
        BY <4>2, <4>3
    <3> QED
      BY <2>1, <3>1, <3>2 DEF Waiting, Given
  <2> QED
    BY <2>2, <2>3
<1>7. CASE Tick \/ ProviderMoves \/ UNCHANGED vars
  BY <1>7 DEF Tick, ProviderMoves, vars, callerVars, Waiting, Led, Given
<1>8. CASE ThreadStep(x) \/ ProviderStep(x)
  BY <1>1, <1>2, <1>3, <1>4, <1>5, <1>8 DEF ThreadStep, ProviderStep, Reply, SendRaises
<1> QED
  BY <1>6, <1>7, <1>8 DEF Next

-----------------------------------------------------------------------------
LEMMA FlightInvariant == Spec => []FlightInv
<1>1. FlightInv /\ [Next]_vars => FlightInv'
  BY StepTypes, StepTable, StepFrame, StepWaiting DEF FlightInv
<1> QED
  BY InitInv, <1>1, PTL DEF Spec

\* The state keeps its shape, and no caller makes more attempts than it may.
THEOREM FlightTyped == Spec => []FlightTypeOK
<1>1. FlightInv => FlightTypeOK
  BY DEF FlightInv
<1> QED
  BY FlightInvariant, <1>1, PTL

\* At most one exchange of a request is led at once, each under the identity it was sent
\* with, and every follower's call will be announced (_SingleFlight.run, _lead).
THEOREM FlightCallsAreLed == Spec => []CallsAreLed
<1>1. FlightInv => CallsAreLed
  BY MarkAssumption DEF FlightInv, CallsAreLed, Table, Waiting, Led, Given
<1> QED
  BY FlightInvariant, <1>1, PTL

\* No caller is handed another's failure (get_json).
THEOREM FlightFailuresAreOwn == Spec => []FailuresAreOwn
<1>1. FlightInv => FailuresAreOwn
  <2> SUFFICES ASSUME FlightInv, NEW c \in Callers, phase[c] = "judge", got[c].by # c,
                      Verdict(c) \in Failures \ {"timed_out"}
               PROVE  FALSE
    BY DEF FailuresAreOwn
  <2>1. got[c].body = "json"
    BY DEF FlightInv, Frame, Mine, Given
  <2>2. Verdict(c) \in {"payload", "timed_out"}
    BY <2>1 DEF Verdict, Exceeded
  <2> QED
    BY <2>2 DEF Failures
<1> QED
  BY FlightInvariant, <1>1, PTL

\* No exchange crosses from one session into another (_request_identity, sets_cookie).
THEOREM FlightSessionsStayApart == Spec => []SessionsStayApart
<1>1. FlightInv => SessionsStayApart
  BY DEF FlightInv, SessionsStayApart, Frame, Mine, Given
<1> QED
  BY FlightInvariant, <1>1, PTL

\* What is shared was still under way when it was asked for.
THEOREM FlightDataIsCurrent == Spec => []DataIsCurrent
<1>1. FlightInv => DataIsCurrent
  BY DEF FlightInv, DataIsCurrent, Frame, Mine, Given
<1> QED
  BY FlightInvariant, <1>1, PTL
-----------------------------------------------------------------------------
(***************************************************************************)
(* The number of steps a call still has before it, at the most: eight for  *)
(* each attempt left, and those of the attempt under way by its phase.     *)
(***************************************************************************)
PhaseLeft(f) ==
    CASE f = "done" -> 0
      [] f = "judge" -> 2
      [] f = "announce" -> 3
      [] f = "retire" -> 4
      [] f = "own" -> 5
      [] f \in {"lead", "wait"} -> 6
      [] f = "begin" -> 7

StepsLeft(c) == 8 * (MaxAttempts - attempt[c]) + PhaseLeft(phase[c])

LEMMA PhaseLeftType == \A f \in Phases : PhaseLeft(f) \in 0 .. 7
  BY DEF PhaseLeft, Phases, Leading

\* The arithmetic of one step: it goes on in the attempt, or begins another.
LEMMA Fewer ==
    ASSUME NEW m \in Nat, NEW a \in Nat, NEW b \in Nat, NEW l \in 0 .. 7, NEW n \in 0 .. 7,
           (b = a /\ n < l) \/ (b = a + 1 /\ l = 2 /\ n = 7)
    PROVE  8 * (m - b) + n < 8 * (m - a) + l
<1>1. CASE b = a /\ n < l
  BY <1>1
<1>2. CASE b = a + 1 /\ l = 2 /\ n = 7
  BY <1>2
<1> QED
  BY <1>1, <1>2

\* A step of its own brings a call nearer to its end.
LEMMA OwnStep ==
    ASSUME FlightTypeOK, NEW c \in Callers, ThreadStep(c) \/ ProviderStep(c)
    PROVE  \/ attempt'[c] = attempt[c] /\ PhaseLeft(phase'[c]) < PhaseLeft(phase[c])
           \/ /\ attempt'[c] = attempt[c] + 1
              /\ PhaseLeft(phase[c]) = 2 /\ PhaseLeft(phase'[c]) = 7
<1> USE DEF FlightTypeOK, PhaseLeft
<1>1. CASE Limited(c)
  BY <1>1 DEF Limited, Leaves, Goto
<1>2. CASE SendAlone(c) \/ Lead(c) \/ Follow(c)
  BY <1>2 DEF SendAlone, Lead, Follow, Ask, Goto
<1>3. CASE \E exchange : SendEnds(c, exchange)
  BY <1>3 DEF SendEnds, Flying, Goto
<1>4. CASE Retire(c) \/ Announce(c)
  BY <1>4 DEF Retire, Announce, Goto
<1>5. CASE Served(c) \/ Unserved(c) \/ WaitsOut(c)
  BY <1>5 DEF Served, Unserved, WaitsOut, SendOwn, StopsWaiting, Goto
<1>6. CASE Ends(c)
  BY <1>6 DEF Ends, Leaves, Goto
<1>7. CASE Retries(c)
  BY <1>7 DEF Retries, Leaves, Goto
<1> QED
  BY <1>1, <1>2, <1>3, <1>4, <1>5, <1>6, <1>7 DEF ThreadStep, ProviderStep, Reply, SendRaises

\* Every other step leaves it where it is.
LEMMA OthersStep ==
    ASSUME FlightTypeOK, NEW c \in Callers, [Next]_vars, ~(ThreadStep(c) \/ ProviderStep(c))
    PROVE  attempt'[c] = attempt[c] /\ phase'[c] = phase[c]
<1> USE DEF FlightTypeOK
<1>1. CASE \E x \in Callers \ {c} : ThreadStep(x) \/ ProviderStep(x)
  <2> PICK x \in Callers \ {c} : ThreadStep(x) \/ ProviderStep(x)
    BY <1>1
  <2> QED
    BY DEF ThreadStep, ProviderStep, Reply, SendRaises, SendEnds, Limited, SendAlone, Lead,
        Follow, Ask, Retire, Announce, Served, Unserved, WaitsOut, SendOwn, StopsWaiting, Ends,
        Retries, Leaves, Goto
<1>2. CASE Tick \/ ProviderMoves \/ UNCHANGED vars
  BY <1>2 DEF Tick, ProviderMoves, vars, callerVars
<1> QED
  BY <1>1, <1>2 DEF Next

CountsDown(c) ==
    /\ StepsLeft(c) \in Nat /\ StepsLeft(c)' \in Nat /\ StepsLeft(c)' <= StepsLeft(c)
    /\ ThreadStep(c) \/ ProviderStep(c) => StepsLeft(c)' < StepsLeft(c)

\* get_json is done after finitely many steps of its own, whatever the others, the provider
\* and the clocks do: each of its steps lowers a number that no other step raises.
THEOREM FlightStepsRunOut == Spec => [][\A c \in Callers : CountsDown(c)]_vars
<1>1. ASSUME FlightTypeOK, FlightTypeOK', [Next]_vars, NEW c \in Callers
      PROVE  CountsDown(c)
  <2>1. /\ attempt[c] \in 1 .. MaxAttempts /\ attempt'[c] \in 1 .. MaxAttempts
        /\ PhaseLeft(phase[c]) \in 0 .. 7 /\ PhaseLeft(phase'[c]) \in 0 .. 7
    BY <1>1, PhaseLeftType DEF FlightTypeOK
  <2>2. StepsLeft(c) = 8 * (MaxAttempts - attempt[c]) + PhaseLeft(phase[c])
    BY DEF StepsLeft
  <2>3. StepsLeft(c)' = 8 * (MaxAttempts - attempt'[c]) + PhaseLeft(phase'[c])
    BY DEF StepsLeft, PhaseLeft
  <2>4. StepsLeft(c) \in Nat /\ StepsLeft(c)' \in Nat
    BY <2>1, <2>2, <2>3, FlightAssumption
  <2>5. ASSUME ThreadStep(c) \/ ProviderStep(c) PROVE StepsLeft(c)' < StepsLeft(c)
    BY <1>1, <2>1, <2>2, <2>3, <2>5, OwnStep, Fewer, FlightAssumption
  <2>6. ASSUME ~(ThreadStep(c) \/ ProviderStep(c)) PROVE StepsLeft(c)' = StepsLeft(c)
    BY <1>1, <2>2, <2>3, <2>6, OthersStep
  <2> QED
    BY <2>4, <2>5, <2>6 DEF CountsDown
<1>2. FlightTypeOK /\ FlightTypeOK' /\ [Next]_vars => [\A c \in Callers : CountsDown(c)]_vars
  BY <1>1
<1> QED
  BY FlightTyped, <1>2, PTL DEF Spec
=============================================================================
