---------------------------- MODULE SingleFlight ----------------------------
(***************************************************************************)
(* The public HTTP client (adapters/http_client.py): get_json with its     *)
(* attempts and its deadline, and the single flight in which identical     *)
(* requests of several analyses share one exchange.                        *)
(*                                                                         *)
(* Each caller is a thread with a client, and so a cookie jar, of its own; *)
(* all of them ask for one URL, which leaves the cookie as what tells two  *)
(* requests apart.  A cookie is worth its session: no two are alike.  The  *)
(* provider may answer late, badly or never; httpx may give up at any      *)
(* moment (a timeout of its own, a lost connection, a body too long).      *)
(* Time is what has passed of an attempt, counted up to its deadline.      *)
(***************************************************************************)
EXTENDS Naturals, FiniteSets

CONSTANTS
    Callers,        \* threads in get_json
    MaxAttempts,    \* max_retries + 1
    Deadline,       \* REQUEST_DEADLINE_SECONDS
    MaxVersion,     \* bound: how often the provider's data change
    Nobody, Anonymous, Nothing, NotDone

ASSUME FlightAssumption ==
    /\ MaxAttempts \in Nat \ {0} /\ Deadline \in Nat /\ MaxVersion \in Nat
    /\ Nobody \notin Callers /\ Anonymous \notin Callers

VARIABLES
    phase,      \* phase[c]: where the thread is
    attempt,    \* attempt[c]: the number of its attempt
    age,        \* age[c]: time since attempt_started, saturated
    key,        \* key[c]: the identity of its request
    joined,     \* joined[c]: the leader whose call a follower waits for
    call,       \* call[c]: what that call says once its done is set
    got,        \* got[c]: the exchange in hand
    asked,      \* asked[c]: the provider's version when the request was asked for
    result,     \* result[c]: what get_json ends with
    calls,      \* calls[k]: _calls, as the caller whose call is registered
    coalescing, \* those whose PROVIDER_COALESCING is on and client pooled
    jar,        \* jar[c]: its client holds a cookie of the provider
    version     \* the version of the provider's data

callerVars == <<phase, attempt, age, key, joined, call, got, asked, result>>
environment == <<coalescing, jar, version>>
vars == <<callerVars, calls, environment>>

-----------------------------------------------------------------------------
Keys == Callers \cup {Anonymous}

\* What an exchange was, whose, whether it was sent with a cookie, and the provider's
\* version when its call left the table.
Bodies == {"json", "garbled", "error", "rejected", "raised"}
Exchange == [body : Bodies, cookie : BOOLEAN, by : Callers, signed : BOOLEAN,
             until : 0 .. MaxVersion]

ASSUME MarkAssumption ==
    Nothing \notin Exchange /\ NotDone \notin Exchange /\ NotDone # Nothing

Final == {"payload", "invalid_symbol", "malformed"}
Failures == {"invalid_symbol", "malformed", "failed", "timed_out"}
Results == Final \cup Failures \cup {"none", "limited"}

Leading == {"lead", "retire", "announce"}
Flying == {"lead", "own"}
Phases == Leading \cup {"begin", "wait", "own", "judge", "done"}

\* Mutant of Identity: the cookie is no part of it.
Identity_NoCookie(c) == Anonymous

\* _request_identity: of all the headers only the cookie differs.
Identity(c) == IF jar[c] THEN c ELSE Anonymous

Exceeded(c) == age[c] > Deadline

Goto(c, next) == phase' = [phase EXCEPT ![c] = next]
Got(c, exchange) == got' = [got EXCEPT ![c] = exchange]

-----------------------------------------------------------------------------
Init ==
    /\ phase = [c \in Callers |-> "begin"]
    /\ attempt = [c \in Callers |-> 1]
    /\ age = [c \in Callers |-> 0]
    /\ key = [c \in Callers |-> Anonymous]
    /\ joined = [c \in Callers |-> Nobody]
    /\ call = [c \in Callers |-> NotDone]
    /\ got = [c \in Callers |-> Nothing]
    /\ asked = [c \in Callers |-> 0]
    /\ result = [c \in Callers |-> "none"]
    /\ calls = [k \in Keys |-> Nobody]
    /\ coalescing \in SUBSET Callers
    /\ jar = [c \in Callers |-> FALSE]
    /\ version = 0

\* An attempt is over, and with it what only its frame of the stack held.
Leaves(c, next) ==
    /\ Goto(c, next)
    /\ age' = [age EXCEPT ![c] = 0]
    /\ key' = [key EXCEPT ![c] = Anonymous]
    /\ asked' = [asked EXCEPT ![c] = 0]
    /\ Got(c, Nothing)

\* An attempt begins, unless the client's own rate limit refuses it: what other
\* requests the client has sent in the last minute is not known here.
Limited(c) ==
    /\ phase[c] = "begin"
    /\ Leaves(c, "done")
    /\ result' = [result EXCEPT ![c] = "limited"]
    /\ UNCHANGED <<attempt, joined, call, calls, environment>>

\* _exchange builds the request; _SingleFlight.run looks it up under its lock.
Ask(c, next) ==
    /\ phase[c] = "begin"
    /\ key' = [key EXCEPT ![c] = Identity(c)]
    /\ asked' = [asked EXCEPT ![c] = version]
    /\ Goto(c, next)
    /\ UNCHANGED <<attempt, age, call, got, result, environment>>

SendAlone(c) ==
    /\ c \notin coalescing
    /\ Ask(c, "own")
    /\ UNCHANGED <<calls, joined>>

Lead(c) ==
    /\ c \in coalescing /\ calls[Identity(c)] = Nobody
    /\ Ask(c, "lead")
    /\ calls' = [calls EXCEPT ![Identity(c)] = c]
    /\ UNCHANGED joined

Follow(c) ==
    /\ c \in coalescing /\ calls[Identity(c)] # Nobody
    /\ Ask(c, "wait")
    /\ joined' = [joined EXCEPT ![c] = calls[Identity(c)]]
    /\ UNCHANGED calls

-----------------------------------------------------------------------------
(* The exchange.                                                           *)

\* A request ends, and leaves its cookie in the jar.
SendEnds(c, exchange) ==
    /\ phase[c] \in Flying
    /\ Got(c, exchange)
    /\ jar' = [jar EXCEPT ![c] = @ \/ exchange.cookie]
    /\ Goto(c, IF phase[c] = "lead" THEN "retire" ELSE "judge")
    /\ UNCHANGED <<attempt, age, key, joined, call, asked, result, calls, coalescing, version>>

Response(c, body, cookie) ==
    [body |-> body, cookie |-> cookie, by |-> c, signed |-> jar[c], until |-> version]

\* A cookie changes nothing once the call has ended, as it does on the other bodies.
\* Past the deadline only a response without a body is read to its end.
Reply(c, body, cookie) ==
    /\ Exceeded(c) => body # "json"
    /\ SendEnds(c, Response(c, body, cookie))

SendRaises(c) == SendEnds(c, Response(c, "raised", FALSE))

\* Mutant of Retire: the call stays in the table.
Retire_Keeps(c) ==
    /\ phase[c] = "retire"
    /\ Goto(c, "announce")
    /\ Got(c, [got[c] EXCEPT !.until = version])
    /\ UNCHANGED <<attempt, age, key, joined, call, asked, result, calls, environment>>

\* The call leaves the table before its followers are woken.
Retire(c) ==
    /\ phase[c] = "retire"
    /\ calls' = [calls EXCEPT ![key[c]] = Nobody]
    /\ Goto(c, "announce")
    /\ Got(c, [got[c] EXCEPT !.until = version])
    /\ UNCHANGED <<attempt, age, key, joined, call, asked, result, environment>>

\* Mutant of Shareable: every response is worth sharing.
Shareable_Anything(exchange) == exchange.body # "raised"

\* Only a success that the first caller could parse, and that sets no cookie.
Shareable(exchange) == exchange.body = "json" /\ ~exchange.cookie

Followers(c) == {f \in Callers : joined[f] = c /\ call[f] = NotDone}

\* Mutant of Announce: an exchange that raised never reaches done.set().
Announce_OnSuccess(c) ==
    /\ phase[c] = "announce"
    /\ call' = [f \in Callers |->
                   IF f \notin Followers(c) \/ got[c].body = "raised" THEN call[f]
                   ELSE IF Shareable(got[c]) THEN got[c] ELSE Nothing]
    /\ Goto(c, "judge")
    /\ UNCHANGED <<attempt, age, key, joined, got, asked, result, calls, environment>>

\* done.set(): every follower of this call can read what it says.
Announce(c) ==
    /\ phase[c] = "announce"
    /\ call' = [f \in Callers |->
                   IF f \notin Followers(c) THEN call[f]
                   ELSE IF Shareable(got[c]) THEN got[c] ELSE Nothing]
    /\ Goto(c, "judge")
    /\ UNCHANGED <<attempt, age, key, joined, got, asked, result, calls, environment>>

-----------------------------------------------------------------------------
(* The followers.                                                          *)

\* Whoever stops waiting holds no call any more.
StopsWaiting(c) ==
    /\ phase[c] = "wait"
    /\ joined' = [joined EXCEPT ![c] = Nobody]
    /\ call' = [call EXCEPT ![c] = NotDone]
    /\ UNCHANGED <<attempt, key, result, calls, environment>>

\* The follower sends a request of its own, with a fresh deadline.
SendOwn(c) ==
    /\ StopsWaiting(c)
    /\ Goto(c, "own")
    /\ age' = [age EXCEPT ![c] = 0]
    /\ asked' = [asked EXCEPT ![c] = version]
    /\ UNCHANGED got

Served(c) ==
    /\ call[c] \notin {NotDone, Nothing}
    /\ StopsWaiting(c)
    /\ Got(c, call[c])
    /\ Goto(c, "judge")
    /\ UNCHANGED <<age, asked>>

Unserved(c) == call[c] = Nothing /\ SendOwn(c)

\* Mutant of WaitsOut: the event is waited for without a timeout.
WaitsOut_Never(c) == FALSE /\ UNCHANGED vars

\* done.wait may time out although the event has just been set.
WaitsOut(c) == age[c] >= Deadline /\ SendOwn(c)

-----------------------------------------------------------------------------
(* The outcome of an attempt, in get_json.                                 *)

Verdict(c) ==
    CASE got[c].body = "rejected" -> "invalid_symbol"
      [] got[c].body = "raised" -> "failed"
      [] got[c].body \notin {"rejected", "raised"} /\ Exceeded(c) -> "timed_out"
      [] got[c].body = "error" /\ ~Exceeded(c) -> "failed"
      [] got[c].body = "garbled" /\ ~Exceeded(c) -> "malformed"
      [] got[c].body = "json" /\ ~Exceeded(c) -> "payload"

\* An answer, or a refusal of the request itself, ends the call; anything else is
\* tried again while attempts are left.
Ends(c) ==
    /\ phase[c] = "judge"
    /\ Verdict(c) \in Final \/ attempt[c] = MaxAttempts
    /\ result' = [result EXCEPT ![c] = Verdict(c)]
    /\ Leaves(c, "done")
    /\ UNCHANGED <<attempt, joined, call, calls, environment>>

Retries(c) ==
    /\ phase[c] = "judge"
    /\ Verdict(c) \notin Final /\ attempt[c] < MaxAttempts
    /\ attempt' = [attempt EXCEPT ![c] = @ + 1]
    /\ Leaves(c, "begin")
    /\ UNCHANGED <<result, joined, call, calls, environment>>

-----------------------------------------------------------------------------
\* Time passes for every attempt under way; what passes between two of these phases
\* is passed in the second.
Timed == {c \in Callers : phase[c] \in Flying \cup {"wait", "judge"} /\ ~Exceeded(c)}

Tick ==
    /\ Timed # {}
    /\ age' = [c \in Callers |-> IF c \in Timed THEN age[c] + 1 ELSE age[c]]
    /\ UNCHANGED <<phase, attempt, key, joined, call, got, asked, result, calls, environment>>

ProviderMoves ==
    /\ version < MaxVersion
    /\ version' = version + 1
    /\ UNCHANGED <<callerVars, calls, coalescing, jar>>

ProviderStep(c) ==
    \/ \E body \in Bodies \ {"raised"} : Reply(c, body, FALSE)
    \/ \E body \in {"json", "error"} : Reply(c, body, TRUE)
    \/ SendRaises(c)

\* What the thread does by itself, whatever the provider does.
ThreadStep(c) ==
    \/ Limited(c) \/ SendAlone(c) \/ Lead(c) \/ Follow(c)
    \/ Retire(c) \/ Announce(c)
    \/ Served(c) \/ Unserved(c) \/ WaitsOut(c)
    \/ Ends(c) \/ Retries(c)

Next ==
    \/ \E c \in Callers : ThreadStep(c) \/ ProviderStep(c)
    \/ Tick
    \/ ProviderMoves

Spec == Init /\ [][Next]_vars

\* Threads are scheduled and time passes.  No exchange has to end: httpx bounds
\* each phase of a request, not the whole of it.
FairSpec == Spec /\ WF_vars(Tick) /\ \A c \in Callers : WF_vars(ThreadStep(c))

-----------------------------------------------------------------------------
FlightTypeOK ==
    /\ phase \in [Callers -> Phases]
    /\ attempt \in [Callers -> 1 .. MaxAttempts]
    /\ age \in [Callers -> 0 .. Deadline + 1]
    /\ key \in [Callers -> Keys]
    /\ joined \in [Callers -> Callers \cup {Nobody}]
    /\ call \in [Callers -> Exchange \cup {NotDone, Nothing}]
    /\ got \in [Callers -> Exchange \cup {Nothing}]
    /\ asked \in [Callers -> 0 .. MaxVersion]
    /\ result \in [Callers -> Results]
    /\ calls \in [Keys -> Callers \cup {Nobody}]
    /\ coalescing \subseteq Callers
    /\ jar \in [Callers -> BOOLEAN]
    /\ version \in 0 .. MaxVersion

\* The table holds exactly the requests being led, each under the identity it was
\* sent with, so that two exchanges of one request are never led at once; and
\* nobody waits for a call that nobody will announce, however its exchange ended.
CallsAreLed ==
    /\ \A k \in Keys, c \in Callers :
          calls[k] = c <=> phase[c] \in {"lead", "retire"} /\ key[c] = k
    /\ \A c \in Callers :
          phase[c] = "wait" /\ call[c] = NotDone => phase[joined[c]] \in Leading

\* "No failure is ever passed on" (http_client.py:26): what a caller answers for, other
\* than its own clock, came of a request of its own.
FailuresAreOwn ==
    \A c \in Callers :
        phase[c] = "judge" /\ Verdict(c) \in Failures \ {"timed_out"} => got[c].by = c

\* An exchange is given to another caller only if neither of them is in a session of
\* the provider's, and if it starts none.
SessionsStayApart ==
    \A c \in Callers :
        got[c] # Nothing /\ got[c].by # c => ~jar[c] /\ ~got[c].signed /\ ~got[c].cookie

\* "The data it shares are at most one in-flight window older than its own request
\* would have fetched" (http_client.py:28): the call that answers a request had not
\* left the table when the request was asked for.
DataIsCurrent ==
    \A c \in Callers : phase[c] = "judge" => asked[c] <= got[c].until

\* A follower waits for no longer than its own deadline, even behind an exchange that
\* never ends.
FollowersMoveOn == \A c \in Callers : phase[c] = "wait" ~> phase[c] # "wait"
=============================================================================
