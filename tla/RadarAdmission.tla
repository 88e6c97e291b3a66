--------------------------- MODULE RadarAdmission ---------------------------
(***************************************************************************)
(* Admission to the radar-evidence route: what RadarEvidenceService.admit  *)
(* of automation/service.py, the credential registry of automation/        *)
(* credentials.py and the route of api/automation_endpoint.py decide       *)
(* before the ledger is touched.  Every call runs on a thread of its own;  *)
(* the registry is a table the owner changes while calls are in flight.    *)
(*                                                                         *)
(* A digest stands for the secret it is the digest of.  What follows an    *)
(* admission is RadarRoute's.                                              *)
(***************************************************************************)
EXTENDS Integers, FiniteSets

CONSTANTS
    Calls,
    CredentialIds,
    Secrets,
    MaxLookups,         \* MAX_CONCURRENT_REGISTRY_LOOKUPS
    MaxTime             \* bound: the wall clock stops here

ASSUME AdmissionAssumption ==
    IsFiniteSet(Calls) /\ MaxLookups \in Nat \ {0} /\ MaxTime \in Nat

VARIABLES
    config,     \* what load_config makes of the process's environment
    registry,   \* public.automation_credential, a function from its ids
    clock,      \* the wall clock
    pc,         \* where each call is
    call,       \* what each call presented, and what it has learnt
    gate,       \* registry reads that may still start
    answer      \* what each caller was told, or "ADMITTED"

vars == <<config, registry, clock, pc, call, gate, answer>>

Configs == {"disabled", "problems", "usable"}

\* What the credential header may hold.
Tokens == [id : CredentialIds, secret : Secrets]
Missing == [shape |-> "missing"]
Malformed == [shape |-> "malformed"]
Presented == Tokens \cup {Missing, Malformed}

NoRecord == [status |-> "UNKNOWN"]

\* not_after_utc is null.
Never == MaxTime + 1

RecordOf(token) ==
    IF token.id \in DOMAIN registry THEN registry[token.id] ELSE NoRecord

\* A call that has not come.
NoCall == [token |-> Missing]

\* The calls between the registry gate's acquire and its release.
Reading == {c \in Calls : pc[c] \in {"lookup", "release"}}

Goto(c, label) == pc' = [pc EXCEPT ![c] = label]

Tell(c, what) ==
    /\ Goto(c, "done")
    /\ answer' = [answer EXCEPT ![c] = what]

-----------------------------------------------------------------------------
Init ==
    /\ config \in Configs
    /\ registry = [id \in {} |-> NoRecord]
    /\ clock = 0
    /\ pc = [c \in Calls |-> "idle"]
    /\ call = [c \in Calls |-> NoCall]
    /\ gate = MaxLookups
    /\ answer = [c \in Calls |-> "none"]

\* atArrival is a history field: the registry's record when the call came.
Arrive(c, token, cookie) ==
    /\ pc[c] = "idle"
    /\ call' = [call EXCEPT ![c] =
          [token |-> token, cookie |-> cookie, received |-> 0, record |-> NoRecord,
           atArrival |-> IF token \in Tokens THEN RecordOf(token) ELSE NoRecord]]
    /\ Goto(c, "admit")
    /\ UNCHANGED <<config, registry, clock, gate, answer>>

\* _admit, up to the registry: the switch, the configuration, the human session,
\* then the reception is stamped and the token's shape looked at.  Anything
\* unexpected is answered by the catch-all of admit.
Admit(c) ==
    LET token == call[c].token
    IN  /\ pc[c] = "admit"
        /\ \/ config = "disabled" /\ Tell(c, "AUTOMATION_DISABLED") /\ UNCHANGED call
           \/ config = "problems" /\ Tell(c, "NOT_CONFIGURED") /\ UNCHANGED call
           \/ /\ config = "usable" /\ call[c].cookie
              /\ Tell(c, "HUMAN_SESSION_REFUSED") /\ UNCHANGED call
           \/ /\ config = "usable" /\ ~call[c].cookie
              /\ call' = [call EXCEPT ![c].received = clock]
              /\ \/ token = Missing /\ Tell(c, "CREDENTIAL_REQUIRED")
                 \/ token = Malformed /\ Tell(c, "CREDENTIAL_INVALID")
                 \/ token \in Tokens /\ Goto(c, "acquire") /\ UNCHANGED answer
           \/ Tell(c, "ANALYSIS_FAILED") /\ UNCHANGED call
        /\ UNCHANGED <<config, registry, clock, gate>>

\* A lookup beyond the gate's bound is refused at once: LEDGER_UNAVAILABLE.
AcquireLookup(c) ==
    /\ pc[c] = "acquire"
    /\ \/ gate > 0 /\ gate' = gate - 1 /\ Goto(c, "lookup") /\ UNCHANGED answer
       \/ gate = 0 /\ Tell(c, "LEDGER_UNAVAILABLE") /\ UNCHANGED gate
    /\ UNCHANGED <<config, registry, clock, call>>

\* Mutant of ReadRecord: a record some call has read before is used again.
ReadRecord_Cached(c) ==
    /\ pc[c] = "lookup"
    /\ \E d \in Calls :
          \/ d = c /\ call' = [call EXCEPT ![c].record = RecordOf(call[c].token)]
          \/ /\ pc[d] = "done" /\ call[d].token \in Tokens
             /\ call[d].token.id = call[c].token.id
             /\ call' = [call EXCEPT ![c].record = call[d].record]
    /\ Goto(c, "release")
    /\ UNCHANGED <<config, registry, clock, gate, answer>>

\* One read of the registry, on a connection of its own, every time.
ReadRecord(c) ==
    /\ pc[c] = "lookup"
    /\ call' = [call EXCEPT ![c].record = RecordOf(call[c].token)]
    /\ Goto(c, "release")
    /\ UNCHANGED <<config, registry, clock, gate, answer>>

\* Mutant of LookupFails: the gate is not given back when the read raises.
LookupFails_KeepsGate(c) ==
    /\ pc[c] = "lookup"
    /\ Tell(c, "LEDGER_UNAVAILABLE")
    /\ UNCHANGED <<config, registry, clock, call, gate>>

\* The read fails or times out, or the record is malformed: nothing is authenticated.
LookupFails(c) ==
    /\ pc[c] = "lookup"
    /\ gate' = gate + 1
    /\ Tell(c, "LEDGER_UNAVAILABLE")
    /\ UNCHANGED <<config, registry, clock, call>>

ReleaseLookup(c) ==
    /\ pc[c] = "release"
    /\ gate' = gate + 1
    /\ Goto(c, "verify")
    /\ UNCHANGED <<config, registry, clock, call, answer>>

\* Mutant of Authentic: an expired credential is as good as any other.
Authentic_Unexpiring(c) ==
    /\ call[c].record # NoRecord
    /\ call[c].record.digest = call[c].token.secret
    /\ call[c].record.status = "ACTIVE"

\* authenticate, on the record as read and the reception as stamped.
Authentic(c) ==
    /\ call[c].record # NoRecord
    /\ call[c].record.digest = call[c].token.secret
    /\ call[c].record.status = "ACTIVE"
    /\ call[c].received < call[c].record.notAfter

Verify(c) ==
    /\ pc[c] = "verify"
    /\ \/ Authentic(c) /\ Goto(c, "body") /\ UNCHANGED answer
       \/ ~Authentic(c) /\ Tell(c, "CREDENTIAL_INVALID")
    /\ UNCHANGED <<config, registry, clock, call, gate>>

\* Only then is the body read: too large or too slow, it is None, and malformed.
ReadBody(c) ==
    /\ pc[c] = "body"
    /\ Tell(c, "ADMITTED") \/ Tell(c, "MALFORMED_REQUEST")
    /\ UNCHANGED <<config, registry, clock, call, gate>>

-----------------------------------------------------------------------------
\* The owner's SQL (docs/automation/CREDENTIAL_ROTATION.md): a new id is issued, or
\* one is revoked; a digest is never changed in place and nothing is un-revoked.
Issue(id, digest, notAfter) ==
    /\ id \notin DOMAIN registry
    /\ notAfter > clock
    /\ registry' = [x \in DOMAIN registry \cup {id} |->
                       IF x = id THEN [digest |-> digest, status |-> "ACTIVE",
                                       notAfter |-> notAfter]
                       ELSE registry[x]]
    /\ UNCHANGED <<config, clock, pc, call, gate, answer>>

Revoke(id) ==
    /\ id \in DOMAIN registry
    /\ registry[id].status = "ACTIVE"
    /\ registry' = [registry EXCEPT ![id].status = "REVOKED"]
    /\ UNCHANGED <<config, clock, pc, call, gate, answer>>

\* A new environment takes a restart: the calls in flight and the gate are lost.
Restart(new) ==
    /\ new # config
    /\ config' = new
    /\ pc' = [c \in Calls |-> IF pc[c] \in {"idle", "done"} THEN pc[c] ELSE "lost"]
    /\ gate' = MaxLookups
    /\ UNCHANGED <<registry, clock, call, answer>>

\* Bound: MaxTime.
Tick ==
    /\ clock < MaxTime
    /\ clock' = clock + 1
    /\ UNCHANGED <<config, registry, pc, call, gate, answer>>

CallStep(c) ==
    \/ Admit(c) \/ AcquireLookup(c) \/ ReadRecord(c) \/ LookupFails(c)
    \/ ReleaseLookup(c) \/ Verify(c) \/ ReadBody(c)

Next ==
    \/ \E c \in Calls :
          \/ \E token \in Presented, cookie \in BOOLEAN : Arrive(c, token, cookie)
          \/ CallStep(c)
    \/ \E id \in CredentialIds, digest \in Secrets,
          notAfter \in 1..Never : Issue(id, digest, notAfter)
    \/ \E id \in CredentialIds : Revoke(id)
    \/ \E new \in Configs : Restart(new)
    \/ Tick

Spec == Init /\ [][Next]_vars

-----------------------------------------------------------------------------
(***************************************************************************)
(* Properties.                                                             *)
(***************************************************************************)

\* The registry gate neither leaks nor overflows, however its reads end: with every
\* slot lost the route would refuse everybody for good.
GateAddsUp ==
    /\ gate \in 0..MaxLookups
    /\ gate + Cardinality(Reading) = MaxLookups

\* Who is let through: a credential that matches, was not revoked when the call
\* came, was not expired when it was received, and existed when it was read.
AdmittedIsGenuine ==
    \A c \in Calls :
        pc[c] = "body" \/ answer[c] = "ADMITTED" =>
            LET token == call[c].token
            IN  /\ token.id \in DOMAIN registry
                /\ registry[token.id].digest = token.secret
                /\ call[c].atArrival.status # "REVOKED"
                /\ call[c].received < registry[token.id].notAfter

\* A rotation refuses nobody: a credential is called invalid only if it was not in
\* the registry when the call came, or is wrong, expired or by now revoked.
RefusedForCause ==
    \A c \in Calls :
        answer[c] = "CREDENTIAL_INVALID" /\ call[c].token # Malformed =>
            LET token == call[c].token
            IN  \/ call[c].atArrival = NoRecord
                \/ call[c].atArrival.digest # token.secret
                \/ registry[token.id].status = "REVOKED"
                \/ call[c].received >= registry[token.id].notAfter
=============================================================================
