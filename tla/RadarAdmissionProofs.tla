------------------------ MODULE RadarAdmissionProofs ------------------------
(* Theorems of RadarAdmission for every number of calls, credentials and    *)
(* registry reads, whatever the owner does meanwhile.                       *)
EXTENDS RadarAdmission, FiniteSetTheorems, TLAPS

-----------------------------------------------------------------------------
(***************************************************************************)
(* The inductive invariant.  The registry only grows, and a record in it   *)
(* changes in one way: it is revoked.  So what a call has read of it, at   *)
(* its arrival or at its lookup, still tells of the registry as it is      *)
(* (Kept), and the later reading knows at least as much (Learnt).          *)
(***************************************************************************)
Labels == {"idle", "admit", "acquire", "lookup", "release", "verify", "body", "done", "lost"}
Record == [digest : Secrets, status : {"ACTIVE", "REVOKED"}, notAfter : 1..Never]
Call == [token : Presented, cookie : BOOLEAN, received : 0..MaxTime,
         record : Record \cup {NoRecord}, atArrival : Record \cup {NoRecord}]

\* The calls that have presented a token of the right shape.
Authenticating == {"acquire", "lookup", "release", "verify", "body"}

AdmissionTypeOK ==
    /\ DOMAIN registry \subseteq CredentialIds
    /\ \A id \in DOMAIN registry : registry[id] \in Record
    /\ clock \in 0..MaxTime
    /\ pc \in [Calls -> Labels]
    /\ DOMAIN call = Calls /\ call = [c \in Calls |-> call[c]]
    /\ \A c \in Calls : pc[c] # "idle" => call[c] \in Call
    /\ DOMAIN answer = Calls /\ answer = [c \in Calls |-> answer[c]]

\* Nobody is told before the end, and only a token is looked up.
Quiet(c) ==
    /\ pc[c] # "done" => answer[c] = "none"
    /\ pc[c] \in Authenticating => call[c].token \in Tokens
    /\ answer[c] = "ADMITTED" => call[c].token \in Tokens
    /\ answer[c] = "CREDENTIAL_INVALID" /\ call[c].token # Malformed
          => call[c].token \in Tokens

Kept(id, r) ==
    r # NoRecord =>
        /\ id \in DOMAIN registry
        /\ registry[id].digest = r.digest
        /\ registry[id].notAfter = r.notAfter
        /\ r.status = "REVOKED" => registry[id].status = "REVOKED"

Learnt(c) ==
    pc[c] # "idle" /\ call[c].token \in Tokens =>
        /\ Kept(call[c].token.id, call[c].atArrival)
        /\ Kept(call[c].token.id, call[c].record)
        /\ pc[c] \in {"release", "verify", "body"} /\ call[c].atArrival # NoRecord =>
              /\ call[c].record # NoRecord
              /\ call[c].atArrival.status = "REVOKED" => call[c].record.status = "REVOKED"

Genuine(c) ==
    pc[c] = "body" \/ answer[c] = "ADMITTED" =>
        LET token == call[c].token
        IN  /\ token.id \in DOMAIN registry
            /\ registry[token.id].digest = token.secret
            /\ call[c].atArrival.status # "REVOKED"
            /\ call[c].received < registry[token.id].notAfter

Cause(c) ==
    answer[c] = "CREDENTIAL_INVALID" /\ call[c].token # Malformed =>
        LET token == call[c].token
        IN  \/ call[c].atArrival = NoRecord
            \/ call[c].atArrival.digest # token.secret
            \/ registry[token.id].status = "REVOKED"
            \/ call[c].received >= registry[token.id].notAfter

Local(c) == Quiet(c) /\ Learnt(c) /\ Genuine(c) /\ Cause(c)

-----------------------------------------------------------------------------
(* Steps. *)

\* The registry grows, and its records only ever become revoked.
Grows ==
    \A id \in DOMAIN registry :
        /\ id \in DOMAIN registry'
        /\ registry'[id].digest = registry[id].digest
        /\ registry'[id].notAfter = registry[id].notAfter
        /\ registry[id].status = "REVOKED" => registry'[id].status = "REVOKED"

\* The steps that leave the calls alone.
World ==
    \/ \E id \in CredentialIds, digest \in Secrets,
          notAfter \in 1..Never : Issue(id, digest, notAfter)
    \/ \E id \in CredentialIds : Revoke(id)
    \/ Tick
    \/ UNCHANGED vars

Own(c) ==
    \/ \E token \in Presented, cookie \in BOOLEAN : Arrive(c, token, cookie)
    \/ CallStep(c)

LEMMA NextIsAStep ==
    [Next]_vars <=> (\E c \in Calls : Own(c)) \/ (\E new \in Configs : Restart(new)) \/ World
BY DEF Next, Own, World

\* Whatever happens, the registry grows and keeps its shape.
LEMMA StepRegistry ==
    AdmissionTypeOK /\ [Next]_vars =>
        /\ Grows
        /\ DOMAIN registry' \subseteq CredentialIds
        /\ \A id \in DOMAIN registry' : registry'[id] \in Record
<1> SUFFICES ASSUME AdmissionTypeOK, [Next]_vars
             PROVE /\ Grows
                   /\ DOMAIN registry' \subseteq CredentialIds
                   /\ \A id \in DOMAIN registry' : registry'[id] \in Record
  OBVIOUS
<1> USE DEF AdmissionTypeOK, Grows
<1>1. CASE registry' = registry
  BY <1>1
<1>2. ASSUME NEW id \in CredentialIds, NEW digest \in Secrets, NEW notAfter \in 1..Never,
             Issue(id, digest, notAfter)
      PROVE  /\ Grows
             /\ DOMAIN registry' \subseteq CredentialIds
             /\ \A x \in DOMAIN registry' : registry'[x] \in Record
  <2>1. [digest |-> digest, status |-> "ACTIVE", notAfter |-> notAfter] \in Record
    BY DEF Record
  <2> QED
    BY <1>2, <2>1 DEF Issue
<1>3. ASSUME NEW id \in CredentialIds, Revoke(id)
      PROVE  /\ Grows
             /\ DOMAIN registry' \subseteq CredentialIds
             /\ \A x \in DOMAIN registry' : registry'[x] \in Record
  BY <1>3 DEF Revoke, Record
<1>4. ASSUME NEW c \in Calls, Own(c) PROVE registry' = registry
  BY <1>4 DEF Own, CallStep, Arrive, Admit, AcquireLookup, ReadRecord, LookupFails,
              ReleaseLookup, Verify, ReadBody
<1>5. ASSUME NEW new \in Configs, Restart(new) PROVE registry' = registry
  BY <1>5 DEF Restart
<1> QED
  BY <1>1, <1>2, <1>3, <1>4, <1>5, NextIsAStep DEF World, Tick, vars

\* A call that takes no step of its own stays as it is, or is lost.
LEMMA OthersKeep ==
    ASSUME AdmissionTypeOK, AdmissionTypeOK', Grows, NEW c \in Calls, Local(c),
           call'[c] = call[c], answer'[c] = answer[c],
           pc'[c] = pc[c] \/ (pc'[c] = "lost" /\ pc[c] \notin {"idle", "done"})
    PROVE  Local(c)'
<1>1. Quiet(c)'
  BY DEF Local, Quiet, Authenticating
<1>2. ASSUME NEW id, NEW r, Kept(id, r) PROVE Kept(id, r)'
  BY <1>2 DEF Kept, Grows
<1>3. Learnt(c)'
  BY <1>2 DEF Local, Learnt
<1>4. Genuine(c)'
  BY DEF Local, Quiet, Genuine, Grows
<1>5. Cause(c)'
  <2> SUFFICES ASSUME answer[c] = "CREDENTIAL_INVALID", call[c].token # Malformed,
                      call[c].atArrival # NoRecord
               PROVE Cause(c)'
    BY DEF Cause
  <2>1. pc[c] # "idle" /\ call[c].token \in Tokens
    BY DEF Local, Quiet
  <2>2. call[c].token.id \in DOMAIN registry
    BY <2>1 DEF Local, Learnt, Kept
  <2> QED
    BY <2>2 DEF Local, Cause, Grows
<1> QED
  BY <1>1, <1>3, <1>4, <1>5 DEF Local
\* The steps of a call, one by one: what it becomes.
LEMMA OwnKeeps ==
    ASSUME AdmissionAssumption, AdmissionTypeOK, NEW c \in Calls, Local(c), Own(c)
    PROVE  Local(c)'
<1> USE DEF AdmissionTypeOK, Local, Quiet, Authenticating
<1>1. registry' = registry
  BY DEF Own, CallStep, Arrive, Admit, AcquireLookup, ReadRecord, LookupFails,
         ReleaseLookup, Verify, ReadBody
<1>2. ASSUME NEW id PROVE Kept(id, NoRecord)
  BY DEF Kept
<1>3. Kept(call[c].token.id, RecordOf(call[c].token))
  BY DEF Kept, RecordOf
<1>4. ASSUME NEW token \in Presented, NEW cookie \in BOOLEAN, Arrive(c, token, cookie)
      PROVE  Local(c)'
  <2>1. /\ pc'[c] = "admit" /\ answer'[c] = "none"
        /\ call'[c].token = token /\ call'[c].record = NoRecord
        /\ call'[c].atArrival = IF token \in Tokens THEN RecordOf(token) ELSE NoRecord
    BY <1>4 DEF Arrive, Goto
  <2>2. Quiet(c)' /\ Genuine(c)' /\ Cause(c)'
    BY <2>1 DEF Genuine, Cause
  <2>3. Kept(token.id, RecordOf(token)) /\ Kept(token.id, NoRecord)
    BY <1>2 DEF Kept, RecordOf
  <2>4. Learnt(c)'
    BY <1>1, <2>1, <2>3 DEF Learnt, Kept
  <2> QED
    BY <2>2, <2>4
<1>5. CASE Admit(c)
  <2>1. /\ call'[c].token = call[c].token /\ call'[c].record = call[c].record
        /\ call'[c].atArrival = call[c].atArrival
    BY <1>5 DEF Admit, Call
  <2>2. /\ pc'[c] \in {"acquire", "done"}
        /\ pc'[c] # "done" => answer'[c] = "none"
        /\ pc'[c] = "acquire" => call[c].token \in Tokens
        /\ answer'[c] # "ADMITTED"
        /\ answer'[c] = "CREDENTIAL_INVALID" => call[c].token = Malformed
    BY <1>5 DEF Admit, Tell, Goto
  <2>3. Quiet(c)' /\ Genuine(c)' /\ Cause(c)'
    BY <2>1, <2>2 DEF Genuine, Cause
  <2>4. Learnt(c)'
    BY <1>1, <1>5, <2>1, <2>2 DEF Admit, Learnt, Kept
  <2> QED
    BY <2>3, <2>4
<1>6. CASE AcquireLookup(c) \/ LookupFails(c) \/ ReleaseLookup(c)
  <2>1. /\ call' = call
        /\ pc'[c] \in {"lookup", "verify", "done"}
        /\ pc'[c] # "done" => answer'[c] = "none"
        /\ pc'[c] = "verify" => pc[c] = "release"
        /\ answer'[c] \notin {"ADMITTED", "CREDENTIAL_INVALID"}
        /\ pc[c] \in {"acquire", "lookup", "release"}
    BY <1>6 DEF AcquireLookup, LookupFails, ReleaseLookup, Tell, Goto
  <2>2. Quiet(c)' /\ Genuine(c)' /\ Cause(c)'
    BY <2>1 DEF Genuine, Cause
  <2>3. Learnt(c)'
    BY <1>1, <2>1 DEF Learnt, Kept
  <2> QED
    BY <2>2, <2>3
<1>7. CASE ReadRecord(c)
  <2>1. /\ call'[c].token = call[c].token /\ call'[c].atArrival = call[c].atArrival
        /\ call'[c].record = RecordOf(call[c].token)
        /\ pc'[c] = "release" /\ answer' = answer /\ pc[c] = "lookup"
    BY <1>7 DEF ReadRecord, Goto, Call
  <2>2. Quiet(c)' /\ Genuine(c)' /\ Cause(c)'
    BY <2>1 DEF Genuine, Cause
  <2>3. /\ Kept(call[c].token.id, call[c].atArrival)
        /\ call[c].atArrival # NoRecord =>
              /\ RecordOf(call[c].token) # NoRecord
              /\ call[c].atArrival.status = "REVOKED"
                    => RecordOf(call[c].token).status = "REVOKED"
    <3>1. Kept(call[c].token.id, call[c].atArrival)
      BY <2>1 DEF Learnt
    <3>2. \A id \in DOMAIN registry : registry[id] # NoRecord
      BY DEF Record, NoRecord
    <3> QED
      BY <3>1, <3>2 DEF Kept, RecordOf
  <2>4. Learnt(c)'
    BY <1>1, <1>3, <2>1, <2>3 DEF Learnt, Kept
  <2> QED
    BY <2>2, <2>4
<1>8. CASE Verify(c)
  <2>1. /\ call' = call /\ pc[c] = "verify" /\ call[c].token \in Tokens
        /\ \/ pc'[c] = "body" /\ answer' = answer /\ Authentic(c)
           \/ pc'[c] = "done" /\ answer'[c] = "CREDENTIAL_INVALID" /\ ~Authentic(c)
    BY <1>8 DEF Verify, Tell, Goto
  <2>2. /\ call[c].received \in Int
        /\ call[c].record # NoRecord => call[c].record \in Record
        /\ call[c].atArrival # NoRecord => call[c].atArrival \in Record
    BY <2>1, AdmissionAssumption DEF Call
  <2>3. /\ Kept(call[c].token.id, call[c].atArrival)
        /\ Kept(call[c].token.id, call[c].record)
        /\ call[c].atArrival # NoRecord =>
              /\ call[c].record # NoRecord
              /\ call[c].atArrival.status = "REVOKED" => call[c].record.status = "REVOKED"
    BY <2>1 DEF Learnt
  <2>4. Quiet(c)'
    BY <2>1
  <2>5. Learnt(c)'
    BY <1>1, <2>1, <2>3 DEF Learnt, Kept
  <2>6. Genuine(c)'
    BY <1>1, <2>1, <2>2, <2>3 DEF Genuine, Kept, Authentic, NoRecord
  <2>7. Cause(c)'
    <3> SUFFICES ASSUME ~Authentic(c), call[c].atArrival # NoRecord PROVE Cause(c)'
      BY <2>1 DEF Cause
    <3>1. \/ call[c].record.digest # call[c].token.secret
          \/ call[c].record.status = "REVOKED"
          \/ call[c].received >= call[c].record.notAfter
      BY <2>2, <2>3, AdmissionAssumption DEF Authentic, Record, Never
    <3> QED
      BY <1>1, <2>1, <2>3, <3>1 DEF Cause, Kept
  <2> QED
    BY <2>4, <2>5, <2>6, <2>7
<1>9. CASE ReadBody(c)
  <2>1. /\ call' = call /\ pc[c] = "body" /\ pc'[c] = "done"
        /\ answer'[c] \in {"ADMITTED", "MALFORMED_REQUEST"}
    BY <1>9 DEF ReadBody, Tell, Goto
  <2>2. Quiet(c)' /\ Cause(c)'
    BY <2>1 DEF Cause
  <2>3. Learnt(c)' /\ Genuine(c)'
    BY <1>1, <2>1 DEF Learnt, Kept, Genuine
  <2> QED
    BY <2>2, <2>3
<1> QED
  BY <1>4, <1>5, <1>6, <1>7, <1>8, <1>9 DEF Own, CallStep

-----------------------------------------------------------------------------
(* The shape of the state. *)

LEMMA CallTypes ==
    ASSUME AdmissionAssumption, AdmissionTypeOK, \A c \in Calls : Local(c),
           NEW c \in Calls, Own(c)
    PROVE  /\ pc' \in [Calls -> Labels]
           /\ DOMAIN call' = Calls /\ DOMAIN answer' = Calls
           /\ \A d \in Calls \ {c} :
                 call'[d] = call[d] /\ pc'[d] = pc[d] /\ answer'[d] = answer[d]
           /\ call'[c] \in Call
<1> USE DEF AdmissionTypeOK
<1>1. \A token \in Tokens : RecordOf(token) \in Record \cup {NoRecord}
  BY DEF RecordOf
<1>2. ASSUME NEW token \in Presented, NEW cookie \in BOOLEAN, Arrive(c, token, cookie)
      PROVE  /\ pc' = [pc EXCEPT ![c] = "admit"] /\ answer' = answer
             /\ DOMAIN call' = Calls
             /\ \A d \in Calls \ {c} : call'[d] = call[d]
             /\ call'[c] \in Call
  BY <1>1, <1>2, AdmissionAssumption DEF Arrive, Goto, Call
<1>3. ASSUME CallStep(c)
      PROVE  /\ DOMAIN call' = Calls
             /\ \A d \in Calls \ {c} : call'[d] = call[d]
             /\ call'[c] \in Call
  <2>1. call[c] \in Call
    BY <1>3 DEF CallStep, Admit, AcquireLookup, ReadRecord, LookupFails, ReleaseLookup,
                Verify, ReadBody
  <2>2. CASE Admit(c)
    BY <2>1, <2>2 DEF Admit, Call
  <2>3. CASE ReadRecord(c)
    <3>1. call[c].token \in Tokens
      BY <2>3 DEF ReadRecord, Local, Quiet, Authenticating
    <3> QED
      BY <1>1, <2>1, <2>3, <3>1 DEF ReadRecord, Call
  <2>4. CASE call' = call
    BY <2>1, <2>4
  <2> QED
    BY <1>3, <2>2, <2>3, <2>4
       DEF CallStep, AcquireLookup, LookupFails, ReleaseLookup, Verify, ReadBody
<1>4. ASSUME CallStep(c)
      PROVE  /\ pc' \in [Calls -> Labels]
             /\ DOMAIN answer' = Calls
             /\ \A d \in Calls \ {c} : pc'[d] = pc[d] /\ answer'[d] = answer[d]
  BY <1>4 DEF CallStep, Admit, AcquireLookup, ReadRecord, LookupFails, ReleaseLookup,
              Verify, ReadBody, Tell, Goto, Labels
<1> QED
  BY <1>2, <1>3, <1>4 DEF Own, Labels
LEMMA StepTypes ==
    /\ AdmissionAssumption /\ AdmissionTypeOK /\ (\A c \in Calls : Local(c))
    /\ [Next]_vars
    => AdmissionTypeOK'
<1> SUFFICES ASSUME AdmissionAssumption, AdmissionTypeOK, \A c \in Calls : Local(c), [Next]_vars
             PROVE  AdmissionTypeOK'
  OBVIOUS
<1> USE DEF AdmissionTypeOK
<1>1. /\ DOMAIN registry' \subseteq CredentialIds
      /\ \A id \in DOMAIN registry' : registry'[id] \in Record
  BY StepRegistry
<1>2. ASSUME NEW c \in Calls, Own(c) PROVE AdmissionTypeOK'
  <2>1. clock' = clock
    BY <1>2 DEF Own, CallStep, Arrive, Admit, AcquireLookup, ReadRecord, LookupFails,
                ReleaseLookup, Verify, ReadBody
  <2>2. call' = [d \in Calls |-> call'[d]] /\ answer' = [d \in Calls |-> answer'[d]]
    BY <1>2 DEF Own, CallStep, Arrive, Admit, AcquireLookup, ReadRecord, LookupFails,
                ReleaseLookup, Verify, ReadBody, Tell, Goto
  <2> QED
    BY <1>1, <1>2, <2>1, <2>2, CallTypes
<1>3. ASSUME NEW new \in Configs, Restart(new) PROVE AdmissionTypeOK'
  BY <1>1, <1>3 DEF Restart, Labels
<1>4. CASE World
  <2>1. pc' = pc /\ call' = call /\ answer' = answer
    BY <1>4 DEF World, Issue, Revoke, Tick, vars
  <2>2. clock' \in 0..MaxTime
    <3>1. clock' = clock \/ Tick
      BY <1>4 DEF World, Issue, Revoke, vars
    <3> QED
      BY <3>1, AdmissionAssumption DEF Tick
  <2> QED
    BY <1>1, <2>1, <2>2
<1> QED
  BY <1>2, <1>3, <1>4, NextIsAStep

LEMMA StepLocal ==
    /\ AdmissionAssumption /\ AdmissionTypeOK /\ (\A c \in Calls : Local(c))
    /\ [Next]_vars
    => \A c \in Calls : Local(c)'
<1> SUFFICES ASSUME AdmissionAssumption, AdmissionTypeOK, \A c \in Calls : Local(c),
                    [Next]_vars, NEW c \in Calls
             PROVE  Local(c)'
  OBVIOUS
<1>1. AdmissionTypeOK' /\ Grows
  BY StepTypes, StepRegistry
<1>2. ASSUME NEW d \in Calls, Own(d) PROVE Local(c)'
  <2>1. CASE d = c
    BY <1>2, <2>1, OwnKeeps
  <2>2. CASE d # c
    <3>1. call'[c] = call[c] /\ pc'[c] = pc[c] /\ answer'[c] = answer[c]
      BY <1>2, <2>2, CallTypes
    <3> QED
      BY <1>1, <3>1, OthersKeep
  <2> QED
    BY <2>1, <2>2
<1>3. ASSUME NEW new \in Configs, Restart(new) PROVE Local(c)'
  <2>1. /\ call'[c] = call[c] /\ answer'[c] = answer[c]
        /\ pc'[c] = pc[c] \/ (pc'[c] = "lost" /\ pc[c] \notin {"idle", "done"})
    BY <1>3 DEF Restart
  <2> QED
    BY <1>1, <2>1, OthersKeep
<1>4. CASE World
  <2>1. call'[c] = call[c] /\ pc'[c] = pc[c] /\ answer'[c] = answer[c]
    BY <1>4 DEF World, Issue, Revoke, Tick, vars
  <2> QED
    BY <1>1, <2>1, OthersKeep
<1> QED
  BY <1>2, <1>3, <1>4, NextIsAStep

-----------------------------------------------------------------------------
(* The registry gate. *)

LEMMA StepGate ==
    AdmissionAssumption /\ AdmissionTypeOK /\ GateAddsUp /\ [Next]_vars => GateAddsUp'
<1> SUFFICES ASSUME AdmissionAssumption, AdmissionTypeOK, GateAddsUp, [Next]_vars
             PROVE  GateAddsUp'
  OBVIOUS
<1> USE DEF AdmissionTypeOK
<1>1. IsFiniteSet(Reading) /\ Cardinality(Reading) \in Nat
  BY AdmissionAssumption, FS_Subset, FS_CardinalityType DEF Reading
<1>2. gate \in Nat /\ MaxLookups \in Nat
  BY AdmissionAssumption DEF GateAddsUp
<1>3. CASE gate' = gate /\ Reading' = Reading
  BY <1>3 DEF GateAddsUp
<1>4. ASSUME NEW c \in Calls, Reading' = Reading \cup {c}, c \notin Reading,
             gate > 0, gate' = gate - 1
      PROVE  GateAddsUp'
  <2>1. Cardinality(Reading') = Cardinality(Reading) + 1
    BY <1>1, <1>4, FS_AddElement
  <2> QED
    BY <1>1, <1>2, <1>4, <2>1 DEF GateAddsUp
<1>5. ASSUME NEW c \in Calls, Reading' = Reading \ {c}, c \in Reading, gate' = gate + 1
      PROVE  GateAddsUp'
  <2>1. Cardinality(Reading') = Cardinality(Reading) - 1
    BY <1>1, <1>5, FS_RemoveElement
  <2>2. IsFiniteSet(Reading') /\ Cardinality(Reading') \in Nat
    BY <1>1, <1>5, FS_Subset, FS_CardinalityType
  <2> QED
    BY <1>1, <1>2, <1>5, <2>1, <2>2 DEF GateAddsUp
<1>6. ASSUME NEW c \in Calls, Own(c) PROVE GateAddsUp'
  <2>1. ASSUME NEW token \in Presented, NEW cookie \in BOOLEAN, Arrive(c, token, cookie)
        PROVE  GateAddsUp'
    BY <1>3, <2>1 DEF Arrive, Goto, Reading
  <2>2. CASE Admit(c) \/ ReadRecord(c) \/ Verify(c) \/ ReadBody(c)
    <3>1. gate' = gate
      BY <2>2 DEF Admit, ReadRecord, Verify, ReadBody
    <3>2. Reading' = Reading
      BY <2>2 DEF Admit, ReadRecord, Verify, ReadBody, Tell, Goto, Reading
    <3> QED
      BY <1>3, <3>1, <3>2
  <2>3. CASE AcquireLookup(c)
    <3>1. CASE gate > 0
      <4>1. Reading' = Reading \cup {c} /\ c \notin Reading
        BY <2>3, <3>1 DEF AcquireLookup, Goto, Reading
      <4> QED
        BY <1>4, <2>3, <3>1, <4>1 DEF AcquireLookup
    <3>2. CASE gate = 0
      <4>1. Reading' = Reading
        BY <2>3, <3>2 DEF AcquireLookup, Tell, Goto, Reading
      <4> QED
        BY <1>3, <2>3, <3>2, <4>1 DEF AcquireLookup
    <3> QED
      BY <1>2, <3>1, <3>2
  <2>4. CASE LookupFails(c) \/ ReleaseLookup(c)
    <3>1. Reading' = Reading \ {c} /\ c \in Reading
      BY <2>4 DEF LookupFails, ReleaseLookup, Tell, Goto, Reading
    <3>2. gate' = gate + 1
      BY <2>4 DEF LookupFails, ReleaseLookup
    <3> QED
      BY <1>5, <3>1, <3>2
  <2> QED
    BY <1>6, <2>1, <2>2, <2>3, <2>4 DEF Own, CallStep
<1>7. ASSUME NEW new \in Configs, Restart(new) PROVE GateAddsUp'
  <2>1. Reading' = {}
    BY <1>7 DEF Restart, Reading
  <2> QED
    BY <1>2, <1>7, <2>1, FS_EmptySet DEF Restart, GateAddsUp
<1>8. CASE World
  <2>1. gate' = gate /\ Reading' = Reading
    BY <1>8 DEF World, Issue, Revoke, Tick, vars, Reading
  <2> QED
    BY <1>3, <2>1
<1> QED
  BY <1>6, <1>7, <1>8, NextIsAStep

-----------------------------------------------------------------------------
(* The theorems. *)

AdmissionInv == AdmissionTypeOK /\ (\A c \in Calls : Local(c)) /\ GateAddsUp

LEMMA InitAdmission == Init => AdmissionInv
<1> SUFFICES ASSUME Init PROVE AdmissionInv
  OBVIOUS
<1>1. AdmissionTypeOK
  BY AdmissionAssumption DEF Init, AdmissionTypeOK, Labels
<1>2. \A c \in Calls : Local(c)
  BY DEF Init, Local, Quiet, Learnt, Genuine, Cause, Authenticating
<1>3. Reading = {}
  BY DEF Init, Reading
<1>4. GateAddsUp
  BY <1>3, AdmissionAssumption, FS_EmptySet DEF Init, GateAddsUp
<1> QED
  BY <1>1, <1>2, <1>4 DEF AdmissionInv

LEMMA AdmissionInductive == Spec => []AdmissionInv
<1>1. AdmissionInv /\ [Next]_vars => AdmissionInv'
  BY AdmissionAssumption, StepTypes, StepLocal, StepGate DEF AdmissionInv
<1> QED
  BY <1>1, InitAdmission, PTL DEF Spec

\* Every state of the admission has its shape.
THEOREM AdmissionTyped == Spec => []AdmissionTypeOK
<1>1. AdmissionInv => AdmissionTypeOK
  BY DEF AdmissionInv
<1> QED
  BY <1>1, AdmissionInductive, PTL

\* The gate of the registry loses no slot and gives none twice, for any number of
\* calls and lookups, through failed reads and restarts.
THEOREM AdmissionGate == Spec => []GateAddsUp
<1>1. AdmissionInv => GateAddsUp
  BY DEF AdmissionInv
<1> QED
  BY <1>1, AdmissionInductive, PTL

\* Whatever the owner does between a call's arrival, its lookup and its admission,
\* it is let through only on a matching credential that was neither revoked when it
\* came nor expired when it was received.
THEOREM AdmissionGenuine == Spec => []AdmittedIsGenuine
<1>1. AdmissionInv => AdmittedIsGenuine
  BY DEF AdmissionInv, Local, Genuine, AdmittedIsGenuine
<1> QED
  BY <1>1, AdmissionInductive, PTL

\* No credential that was in the registry when the call came is refused as invalid
\* unless it is wrong, expired or by now revoked.
THEOREM AdmissionRefusal == Spec => []RefusedForCause
<1>1. AdmissionInv => RefusedForCause
  BY DEF AdmissionInv, Local, Cause, RefusedForCause
<1> QED
  BY <1>1, AdmissionInductive, PTL
=============================================================================
