---------------------------- MODULE RadarPromise ----------------------------
(***************************************************************************)
(* What the radar-evidence route promises its consumers, as one reads it   *)
(* in docs/automation/RADAR_EVIDENCE_V1.md section 9: a key is claimed     *)
(* once, analysed at most once, settled once, and every caller that is     *)
(* told an outcome of the key is told the one it is settled with.  It says *)
(* nothing of clocks, threads, slots or a database: RadarRoute does, and   *)
(* implements it.                                                          *)
(***************************************************************************)

CONSTANTS Keys, Callers, Outcomes

VARIABLES
    claimed,    \* the keys some call has reserved
    analysed,   \* <<caller, key>>: whose call started an analysis of what
    settled,    \* the outcome of each settled key
    told        \* <<caller, key, outcome>>: who was told what

vars == <<claimed, analysed, settled, told>>

Init ==
    /\ claimed = {}
    /\ analysed = {}
    /\ settled = [k \in Keys |-> "none"]
    /\ told = {}

Claim(k) ==
    /\ k \notin claimed
    /\ claimed' = claimed \cup {k}
    /\ UNCHANGED <<analysed, settled, told>>

IsAnalysed(k) == \E pair \in analysed : pair[2] = k

Analyse(c, k) ==
    /\ k \in claimed
    /\ ~IsAnalysed(k)
    /\ analysed' = analysed \cup {<<c, k>>}
    /\ UNCHANGED <<claimed, settled, told>>

\* A claimed key is settled once, with success only when it was analysed.
Settle(k, outcome) ==
    /\ k \in claimed
    /\ settled[k] = "none"
    /\ outcome = "SUCCEEDED" => IsAnalysed(k)
    /\ settled' = [settled EXCEPT ![k] = outcome]

SettleUnheard(k, outcome) ==
    Settle(k, outcome) /\ UNCHANGED <<claimed, analysed, told>>

SettleAndTell(c, k, outcome) ==
    /\ Settle(k, outcome)
    /\ told' = told \cup {<<c, k, outcome>>}
    /\ UNCHANGED <<claimed, analysed>>

\* A repeat is told what the key is settled with.
Replay(c, k) ==
    /\ settled[k] # "none"
    /\ told' = told \cup {<<c, k, settled[k]>>}
    /\ UNCHANGED <<claimed, analysed, settled>>

Next ==
    \E k \in Keys :
        \/ Claim(k)
        \/ \E o \in Outcomes : SettleUnheard(k, o)
        \/ \E c \in Callers :
              \/ Analyse(c, k) \/ Replay(c, k)
              \/ \E o \in Outcomes : SettleAndTell(c, k, o)

Spec == Init /\ [][Next]_vars
=============================================================================
