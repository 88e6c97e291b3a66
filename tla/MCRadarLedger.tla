--------------------------- MODULE MCRadarLedger ---------------------------
(* A small ledger for TLC: one credential with five requests received at    *)
(* three instants, a rolling day of two of them, quotas of one and two, and *)
(* a ceiling of four rows, one fewer than the requests.                     *)
EXTENDS RadarLedger, TLC

MCDeadlineOf == [fp \in Fingerprints |-> 1]
MCTimes == 1..3

\* The requests are interchangeable, and so are the credentials.
Symmetry == Permutations(RequestIds) \cup Permutations(Credentials)
=============================================================================
