-------------------------- MODULE MCRadarLedgerTxn --------------------------
(* Small databases for TLC: a handful of callers over two keys, a deadline  *)
(* of one clock unit and no grace, so that within two instants a key can be *)
(* pending, abandoned, closed in time and closed late.                      *)
EXTENDS RadarLedgerTxn, TLC

MCDeadlineOf == [fp \in Fingerprints |-> 1]
MCTimes == 0..MaxClock

Symmetry == Permutations(Callers) \cup Permutations(Credentials)
                \cup Permutations(RequestIds) \cup Permutations(Fingerprints)
=============================================================================
