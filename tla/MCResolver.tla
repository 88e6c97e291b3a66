----------------------------- MODULE MCResolver -----------------------------
(***************************************************************************)
(* The resolver on a small instance.                                       *)
(***************************************************************************)
EXTENDS Resolver, TLC

CONSTANTS runA, runB, runC, up, down

MCRuns == {runA, runB, runC}
MCHorizonOf == [p \in Predictions |-> IF p = 3 THEN 1 ELSE 0]
MCVenueOf == [p \in Predictions |-> IF p = 3 THEN NoVenue ELSE "binance"]
MCLabels == {up, down}
MCSymmetry == Permutations(MCRuns) \cup Permutations(MCLabels)
=============================================================================
