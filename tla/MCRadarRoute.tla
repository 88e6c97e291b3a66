---------------------------- MODULE MCRadarRoute ----------------------------
(* Small routes for TLC: one credential, one slot, a deadline of two clock *)
(* units, and the reserves of the code scaled to one unit each.              *)
EXTENDS RadarRoute, TLC

MCDeadlineOf == [fp \in Fingerprints |-> 2]
MCTimes == 0..(MaxTime + MaxSkew)
MCQuotaChoices == {q \in QuotaPairs : q[2] = MaxQuotaDay}

\* The calls are interchangeable, and so are the request ids and the requests.
Symmetry == Permutations(Calls) \cup Permutations(RequestIds)
                \cup Permutations(Fingerprints)
=============================================================================
