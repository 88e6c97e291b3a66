----------------------------- MODULE MCOneLook -----------------------------
(* Three dispatches over two pins and a population that may change twice.   *)
EXTENDS OneLook, TLC

MCSymmetry == Permutations(Jobs) \cup Permutations(Pins)
=============================================================================
