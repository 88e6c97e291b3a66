-------------------------- MODULE MCRadarAdmission --------------------------
(* Admissions for TLC: two calls that contend for one registry read, one    *)
(* credential with two secrets, two instants.                                *)
EXTENDS RadarAdmission, TLC

Symmetry == Permutations(Calls) \cup Permutations(CredentialIds)
                \cup Permutations(Secrets)
=============================================================================
