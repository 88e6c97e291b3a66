--------------------------- MODULE MCSaveReceipts ---------------------------
(***************************************************************************)
(* The receipts on a small instance: the margin between the two limits is  *)
(* as tight as the requests served at once allow.                          *)
(***************************************************************************)
EXTENDS SaveReceipts, TLC

CONSTANTS run1, run2, run3, run4

MCRuns == {run1, run2, run3, run4}
MCOtherOrigin == {run4}
MCSymmetry == Permutations(MCRuns \ MCOtherOrigin)
=============================================================================
