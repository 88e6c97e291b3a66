--------------------------- MODULE MCSavePipeline ---------------------------
(***************************************************************************)
(* The save pipeline on small instances: two workers, a queue of two jobs  *)
(* and three saves, so that the queue is full, the list of unknown commits *)
(* overflows, two rounds of reads overlap and a receipt is evicted.        *)
(***************************************************************************)
EXTENDS SavePipeline, TLC

CONSTANTS run1, run2, run3

MCRuns2 == {run1, run2}
MCRuns3 == {run1, run2, run3}
MCOtherOrigin == {run2}
MCSymmetry == Permutations(MCRuns3)
=============================================================================
