--------------------------- MODULE MCSingleFlight ---------------------------
(* A small instance of the single flight for TLC: two callers, with or       *)
(* without coalescing, two attempts each and a deadline of one unit of time. *)
EXTENDS SingleFlight
=============================================================================
