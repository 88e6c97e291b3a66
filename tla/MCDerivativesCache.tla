------------------------- MODULE MCDerivativesCache -------------------------
(* A small cache for TLC: two providers, three symbols of which two share a *)
(* stripe, room for fewer entries than two calls put, and a time to live     *)
(* that a slow fetch outlasts.                                               *)
EXTENDS DerivativesCache

CONSTANTS binance, okx, btc, eth, sol, first, second

MCPolicies == {<<binance, okx>>, <<okx>>}
MCStripeOf == [s \in Symbols |-> IF s = sol THEN second ELSE first]
=============================================================================
