--------------------------- MODULE MCCircuitBreaker ---------------------------
(* Instance of CircuitBreaker for TLC: two callers that share one breaker. *)
EXTENDS CircuitBreaker

CONSTANTS c1, c2
=============================================================================
