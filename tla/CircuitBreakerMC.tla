--------------------------- MODULE CircuitBreakerMC -------------------------
(* Small instances of CircuitBreaker for TLC: two callers, so that one can   *)
(* report after the other moved the breaker, and two operator interventions. *)
EXTENDS CircuitBreaker

CONSTANTS c1, c2

MCCallers == {c1, c2}
=============================================================================
