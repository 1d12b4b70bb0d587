--------------------------- MODULE MCCircuitBreaker ---------------------------
(* CircuitBreaker for TLC: the callers are interchangeable. *)
EXTENDS CircuitBreaker, TLC

Alike == Permutations(Callers)

=============================================================================
