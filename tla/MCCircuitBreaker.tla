------------------------- MODULE MCCircuitBreaker -------------------------
(* CircuitBreaker on small instances; the constants are in the .cfg files. *)
EXTENDS CircuitBreaker, TLC

\* Calls and breaker objects are interchangeable.
Symmetry == Permutations(Calls) \cup Permutations(Breakers)
===========================================================================
