----------------------------- MODULE MCCircuitBreaker -----------------------------
(* CircuitBreaker and its refinement on a small instance: the callers are      *)
(* interchangeable model values.                                               *)
EXTENDS CircuitBreakerRefinement, TLC

Symmetry == Permutations(Callers)
===============================================================================
