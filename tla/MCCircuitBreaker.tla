-------------------------- MODULE MCCircuitBreaker --------------------------
(* Three concurrent calls on one breaker, a clock of five instants.        *)
EXTENDS CircuitBreaker, TLC

CONSTANTS c1, c2, c3

MCCalls == {c1, c2, c3}
CallSymmetry == Permutations(MCCalls)
=============================================================================
