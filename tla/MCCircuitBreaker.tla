-------------------------- MODULE MCCircuitBreaker --------------------------
(***************************************************************************)
(* Small instances of CircuitBreaker: three callers, so that a straggler,  *)
(* a probe and a newcomer can overlap; two failures open the circuit.      *)
(***************************************************************************)
EXTENDS CircuitBreaker
=============================================================================
