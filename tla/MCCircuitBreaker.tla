--------------------------- MODULE MCCircuitBreaker ---------------------------
(***************************************************************************)
(* Instances of CircuitBreaker for TLC: two processes that race, at every  *)
(* log level.                                                              *)
(***************************************************************************)
EXTENDS CircuitBreaker, TLC

AllLevels == {"INFO", "WARNING", "ERROR", "CRITICAL"}

ProcSymmetry == Permutations(Procs)

===============================================================================
