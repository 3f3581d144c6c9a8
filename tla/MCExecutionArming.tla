-------------------------- MODULE MCExecutionArming --------------------------
(* Small instances of ExecutionArming: callers and orders are interchangeable. *)
EXTENDS ExecutionArming, TLC

CONSTANTS c1, c2, o1, o2

Symmetry == Permutations({c1, c2}) \cup Permutations({o1, o2})
=============================================================================
