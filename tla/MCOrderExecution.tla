-------------------------- MODULE MCOrderExecution --------------------------
(* Small instances of OrderExecution for TLC. *)
EXTENDS OrderExecution, TLC

CONSTANTS o1, o2, w1, w2

MCOrders  == {o1, o2}
MCWorkers == {w1, w2}

\* Orders and workers are interchangeable in every safety property.
Symmetry == Permutations(MCOrders) \cup Permutations(MCWorkers)

=============================================================================
