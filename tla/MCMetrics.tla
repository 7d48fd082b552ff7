------------------------------ MODULE MCMetrics ------------------------------
(* Instances of Metrics for TLC. *)
EXTENDS Metrics, TLC

ContextSymmetry == Permutations(Contexts)

=============================================================================
