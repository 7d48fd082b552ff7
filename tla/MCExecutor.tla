------------------------------ MODULE MCExecutor ------------------------------
(* Instances of Executor for TLC. *)
EXTENDS Executor, TLC

CallSymmetry == Permutations(Calls)

=============================================================================
