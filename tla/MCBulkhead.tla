------------------------------ MODULE MCBulkhead ------------------------------
(* Instances of Middleware, and of the bulkhead in it, for TLC. *)
EXTENDS Middleware, TLC

Symmetry == Permutations(Tasks) \cup Permutations(Loops)

=============================================================================
