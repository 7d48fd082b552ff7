---------------------------- MODULE MCTimeoutPool ----------------------------
(* Instances of TimeoutPool for TLC. *)
EXTENDS TimeoutPool, TLC

Symmetry == Permutations(Attempts) \cup Permutations(Workers)

=============================================================================
