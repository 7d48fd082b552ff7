--------------------------- MODULE MCResultCache ---------------------------
(* Instances of ResultCache for TLC. *)
EXTENDS ResultCache, TLC

CallerSymmetry == Permutations(Callers)

=============================================================================
