---------------------------- MODULE MCTokenBucket ----------------------------
(* Instances of TokenBucket for TLC. *)
EXTENDS TokenBucket, TLC

CallerSymmetry == Permutations(Callers)

=============================================================================
