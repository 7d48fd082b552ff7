----------------------------- MODULE MCRegistry -----------------------------
(* Instances of Registry for TLC. *)
EXTENDS Registry, TLC

Symmetry ==
  Permutations(Names) \cup Permutations(SyncFuncs) \cup Permutations(AsyncFuncs)

=============================================================================
