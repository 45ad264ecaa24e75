---------------------------- MODULE MCLifecycle ----------------------------
(* Instances of Lifecycle for TLC.                                         *)
EXTENDS Lifecycle, TLC

Symmetry == Permutations(Id) \cup Permutations(Tasks)
=============================================================================
