---------------------------- MODULE MCAllocation ----------------------------
(* Instances of Allocation for TLC. *)
EXTENDS Allocation, TLC

Symmetry == Permutations(Uids) \cup Permutations(Helpers) \cup Permutations(Requests)
=============================================================================
