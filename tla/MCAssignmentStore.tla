------------------------- MODULE MCAssignmentStore --------------------------
(* Instances of AssignmentStore for TLC. *)
EXTENDS AssignmentStore, TLC

Symmetry == Permutations(Actors) \cup Permutations(Issues) \cup Permutations(Keys)
=============================================================================
