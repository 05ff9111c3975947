------------------------- MODULE MCAssignmentSweep -------------------------
(* Instances of AssignmentSweep for TLC. *)
EXTENDS AssignmentSweep, TLC
=============================================================================
