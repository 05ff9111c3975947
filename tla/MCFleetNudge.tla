---------------------------- MODULE MCFleetNudge ----------------------------
(* Instances of the fleet nudge for TLC. *)
EXTENDS FleetNudge, TLC

Symmetry == Permutations(Procs)
=============================================================================
