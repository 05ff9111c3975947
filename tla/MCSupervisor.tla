---------------------------- MODULE MCSupervisor ----------------------------
(* Instances of the supervisor for TLC. *)
EXTENDS Supervisor
=============================================================================
