----------------------------- MODULE MCCutover ------------------------------
(* One store of each kind. *)
EXTENDS Cutover

AllKinds == <<"legacy-json", "opaque-file", "opaque-directory">>
=============================================================================
