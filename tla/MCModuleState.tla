---------------------------- MODULE MCModuleState ----------------------------
(* Instances of ModuleState for TLC. *)
EXTENDS ModuleState

CONSTANTS i1, i2
Two == {i1, i2}
=============================================================================
