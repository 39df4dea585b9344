---------------------------- MODULE MCSeedProgram ----------------------------
(* Instances of SeedProgram for TLC. *)
EXTENDS SeedProgram
=============================================================================
