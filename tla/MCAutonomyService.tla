-------------------------- MODULE MCAutonomyService --------------------------
(***************************************************************************)
(* Instances of AutonomyService for TLC.                                   *)
(***************************************************************************)
EXTENDS AutonomyService
=============================================================================
