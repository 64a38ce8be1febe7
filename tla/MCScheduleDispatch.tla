------------------------- MODULE MCScheduleDispatch -------------------------
(***************************************************************************)
(* Instances of ScheduleDispatch for TLC.                                  *)
(***************************************************************************)
EXTENDS ScheduleDispatch
=============================================================================
