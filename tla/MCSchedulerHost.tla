--------------------------- MODULE MCSchedulerHost ---------------------------
(***************************************************************************)
(* Instances of SchedulerHost for TLC.                                     *)
(***************************************************************************)
EXTENDS SchedulerHost
=============================================================================
