------------------------ MODULE MCHardStopProtection ------------------------
(* Instances of HardStopProtection for TLC. *)
EXTENDS HardStopProtection

CONSTANTS w1, w2
=============================================================================
