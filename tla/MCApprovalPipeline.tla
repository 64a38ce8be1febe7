------------------------- MODULE MCApprovalPipeline -------------------------
(* Instances of ApprovalPipeline for TLC. *)
EXTENDS ApprovalPipeline

CONSTANTS c1, c2, p1, p2

OwnPositions == [o \in Order |-> IF o = 1 THEN p1 ELSE p2]
TwoCycles    == [o \in Order |-> IF o = 1 THEN c1 ELSE c2]
TwoShares    == [o \in Order |-> 2]
=============================================================================
