--------------------------- MODULE MCManagedOrders ---------------------------
(* Instances of ManagedOrders for TLC. *)
EXTENDS ManagedOrders

CONSTANTS b1, s1

TwoUnits == [o \in Order |-> 2]
=============================================================================
