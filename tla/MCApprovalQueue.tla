--------------------------- MODULE MCApprovalQueue ---------------------------
(* Instances of ApprovalQueue for TLC. *)
EXTENDS ApprovalQueue

CONSTANTS t1, t2, web, cron

OneProcess == [t \in {t1, t2} |-> web]
TwoProcesses == [t \in {t1, t2} |-> IF t = t1 THEN web ELSE cron]

\* Approvals 1 and 2 are of the same symbol.
SharedSymbol == <<"x", "x", "y">>
TwoSymbols == <<"x", "y">>
ThreeSymbols == <<"x", "y", "z">>
=============================================================================
