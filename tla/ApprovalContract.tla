--------------------------- MODULE ApprovalContract ---------------------------
(***************************************************************************)
(* What the approval queue promises to the operator, whoever approves,     *)
(* rejects or sweeps and whatever stops: an approval is decided once, the  *)
(* broker receives orders for it only between its claim and its end, no    *)
(* more than MaxOrders of them, and it is called executed only if there is *)
(* one.                                                                    *)
(***************************************************************************)
EXTENDS Naturals

CONSTANTS Approval, MaxOrders

VARIABLES status, orders

contract == <<status, orders>>

Init == /\ status = [a \in Approval |-> "absent"]
        /\ orders = [a \in Approval |-> 0]

Becomes(a, from, to) ==
  /\ status[a] = from
  /\ status' = [status EXCEPT ![a] = to]
  /\ UNCHANGED orders

Queue(a)  == Becomes(a, "absent", "pending")
Reject(a) == Becomes(a, "pending", "rejected")
Claim(a)  == Becomes(a, "pending", "executing")

\* The broker accepts an order; more than one only if an answer was lost.
Order(a) ==
  /\ status[a] = "executing" /\ orders[a] < MaxOrders
  /\ orders' = [orders EXCEPT ![a] = @ + 1]
  /\ UNCHANGED status

\* A claim may be given up although the broker has accepted an order.
Fail(a)    == Becomes(a, "executing", "failed")
Execute(a) == orders[a] > 0 /\ Becomes(a, "executing", "executed")

Next == \E a \in Approval : \/ Queue(a) \/ Reject(a) \/ Claim(a)
                            \/ Order(a) \/ Fail(a) \/ Execute(a)

Spec == Init /\ [][Next]_contract
=============================================================================
