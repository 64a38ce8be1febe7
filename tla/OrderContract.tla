---------------------------- MODULE OrderContract ----------------------------
(***************************************************************************)
(* What a set of managed orders promises to the strategy's ledger, whoever *)
(* submits, cancels or reconciles them: an order trades only between its   *)
(* one submission and its end, it is complete exactly when its whole       *)
(* quantity has been filled, and nothing changes after the end.            *)
(***************************************************************************)
EXTENDS Naturals

CONSTANTS Order, Requested

VARIABLES phase, traded

Phase == {"before", "live", "complete", "dead"}

contract == <<phase, traded>>

Init == /\ phase = [o \in Order |-> "before"]
        /\ traded = [o \in Order |-> 0]

\* The order goes to the broker, or ends without having reached it.
Leave(o) ==
  /\ phase[o] = "before"
  /\ \E next \in {"live", "dead"} : phase' = [phase EXCEPT ![o] = next]
  /\ UNCHANGED traded

\* A fill is booked; the order is complete with its last unit.
Fill(o) ==
  /\ phase[o] = "live"
  /\ \E total \in traded[o] + 1 .. Requested[o] :
       /\ traded' = [traded EXCEPT ![o] = total]
       /\ phase' = [phase EXCEPT ![o] = IF total = Requested[o] THEN "complete"
                                                                 ELSE "live"]

\* The remainder is canceled or refused: possible only while some remains.
End(o) ==
  /\ phase[o] = "live"
  /\ traded[o] < Requested[o]
  /\ phase' = [phase EXCEPT ![o] = "dead"]
  /\ UNCHANGED traded

Next == \E o \in Order : Leave(o) \/ Fill(o) \/ End(o)

Spec == Init /\ [][Next]_contract
=============================================================================
