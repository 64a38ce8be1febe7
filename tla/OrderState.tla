----------------------------- MODULE OrderState -----------------------------
(***************************************************************************)
(* The status vocabulary of a managed order, its transition graph, and the *)
(* status a broker observation asks for.  No state of its own: it is       *)
(* shared by every module in which an order's status moves.  At the end,   *)
(* how quantities are added up.                                            *)
(***************************************************************************)
EXTENDS Naturals, FiniteSets

Terminal == {"filled", "rejected", "expired", "canceled"}

\* (mutant) the reconciler's query forgets the orders being canceled
UnsettledNotPending == {"submitting", "submitted", "partially_filled", "broker_unknown"}

\* Statuses in which the broker may hold the order: the only ones the
\* reconciler enumerates and the only ones in which a fill may be applied.
Unsettled == {"submitting", "submitted", "partially_filled",
              "cancel_pending", "broker_unknown"}

PreBroker == {"intent_created", "risk_approved", "approval_queued", "approved"}

Status == PreBroker \cup Unsettled \cup Terminal

AllowedTransitions ==
  [s \in Status |->
     CASE s = "intent_created"   -> {"risk_approved", "rejected", "expired", "canceled"}
       [] s = "risk_approved"    -> {"approval_queued", "approved", "rejected",
                                     "expired", "canceled"}
       [] s = "approval_queued"  -> {"approved", "rejected", "expired", "canceled"}
       [] s = "approved"         -> {"submitting", "rejected", "expired", "canceled"}
       [] s = "submitting"       -> {"submitted", "partially_filled", "filled",
                                     "broker_unknown", "rejected", "cancel_pending"}
       [] s = "submitted"        -> {"partially_filled", "filled", "broker_unknown",
                                     "rejected", "cancel_pending", "canceled"}
       [] s = "partially_filled" -> {"filled", "broker_unknown", "cancel_pending",
                                     "canceled"}
       [] s = "broker_unknown"   -> {"broker_unknown", "submitted", "partially_filled",
                                     "filled", "rejected", "cancel_pending", "canceled"}
       [] s = "cancel_pending"   -> {"canceled", "broker_unknown", "submitted",
                                     "partially_filled", "filled", "rejected"}
       [] OTHER                  -> {}]

CanMove(from, to) == from \in Status /\ to \in AllowedTransitions[from]

\* What a status query at the broker can report.
Observed == {"submitted", "partially_filled", "filled", "canceled", "rejected",
             "unknown"}

NoTarget == "no_target"

\* The status a broker observation asks for, given its cumulative fill.
TargetStatus(obs, cum, requested) ==
  CASE cum = requested /\ requested > 0 -> "filled"
    [] cum # requested /\ cum > 0 ->
         IF obs \in {"canceled", "rejected"} THEN "canceled" ELSE "partially_filled"
    [] OTHER ->
         CASE obs = "unknown" -> "broker_unknown"
           [] obs \in {"submitted", "canceled", "rejected"} -> obs
           [] OTHER -> NoTarget

\* The sum of the quantities f[x], x \in S, as the number of their units.
Units(f, S) == UNION {{x} \X (1 .. f[x]) : x \in S}
Total(f, S) == Cardinality(Units(f, S))
=============================================================================
