---------------------------- MODULE ManagedOrders ----------------------------
(***************************************************************************)
(* Managed orders of one strategy position, from the intent to the final   *)
(* status: the order service's submit, cancel and apply_fill, the broker   *)
(* gateway's calls, and the reconciler that copies the broker's cumulative *)
(* fills into the ledger.                                                  *)
(*                                                                         *)
(* Every database transaction and every broker call is one step, so two    *)
(* requests, or a request and the scheduler, interleave between any two of *)
(* them.  A worker's local variables are a record task[w]; a process crash *)
(* empties all of them and keeps the database and the broker as they are.  *)
(***************************************************************************)
EXTENDS OrderState

CONSTANTS
  Order,        \* managed orders that own the position
  Buy,          \* the orders whose action is "buy"; the others are "sell"
  Requested,    \* requested quantity of each order
  Executor,     \* workers that run approve / reject / submit requests
  Canceler,     \* workers that run the dashboard's cancel request
  Reconciler,   \* workers that run reconciliation cycles
  NoOrder,      \* an idle worker's order
  MaxAttempts,  \* attempts of one place_order call (the HTTP client retries)
  MaxCrashes    \* bound: process crashes in a behaviour

ASSUME OrderAssumption == /\ IsFiniteSet(Order)
                          /\ Buy \subseteq Order
                          /\ NoOrder \notin Order
                          /\ Requested \in [Order -> Nat \ {0}]
ASSUME BoundAssumption == MaxAttempts \in Nat \ {0} /\ MaxCrashes \in Nat

Worker == Executor \cup Canceler \cup Reconciler

VARIABLES
  status,       \* status[o]: column of ai_managed_orders, or "absent"
  filled,       \* filled[o]: cumulative filled_qty in the ledger
  brokerId,     \* brokerId[o]: broker_order_id is recorded
  fills,        \* rows of ai_managed_fills: the fill keys already applied
  held,         \* remaining_qty of the strategy position
  resv,         \* status of the position's newest risk reservation
  placed,       \* placed[o]: orders the broker has accepted for o
  bkState,      \* bkState[o]: state, at the broker, of the latest of them
  bkFilled,     \* bkFilled[o]: its cumulative filled quantity
  task,         \* task[w]: local variables of the request w is running
  crashes

db     == <<status, filled, brokerId, fills, held, resv>>
broker == <<placed, bkState, bkFilled>>
vars   == <<status, filled, brokerId, fills, held, resv,
            placed, bkState, bkFilled, task, crashes>>

Reply   == {"accepted", "rejected", "unknown"}
BkState == {"none", "working", "filled", "canceled", "rejected"}
Pc == {"idle", "submit_call", "submit_record", "cancel_claim", "cancel_call",
       "cancel_record", "rec_fetch", "rec_unknown", "rec_apply", "rec_protect",
       "rec_settle", "finalize"}

IdleTask == [pc |-> "idle", ord |-> NoOrder, seen |-> "intent_created", local |-> 0,
             cum |-> 0, obs |-> "unknown", reply |-> "unknown", tries |-> 0]

Task == [pc : Pc, ord : Order \cup {NoOrder}, seen : Status, local : Nat, cum : Nat,
         obs : Observed, reply : Reply, tries : Nat]

At(w, pc) == task[w].pc = pc

DbTypeOK ==
  /\ status \in [Order -> Status \cup {"absent"}]
  /\ filled \in [Order -> Nat]
  /\ brokerId \in [Order -> BOOLEAN]
  /\ fills \subseteq [order : Order, key : Nat, qty : Nat]
  /\ held \in Nat
  /\ resv \in {"none", "active", "released", "consumed", "expired"}

BrokerTypeOK ==
  /\ placed \in [Order -> Nat]
  /\ bkState \in [Order -> BkState]
  /\ bkFilled \in [Order -> Nat]

\* A worker that is not idle works on an order.
TaskTypeOK ==
  /\ task \in [Worker -> Task]
  /\ \A w \in Worker : task[w].pc = "idle" \/ task[w].ord \in Order
  /\ crashes \in Nat

TypeOK == DbTypeOK /\ BrokerTypeOK /\ TaskTypeOK

Init ==
  /\ status = [o \in Order |-> "absent"]
  /\ filled = [o \in Order |-> 0]
  /\ brokerId = [o \in Order |-> FALSE]
  /\ fills = {}
  /\ held = 0
  /\ resv = "none"
  /\ placed = [o \in Order |-> 0]
  /\ bkState = [o \in Order |-> "none"]
  /\ bkFilled = [o \in Order |-> 0]
  /\ task = [w \in Worker |-> IdleTask]
  /\ crashes = 0

-----------------------------------------------------------------------------
(* Helpers: the end of a request, the compare-and-set of a status.         *)

Finish(w) == task' = [task EXCEPT ![w] = IdleTask]

\* (mutant) the UPDATE has lost its "WHERE status = expected"
CasBlind(o, expected, target) == CanMove(expected, target)

\* The guard of transition(): the move is in the graph and the row still has
\* the expected status.
Cas(o, expected, target) == CanMove(expected, target) /\ status[o] = expected

\* transition(): one transaction writes the status; a terminal target leaves the
\* reservation to a second transaction, the worker's next step.
Transition(w, o, target) ==
  /\ status' = [status EXCEPT ![o] = target]
  /\ IF target \in Terminal
       THEN task' = [task EXCEPT ![w] = [IdleTask EXCEPT !.pc = "finalize", !.ord = o]]
       ELSE Finish(w)

\* (mutant) the reservation takes the order's status
FinalReservationCopied(o) == IF resv = "active" THEN status[o] ELSE resv

\* (mutant) a partial fill of an order that was canceled is forgotten
FinalReservationByStatus(o) ==
  CASE resv # "active"                          -> resv
    [] resv = "active" /\ status[o] = "expired" -> "expired"
    [] OTHER -> IF status[o] = "filled" THEN "consumed" ELSE "released"

\* How _finalize_reservation closes the position's newest active reservation.
FinalReservation(o) ==
  CASE resv # "active"                          -> resv
    [] resv = "active" /\ status[o] = "expired" -> "expired"
    [] OTHER -> IF status[o] = "filled" \/ filled[o] > 0 THEN "consumed" ELSE "released"

-----------------------------------------------------------------------------
(* Before the broker: creation, approval, rejection, expiry.               *)

\* The cycle reserves risk budget for a buy (an active reservation of the
\* position is reused) and persists the order; a sell never asks for more than
\* the position holds.
CreateOrder(o) ==
  /\ status[o] = "absent"
  /\ o \in Buy \/ Requested[o] <= held
  /\ status' = [status EXCEPT ![o] = "intent_created"]
  /\ resv' = IF o \in Buy THEN "active" ELSE resv
  /\ UNCHANGED <<filled, brokerId, fills, held, broker, task, crashes>>

Advance(o, expected, target) ==
  /\ Cas(o, expected, target)
  /\ status' = [status EXCEPT ![o] = target]
  /\ UNCHANGED <<filled, brokerId, fills, held, resv, broker, task, crashes>>

MarkRiskApproved(o) == Advance(o, "intent_created", "risk_approved")
QueueApproval(o)    == Advance(o, "risk_approved", "approval_queued")
Approve(o)          == Advance(o, "approval_queued", "approved")

\* reject() from the approval bridge, expire_if_due() from it or from submit().
Withdraw(w, o, from, target) ==
  /\ At(w, "idle")
  /\ status[o] \in from
  /\ Cas(o, status[o], target)
  /\ Transition(w, o, target)
  /\ UNCHANGED <<filled, brokerId, fills, held, resv, broker, crashes>>

Reject(w, o)      == Withdraw(w, o, {"risk_approved", "approval_queued", "approved"},
                              "rejected")
ExpireIfDue(w, o) == Withdraw(w, o, {"approval_queued", "approved"}, "expired")

-----------------------------------------------------------------------------
(* submit(): claim the order, call the broker, record the answer.          *)

SubmitClaim(w, o) ==
  /\ At(w, "idle")
  /\ Cas(o, "approved", "submitting")
  /\ status' = [status EXCEPT ![o] = "submitting"]
  /\ task' = [task EXCEPT ![w] = [IdleTask EXCEPT !.pc = "submit_call", !.ord = o]]
  /\ UNCHANGED <<filled, brokerId, fills, held, resv, broker, crashes>>

\* A lost answer is an exception, which the HTTP client retries.
AttemptDone(t, reply) ==
  IF reply = "unknown" /\ t.tries + 1 < MaxAttempts
    THEN [t EXCEPT !.tries = t.tries + 1]
    ELSE [t EXCEPT !.pc = "submit_record", !.reply = reply]

\* One HTTP attempt of place_order: the broker accepts the order or not, and
\* its answer arrives or not.  The gateway checks the status before the first.
SubmitCall(w) ==
  LET o == task[w].ord IN
  /\ At(w, "submit_call")
  /\ \/ /\ task[w].tries = 0 /\ status[o] # "submitting"
        /\ task' = [task EXCEPT ![w].pc = "submit_record"]
        /\ UNCHANGED broker
     \/ /\ task[w].tries > 0 \/ status[o] = "submitting"
        /\ \E reply \in Reply, reached \in BOOLEAN :
             /\ reply = "accepted" => reached
             /\ reply = "rejected" => ~reached
             /\ IF reached
                  THEN /\ placed' = [placed EXCEPT ![o] = @ + 1]
                       /\ bkState' = [bkState EXCEPT ![o] = "working"]
                       /\ bkFilled' = [bkFilled EXCEPT ![o] = 0]
                  ELSE UNCHANGED broker
             /\ task' = [task EXCEPT ![w] = AttemptDone(@, reply)]
  /\ UNCHANGED <<db, crashes>>

\* (mutant) a submission without an answer counts as accepted
SubmitTargetHopeful(reply) == IF reply = "rejected" THEN "rejected" ELSE "submitted"

SubmitTarget(reply) == CASE reply = "accepted" -> "submitted"
                         [] reply = "rejected" -> "rejected"
                         [] OTHER              -> "broker_unknown"

\* The answer is written only if the order is still "submitting"; a loser of
\* the compare-and-set drops the broker's order number with the answer.
SubmitRecord(w) ==
  LET o == task[w].ord
      target == SubmitTarget(task[w].reply) IN
  /\ At(w, "submit_record")
  /\ IF Cas(o, "submitting", target)
       THEN /\ Transition(w, o, target)
            /\ brokerId' = [brokerId EXCEPT ![o] = @ \/ task[w].reply = "accepted"]
       ELSE Finish(w) /\ UNCHANGED <<status, brokerId>>
  /\ UNCHANGED <<filled, fills, held, resv, broker, crashes>>

-----------------------------------------------------------------------------
(* cancel(): the route reads the status and passes it on as "expected".    *)

AskBroker == {"submitting", "submitted", "partially_filled", "broker_unknown"}

CancelRead(w, o) ==
  /\ At(w, "idle")
  /\ status[o] \in Status \ Terminal
  /\ task' = [task EXCEPT ![w] =
                [IdleTask EXCEPT !.pc = "cancel_claim", !.ord = o, !.seen = status[o]]]
  /\ UNCHANGED <<db, broker, crashes>>

\* A status outside AskBroker is canceled without asking the broker.
CancelClaim(w) ==
  LET o == task[w].ord
      seen == task[w].seen IN
  /\ At(w, "cancel_claim")
  /\ \/ /\ seen \in AskBroker
        /\ Cas(o, seen, "cancel_pending")
        /\ status' = [status EXCEPT ![o] = "cancel_pending"]
        /\ task' = [task EXCEPT ![w].pc = "cancel_call", ![w].local = filled[o]]
     \/ /\ seen \notin AskBroker
        /\ Cas(o, seen, "canceled")
        /\ Transition(w, o, "canceled")
     \/ /\ status[o] # seen
        /\ Finish(w) /\ UNCHANGED status
  /\ UNCHANGED <<filled, brokerId, fills, held, resv, broker, crashes>>

\* A lost answer may have taken effect; the client's retry of an effective
\* cancel is answered "rejected".  Without a broker order number the gateway
\* reports the outcome unknown.
CancelCall(w) ==
  LET o == task[w].ord
      reaches == status[o] = "cancel_pending" /\ brokerId[o] IN
  /\ At(w, "cancel_call")
  /\ \E reply \in Reply, effect \in BOOLEAN :
       /\ effect => reaches /\ bkState[o] = "working"
       /\ reply = "accepted" => effect
       /\ ~reaches => reply = "unknown"
       /\ bkState' = IF effect THEN [bkState EXCEPT ![o] = "canceled"] ELSE bkState
       /\ task' = [task EXCEPT ![w].pc = "cancel_record", ![w].reply = reply]
  /\ UNCHANGED <<db, placed, bkFilled, crashes>>

CancelTarget(reply, local) ==
  CASE reply = "accepted" -> "canceled"
    [] reply = "unknown"  -> "broker_unknown"
    [] OTHER -> IF local > 0 THEN "partially_filled" ELSE "submitted"

CancelRecord(w) ==
  LET o == task[w].ord
      target == CancelTarget(task[w].reply, task[w].local) IN
  /\ At(w, "cancel_record")
  /\ IF Cas(o, "cancel_pending", target)
       THEN Transition(w, o, target)
       ELSE Finish(w) /\ UNCHANGED status
  /\ UNCHANGED <<filled, brokerId, fills, held, resv, broker, crashes>>

-----------------------------------------------------------------------------
(* reconcile(): compare the broker's cumulative fill with the ledger.      *)

RecRead(w, o) ==
  /\ At(w, "idle")
  /\ status[o] \in Unsettled
  /\ task' = [task EXCEPT ![w] =
                [IdleTask EXCEPT !.pc = "rec_fetch", !.ord = o,
                                 !.seen = status[o], !.local = filled[o]]]
  /\ UNCHANGED <<db, broker, crashes>>

\* (mutant) the ordered quantity is read for the executed one
SnapshotsOrdered(o) == {[obs |-> "filled", cum |-> Requested[o], priced |-> TRUE]}

\* The statuses the daily execution history may show of an order: one that was
\* refused is canceled, too, if the row says that nothing of it remains.
Shown(o) ==
  CASE bkFilled[o] = Requested[o]                            -> {"filled"}
    [] bkFilled[o] # Requested[o] /\ bkState[o] = "canceled" -> {"canceled"}
    [] bkState[o] = "rejected" /\ bkFilled[o] = 0            -> {"canceled", "rejected"}
    [] OTHER -> {IF bkFilled[o] > 0 THEN "partially_filled" ELSE "submitted"}

\* The row comes with a usable average price, or without.
Snapshots(o) == {[obs |-> s, cum |-> bkFilled[o], priced |-> p] :
                   s \in Shown(o), p \in BOOLEAN}

NotFound == [obs |-> "unknown", cum |-> 0, priced |-> FALSE]

\* The history is searched by broker order number, and may not list it yet.
Answers(o) == {NotFound} \cup (IF brokerId[o] THEN Snapshots(o) ELSE {})

\* More than was booked is applied; less than that, more than was ordered, or an
\* increment without a price, leaves the order unknown.
RecFetchAnswer(w, answer) ==
  LET o == task[w].ord
      local == task[w].local IN
  /\ At(w, "rec_fetch")
  /\ status[o] \in Unsettled
  /\ task' = [task EXCEPT ![w] =
       [@ EXCEPT !.obs = answer.obs, !.cum = answer.cum,
                 !.pc = CASE answer.cum = local -> "rec_settle"
                          [] answer.cum \in (local + 1)..Requested[o] /\ answer.priced
                               -> "rec_apply"
                          [] OTHER -> "rec_unknown"]]
  /\ UNCHANGED <<db, broker, crashes>>

\* The query raises: the order is skipped until the next cycle.
RecFetchError(w) ==
  /\ At(w, "rec_fetch")
  /\ Finish(w)
  /\ UNCHANGED <<db, broker, crashes>>

RecFetch(w) ==
  /\ At(w, "rec_fetch")
  /\ \/ \E answer \in Answers(task[w].ord) : RecFetchAnswer(w, answer)
     \/ RecFetchError(w)

\* _mark_unknown() from the status the worker saw.
RecUnknown(w) ==
  LET o == task[w].ord
      seen == task[w].seen IN
  /\ At(w, "rec_unknown")
  /\ IF seen # "broker_unknown" /\ Cas(o, seen, "broker_unknown")
       THEN status' = [status EXCEPT ![o] = "broker_unknown"]
       ELSE UNCHANGED status
  /\ Finish(w)
  /\ UNCHANGED <<filled, brokerId, fills, held, resv, broker, crashes>>

FillOf(o, key) == {f \in fills : f.order = o /\ f.key = key}

\* apply_managed_fill(): a fill key already present is returned as a duplicate
\* if its quantity agrees; otherwise the fill is checked and the order, the
\* position and the fill row are written in one transaction.
DuplicateFill(w) ==
  LET o == task[w].ord
      delta == task[w].cum - task[w].local IN
  /\ At(w, "rec_apply")
  /\ [order |-> o, key |-> task[w].cum, qty |-> delta] \in fills
  /\ status[o] \in Status
  /\ task' = [task EXCEPT ![w].pc = "rec_protect", ![w].seen = status[o]]
  /\ UNCHANGED <<db, broker, crashes>>

\* (mutant) a fill key is not looked up before the fill is applied
FillAppliesAgain(o, key, delta) ==
  /\ delta > 0
  /\ status[o] \in Unsettled
  /\ filled[o] + delta <= Requested[o]
  /\ o \in Buy \/ delta <= held

\* (mutant) a fill is applied whatever the order's status
FillAppliesLate(o, key, delta) ==
  /\ delta > 0
  /\ FillOf(o, key) = {}
  /\ filled[o] + delta <= Requested[o]
  /\ o \in Buy \/ delta <= held

FillApplies(o, key, delta) ==
  /\ delta > 0
  /\ FillOf(o, key) = {}
  /\ status[o] \in Unsettled
  /\ filled[o] + delta <= Requested[o]
  /\ o \in Buy \/ delta <= held

\* (mutant) the boundary of completion is off by one
FillStatusLater(o, total) == IF total > Requested[o] THEN "filled" ELSE "partially_filled"

FillStatus(o, total) == IF total = Requested[o] THEN "filled" ELSE "partially_filled"

HeldAfter(o, delta) == IF o \in Buy THEN held + delta ELSE held - delta

ApplyFill(w) ==
  LET o == task[w].ord
      delta == task[w].cum - task[w].local
      total == filled[o] + delta IN
  /\ At(w, "rec_apply")
  /\ FillApplies(o, task[w].cum, delta)
  /\ filled' = [filled EXCEPT ![o] = total]
  /\ status' = [status EXCEPT ![o] = FillStatus(o, total)]
  /\ fills' = fills \cup {[order |-> o, key |-> task[w].cum, qty |-> delta]}
  /\ held' = HeldAfter(o, delta)
  /\ task' = [task EXCEPT ![w].pc = "rec_protect", ![w].seen = FillStatus(o, total)]
  /\ UNCHANGED <<brokerId, resv, broker, crashes>>

\* apply_fill() reads the status before the transaction, which checks it again:
\* a duplicate, too, is refused if the order was seen to have ended.
FillRefused(w) ==
  LET o == task[w].ord
      delta == task[w].cum - task[w].local IN
  /\ At(w, "rec_apply")
  /\ ~FillApplies(o, task[w].cum, delta)
  /\ \/ status[o] \notin Unsettled
     \/ [order |-> o, key |-> task[w].cum, qty |-> delta] \notin fills
  /\ Finish(w)
  /\ UNCHANGED <<db, broker, crashes>>

\* The stop order that must cover the fill is confirmed: a completed order
\* closes the reservation, and the status is read again.
ProtectOk(w) ==
  LET o == task[w].ord IN
  /\ At(w, "rec_protect")
  /\ status[o] \in Status
  /\ resv' = IF task[w].seen = "filled" THEN FinalReservation(o) ELSE resv
  /\ task' = [task EXCEPT ![w].pc = "rec_settle", ![w].seen = status[o]]
  /\ UNCHANGED <<status, filled, brokerId, fills, held, broker, crashes>>

\* Protection is not confirmed: the committed fill stays, the call raises.
ProtectFails(w) ==
  /\ At(w, "rec_protect")
  /\ Finish(w)
  /\ UNCHANGED <<db, broker, crashes>>

RecSettle(w) ==
  LET o == task[w].ord
      seen == task[w].seen
      wanted == TargetStatus(task[w].obs, task[w].cum, Requested[o])
      target == IF CanMove(seen, wanted) THEN wanted ELSE "broker_unknown" IN
  /\ At(w, "rec_settle")
  /\ IF wanted \notin {NoTarget, seen} /\ seen # target /\ Cas(o, seen, target)
       THEN Transition(w, o, target)
       ELSE Finish(w) /\ UNCHANGED status
  /\ UNCHANGED <<filled, brokerId, fills, held, resv, broker, crashes>>

-----------------------------------------------------------------------------
(* The second transaction of a terminal transition, crashes, the broker.   *)

Finalize(w) ==
  /\ At(w, "finalize")
  /\ resv' = FinalReservation(task[w].ord)
  /\ Finish(w)
  /\ UNCHANGED <<status, filled, brokerId, fills, held, broker, crashes>>

Crash ==
  /\ crashes < MaxCrashes
  /\ crashes' = crashes + 1
  /\ task' = [w \in Worker |-> IdleTask]
  /\ UNCHANGED <<db, broker>>

BrokerFill(o) ==
  /\ bkState[o] = "working"
  /\ bkFilled' = [bkFilled EXCEPT ![o] = @ + 1]
  /\ bkState' = [bkState EXCEPT ![o] =
                   IF bkFilled[o] + 1 = Requested[o] THEN "filled" ELSE @]
  /\ UNCHANGED <<db, placed, task, crashes>>

\* A day order that is not complete lapses at the close; an order without a
\* fill may be refused by the exchange.
BrokerEnd(o) ==
  /\ bkState[o] = "working"
  /\ \E end \in {"canceled", "rejected"} :
       /\ end = "rejected" => bkFilled[o] = 0
       /\ bkState' = [bkState EXCEPT ![o] = end]
  /\ UNCHANGED <<db, placed, bkFilled, task, crashes>>

-----------------------------------------------------------------------------
OrderStep(o) ==
  \/ CreateOrder(o) \/ MarkRiskApproved(o) \/ QueueApproval(o) \/ Approve(o)
  \/ BrokerFill(o) \/ BrokerEnd(o)

ExecutorStep(w) ==
  \/ \E o \in Order : Reject(w, o) \/ ExpireIfDue(w, o) \/ SubmitClaim(w, o)
  \/ SubmitCall(w) \/ SubmitRecord(w)

CancelerStep(w) ==
  \/ \E o \in Order : CancelRead(w, o)
  \/ CancelClaim(w) \/ CancelCall(w) \/ CancelRecord(w)

ReconcilerStep(w) ==
  \/ \E o \in Order : RecRead(w, o)
  \/ RecFetch(w) \/ RecUnknown(w)
  \/ DuplicateFill(w) \/ ApplyFill(w) \/ FillRefused(w)
  \/ ProtectOk(w) \/ ProtectFails(w) \/ RecSettle(w)

Next ==
  \/ \E o \in Order : OrderStep(o)
  \/ \E w \in Executor : ExecutorStep(w)
  \/ \E w \in Canceler : CancelerStep(w)
  \/ \E w \in Reconciler : ReconcilerStep(w)
  \/ \E w \in Worker : Finalize(w)
  \/ Crash

Spec == Init /\ [][Next]_vars

\* A cycle that has begun goes on, cycles are repeated (the scheduler's interval),
\* a query that is repeated is answered in the end, and the exchange closes.
\* Requests of operators and crashes have no fairness.
Fairness ==
  /\ \A o \in Order : WF_vars(BrokerEnd(o))
  /\ \A w \in Executor : WF_vars(SubmitCall(w)) /\ WF_vars(SubmitRecord(w))
  /\ \A w \in Canceler : WF_vars(CancelClaim(w) \/ CancelCall(w) \/ CancelRecord(w))
  /\ \A w \in Reconciler :
       /\ \A o \in Order : WF_vars(RecRead(w, o))
       /\ SF_vars(\E o \in Order : /\ task[w].ord = o /\ brokerId[o]
                                   /\ \E s \in Snapshots(o) : s.priced /\ RecFetchAnswer(w, s))
       /\ WF_vars(RecFetch(w))
       /\ WF_vars(RecUnknown(w) \/ RecSettle(w))
       /\ WF_vars(DuplicateFill(w) \/ ApplyFill(w) \/ FillRefused(w))
       /\ WF_vars(ProtectOk(w) \/ ProtectFails(w))
  /\ \A w \in Worker : WF_vars(Finalize(w))

FairSpec == Spec /\ Fairness

-----------------------------------------------------------------------------
(* Properties.                                                             *)

\* An order's status is "filled" exactly when its whole quantity is booked,
\* although reconcile() may ask for "filled" on the strength of a snapshot that
\* other workers have overtaken, and apply_managed_fill() writes a status without
\* consulting the graph.
FilledIffComplete ==
  \A o \in Order : (status[o] = "filled") <=> (filled[o] = Requested[o])

\* A status only moves along ALLOWED_TRANSITIONS, the fill transaction included,
\* so a terminal status is never left.
LegalTransitions ==
  [][\A o \in Order :
       status'[o] # status[o] =>
         \/ status[o] = "absent" /\ status'[o] = "intent_created"
         \/ CanMove(status[o], status'[o])]_vars

\* One submission per order: every order the broker accepted stems from the
\* attempts of a single place_order call, whatever is requested concurrently and
\* wherever the process crashes.
OneSubmission == \A o \in Order : placed[o] <= MaxAttempts

\* A status that says the broker works or has filled the order comes with the
\* broker's order number, without which it can be neither queried nor canceled.
WorkingHasBrokerId ==
  \A o \in Order :
    status[o] \in {"submitted", "partially_filled", "filled"} \/ filled[o] > 0
      => brokerId[o]

\* An order that expired, or was rejected or canceled before its submission was
\* claimed, never reaches the broker: expiry is decided before the claim.
ExpiredNeverPlaced == \A o \in Order : status[o] = "expired" => placed[o] = 0

\* The ledger never books more than the broker executed (of the order whose
\* number is on record).
FilledWithinBroker == \A o \in Order : filled[o] <= bkFilled[o]

\* The three places a fill is written to agree: an order's cumulative quantity is
\* the sum of its fill rows, and the position holds what was bought minus what was
\* sold.
LedgerAgrees ==
  /\ \A o \in Order :
       filled[o] = Total([f \in fills |-> f.qty], {f \in fills : f.order = o})
  /\ held + Total(filled, Order \ Buy) = Total(filled, Buy)

\* A position has one newest reservation and any number of orders, each of which
\* closes it when it ends.  The budget is there from the first buy on, stays
\* reserved at least until an order of the position has ended, is given back as
\* unused or as expired only after an order that ended so, and counts as spent
\* only after an order that traded: what a crash, an overlapping fill or a late
\* answer leaves between the status and the reservation never closes it early.
ReservationFollowsOrder ==
  /\ resv = "none"     => \A o \in Buy : status[o] = "absent"
  /\ resv = "expired"  => \E o \in Order : status[o] = "expired"
  /\ resv = "released" => \E o \in Order : status[o] \in Terminal /\ filled[o] = 0
  /\ resv = "consumed" => \E o \in Order : status[o] \in Terminal /\ filled[o] > 0

PhaseOf(s) == CASE s \in PreBroker \cup {"absent"} -> "before"
                [] s \in Unsettled                 -> "live"
                [] s = "filled"                    -> "complete"
                [] OTHER                           -> "dead"

\* The orders keep the contract of OrderContract: one life at the broker, fills
\* only during it, completion with the last unit, nothing after the end.
Contract == INSTANCE OrderContract
              WITH phase <- [o \in Order |-> PhaseOf(status[o])], traded <- filled

ImplementsContract == Contract!Spec

\* Once operators stop asking for cancellations, an order whose broker number is
\* on record is settled in the end: repeated reconciliation gets every such order
\* out of submitted, partially_filled, cancel_pending and broker_unknown.
NumberedOrderSettles ==
  <>[](\A w \in Canceler : At(w, "idle"))
    => \A o \in Order : brokerId[o] ~> status[o] \in Terminal
=============================================================================
