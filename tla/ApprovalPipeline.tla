-------------------------- MODULE ApprovalPipeline --------------------------
(***************************************************************************)
(* From a planning cycle to the broker's door: the cycle reads the account *)
(* and the reservations, sizes each buy, creates its position, its risk    *)
(* reservation and its managed order, and queues it for approval; the      *)
(* dashboard approves, rejects or cancels it; an approved order is checked *)
(* again and claimed for submission.                                       *)
(*                                                                         *)
(* The order row and the approval row are written by separate transactions *)
(* and every transaction or account query is a step of its own.  What the  *)
(* broker then does with the order is the subject of ManagedOrders; here   *)
(* it ends in one step of a reconciler.  All orders are buys.              *)
(***************************************************************************)
EXTENDS OrderState, Integers

CONSTANTS
  Order,        \* the buy orders that cycles may plan
  Position,     \* the strategy positions
  PositionOf,   \* the position each order belongs to
  Entry,        \* orders that open their position; the others add to an open one
  PlannedBy,    \* the cycle worker that plans each order
  Want,         \* the most the other caps let each order ask for
  Limit,        \* the account's limit, in units of one share
  Providers,    \* snapshot providers in use at the approval
  Cycle,        \* workers that run planning cycles
  Operator,     \* workers that run approve / reject / cancel requests
  Reconciler,   \* workers that settle orders at the broker
  NoOrder,      \* an idle worker's order
  MaxCrashes    \* bound: process crashes in a behaviour

ASSUME PipelineAssumption ==
  /\ IsFiniteSet(Position)
  /\ PositionOf \in [Order -> Position]
  /\ PlannedBy \in [Order -> Cycle]
  /\ Entry \subseteq Order
  /\ \A o \in Entry : \A q \in Order \ {o} : PositionOf[q] # PositionOf[o]
  /\ Want \in [Order -> Nat \ {0}]
  /\ Providers \subseteq {"contract", "operational"}
  /\ Limit \in Nat /\ MaxCrashes \in Nat
  /\ NoOrder \notin Order

Worker == Cycle \cup Operator \cup Reconciler

VARIABLES
  status,     \* status[o]: column of ai_managed_orders, or "absent"
  qty,        \* qty[o]: requested_qty, fixed when the cycle sizes the order
  bound,      \* bound[o]: the order row carries its approval's id
  approval,   \* approval[o]: status of the order's row in approvals, or "absent"
  resv,       \* resv[p]: amount of the position's active reservation, 0 if none
  pos,        \* pos[p]: status of the strategy position, or "absent"
  held,       \* held[p]: quantity the account holds for the position
  task,       \* task[w]: local variables of the request w is running
  crashes

orders == <<status, qty, bound>>
vars   == <<status, qty, bound, approval, resv, pos, held, task, crashes>>

Live == PreBroker \cup Unsettled

IdleTask == [pc |-> "idle", ord |-> NoOrder, todo |-> {}, made |-> {}, ask |-> 0,
             cap |-> 0, room |-> 0, seen |-> "absent", next |-> "idle"]

CyclePc == {"plan_risk", "plan_next", "position", "reserve", "create", "abandon",
            "mark", "queue_next", "bind", "queue", "queue_row", "queue_order"}
OperatorPc == {"ap_check", "ap_account", "ap_risk", "ap_order", "ap_row", "ap_fail",
               "ap_reject", "ap_close", "ex_check", "ex_account", "ex_risk", "ex_fail", "ex_claim",
               "rj_order", "rj_row", "cancel"}
Pc == CyclePc \cup OperatorPc \cup {"idle", "finalize"}

\* Between two orders a worker may have none.
Free == {"idle", "plan_risk", "plan_next", "mark", "queue_next"}

Task == {t \in [pc : Pc, ord : Order \cup {NoOrder}, todo : SUBSET Order,
                made : SUBSET Order, ask : Nat, cap : Nat, room : Nat,
                seen : Status \cup {"absent"}, next : Pc] :
           t.pc \in Free \/ t.ord \in Order}

TypeOK ==
  /\ status \in [Order -> Status \cup {"absent"}]
  /\ qty \in [Order -> Nat]
  /\ bound \in [Order -> BOOLEAN]
  /\ approval \in [Order -> {"absent", "pending", "approved", "rejected"}]
  /\ resv \in [Position -> Nat]
  /\ pos \in [Position -> {"absent", "pending_entry", "open", "closed"}]
  /\ held \in [Position -> Nat]
  /\ task \in [Worker -> Task]
  /\ crashes \in Nat

\* The positions that are added to are open and hold one share.
Grown == {PositionOf[o] : o \in Order \ Entry}

Init ==
  /\ status = [o \in Order |-> "absent"]
  /\ qty = [o \in Order |-> 0]
  /\ bound = [o \in Order |-> FALSE]
  /\ approval = [o \in Order |-> "absent"]
  /\ resv = [p \in Position |-> 0]
  /\ pos = [p \in Position |-> IF p \in Grown THEN "open" ELSE "absent"]
  /\ held = [p \in Position |-> IF p \in Grown THEN 1 ELSE 0]
  /\ task = [w \in Worker |-> IdleTask]
  /\ crashes = 0

-----------------------------------------------------------------------------
(* What the rows say.                                                      *)

At(w, pc) == task[w].pc = pc
Goto(w, pc) == task' = [task EXCEPT ![w].pc = pc]
Finish(w) == task' = [task EXCEPT ![w] = IdleTask]

Cas(o, expected, target) == CanMove(expected, target) /\ status[o] = expected

\* An active reservation counts with what its order has not filled yet.
Reserved == Total(resv, Position)

HeldByAccount == Total(held, Position)

\* max(0, limit - exposure): what the reservations together may take, and
\* max(0, cap - reserved): what they leave.
CapNow == {n \in 0..Limit : n = 0 \/ HeldByAccount + n <= Limit}
RoomNow(cap) == {n \in 0..cap : n = 0 \/ Reserved + n <= cap}
Largest(n, S) == n \in S /\ \A k \in S : k <= n

\* The operational snapshot asks every active position for a positive quantity,
\* the ones still waiting for their entry included.
SnapshotFails(provider) ==
  /\ provider = "operational"
  /\ \E p \in Position : pos[p] \in {"pending_entry", "open"} /\ held[p] = 0

\* The provider is given the order's own reservation to leave out.  The operational
\* one looks for it under a name the rows do not have, and leaves nothing out.
ReservedForCheck(o, provider) ==
  IF provider = "contract" THEN Reserved - resv[PositionOf[o]] ELSE Reserved

-----------------------------------------------------------------------------
(* transition(): the status and, when it is final, the reservation, which  *)
(* is a second transaction; then the caller goes on at "next".             *)

Close(w, o, target, next) ==
  /\ status' = [status EXCEPT ![o] = target]
  /\ task' = [task EXCEPT ![w].pc = "finalize", ![w].ord = o, ![w].next = next]

\* (mutant) the budget is given back as soon as the order is claimed
ClosesBudgetOnClaim(w) == At(w, "finalize") \/ At(w, "ex_claim")

ClosesBudget(w) == At(w, "finalize")

\* _finalize_reservation closes the active reservation of the order's position.
Finalize(w) ==
  /\ ClosesBudget(w)
  /\ resv' = [resv EXCEPT ![PositionOf[task[w].ord]] = 0]
  /\ IF task[w].next = "idle" THEN Finish(w) ELSE Goto(w, task[w].next)
  /\ UNCHANGED <<orders, approval, pos, held, crashes>>

-----------------------------------------------------------------------------
(* The planning cycle: snapshot, then each intent, then the queue.         *)

\* The account is read first; an unusable snapshot ends the cycle before it starts.
PlanAccount(c) ==
  LET todo == {o \in Order : PlannedBy[o] = c /\ status[o] = "absent"} IN
  /\ At(c, "idle")
  /\ todo # {}
  /\ \E provider \in Providers : ~SnapshotFails(provider)
  /\ \E cap \in CapNow :
       /\ Largest(cap, CapNow)
       /\ task' = [task EXCEPT ![c] =
                     [IdleTask EXCEPT !.pc = "plan_risk", !.todo = todo, !.cap = cap]]
  /\ UNCHANGED <<orders, approval, resv, pos, held, crashes>>

\* The reservations are read afterwards: one risk snapshot for the whole cycle.
PlanRisk(c) ==
  /\ At(c, "plan_risk")
  /\ \E room \in RoomNow(task[c].cap) :
       /\ Largest(room, RoomNow(task[c].cap))
       /\ task' = [task EXCEPT ![c].pc = "plan_next", ![c].room = room]
  /\ UNCHANGED <<orders, approval, resv, pos, held, crashes>>

Sized(c, o) == IF Want[o] < task[c].room THEN Want[o] ELSE task[c].room

Worthwhile(c, o) == Sized(c, o) > 0

\* The next intent: the risk envelope sizes it or refuses it.
PlanIntent(c) ==
  /\ At(c, "plan_next")
  /\ \E o \in task[c].todo :
       IF Worthwhile(c, o)
         THEN task' = [task EXCEPT ![c] = [task[c] EXCEPT
                !.pc = IF o \in Entry THEN "position" ELSE "reserve",
                !.ord = o, !.ask = Sized(c, o), !.todo = @ \ {o}]]
         ELSE task' = [task EXCEPT ![c].todo = @ \ {o}]
  /\ UNCHANGED <<orders, approval, resv, pos, held, crashes>>

\* create_strategy_position: one active position per symbol and strategy.
CreatePosition(c) ==
  LET p == PositionOf[task[c].ord] IN
  /\ At(c, "position")
  /\ IF pos[p] \in {"pending_entry", "open"}
       THEN Goto(c, "plan_next") /\ UNCHANGED pos
       ELSE Goto(c, "reserve") /\ pos' = [pos EXCEPT ![p] = "pending_entry"]
  /\ UNCHANGED <<orders, approval, resv, held, crashes>>

\* (mutant) the sum is the one the cycle read, not the one in the transaction
BudgetAllowsAsRead(c, p) == task[c].ask <= task[c].room

BudgetAllows(c, p) == Reserved + task[c].ask <= task[c].cap

\* reserve_risk_budget: one transaction; an active reservation of the position is
\* returned again when the amounts agree.
Reserve(c) ==
  LET p == PositionOf[task[c].ord] IN
  /\ At(c, "reserve")
  /\ IF resv[p] > 0
       THEN /\ IF resv[p] = task[c].ask THEN Goto(c, "create") ELSE Goto(c, "abandon")
            /\ UNCHANGED resv
       ELSE IF BudgetAllows(c, p)
              THEN Goto(c, "create") /\ resv' = [resv EXCEPT ![p] = task[c].ask]
              ELSE Goto(c, "abandon") /\ UNCHANGED resv
  /\ UNCHANGED <<orders, approval, pos, held, crashes>>

CreateOrder(c) ==
  LET o == task[c].ord IN
  /\ At(c, "create")
  /\ status' = [status EXCEPT ![o] = "intent_created"]
  /\ qty' = [qty EXCEPT ![o] = task[c].ask]
  /\ task' = [task EXCEPT ![c].pc = "plan_next", ![c].made = @ \cup {o}]
  /\ UNCHANGED <<bound, approval, resv, pos, held, crashes>>

\* The insert fails: the reservation is released, then the position abandoned.
CreateFails(c) ==
  /\ At(c, "create")
  /\ resv' = [resv EXCEPT ![PositionOf[task[c].ord]] = 0]
  /\ Goto(c, "abandon")
  /\ UNCHANGED <<orders, approval, pos, held, crashes>>

\* Only a position this intent created, and only while nothing is filled.
Abandon(c) ==
  LET p == PositionOf[task[c].ord] IN
  /\ At(c, "abandon")
  /\ pos' = IF task[c].ord \in Entry /\ pos[p] = "pending_entry" /\ held[p] = 0
              THEN [pos EXCEPT ![p] = "closed"] ELSE pos
  /\ Goto(c, "plan_next")
  /\ UNCHANGED <<orders, approval, resv, held, crashes>>

\* All orders of the cycle are marked, then all are queued.
PlanDone(c) ==
  /\ task[c].todo = {}
  /\ \/ /\ At(c, "plan_next")
        /\ task' = [task EXCEPT ![c].pc = "mark", ![c].todo = task[c].made]
     \/ /\ At(c, "mark")
        /\ task' = [task EXCEPT ![c].pc = "queue_next", ![c].todo = task[c].made]
     \/ /\ At(c, "queue_next")
        /\ Finish(c)
  /\ UNCHANGED <<orders, approval, resv, pos, held, crashes>>

\* A compare-and-set that fails raises out of the cycle: the orders after it are
\* left as they are.
MarkRiskApproved(c) ==
  /\ At(c, "mark")
  /\ \E o \in task[c].todo :
       IF Cas(o, "intent_created", "risk_approved")
         THEN /\ status' = [status EXCEPT ![o] = "risk_approved"]
              /\ task' = [task EXCEPT ![c].todo = @ \ {o}]
         ELSE Finish(c) /\ UNCHANGED status
  /\ UNCHANGED <<qty, bound, approval, resv, pos, held, crashes>>

\* An order has at most one approval row: a second insert fails.
CreateApproval(c) ==
  /\ At(c, "queue_next")
  /\ \E o \in task[c].todo :
       IF status[o] = "risk_approved" /\ approval[o] = "absent"
         THEN /\ approval' = [approval EXCEPT ![o] = "pending"]
              /\ task' = [task EXCEPT ![c] = [task[c] EXCEPT !.pc = "bind", !.ord = o,
                                                       !.todo = @ \ {o}]]
         ELSE Finish(c) /\ UNCHANGED approval
  /\ UNCHANGED <<orders, resv, pos, held, crashes>>

BindApproval(c) ==
  LET o == task[c].ord IN
  /\ At(c, "bind")
  /\ IF status[o] = "risk_approved" /\ ~bound[o]
       THEN Goto(c, "queue") /\ bound' = [bound EXCEPT ![o] = TRUE]
       ELSE Goto(c, "queue_row") /\ UNCHANGED bound
  /\ UNCHANGED <<status, qty, approval, resv, pos, held, crashes>>

QueueApproval(c) ==
  LET o == task[c].ord IN
  /\ At(c, "queue")
  /\ IF Cas(o, "risk_approved", "approval_queued")
       THEN Goto(c, "queue_next") /\ status' = [status EXCEPT ![o] = "approval_queued"]
       ELSE Goto(c, "queue_row") /\ UNCHANGED status
  /\ UNCHANGED <<qty, bound, approval, resv, pos, held, crashes>>

\* Queueing failed: the approval row is closed, then the order, and the error is
\* raised; a row that is no longer pending raises before the order is closed.
QueueFailedRow(c) ==
  LET o == task[c].ord IN
  /\ At(c, "queue_row")
  /\ IF approval[o] = "pending"
       THEN Goto(c, "queue_order") /\ approval' = [approval EXCEPT ![o] = "rejected"]
       ELSE Finish(c) /\ UNCHANGED approval
  /\ UNCHANGED <<orders, resv, pos, held, crashes>>

QueueFailedOrder(c) ==
  LET o == task[c].ord IN
  /\ At(c, "queue_order")
  /\ IF Cas(o, "risk_approved", "rejected")
       THEN Close(c, o, "rejected", "idle")
       ELSE Finish(c) /\ UNCHANGED status
  /\ UNCHANGED <<qty, bound, approval, resv, pos, held, crashes>>

-----------------------------------------------------------------------------
(* approve(): the order is checked, sized again and moved, then the row.   *)

Begin(u, pc) ==
  \E o \in Order :
    /\ approval[o] = "pending"
    /\ task' = [task EXCEPT ![u] = [IdleTask EXCEPT !.pc = pc, !.ord = o]]

ApproveBegin(u) ==
  /\ At(u, "idle")
  /\ Begin(u, "ap_check")
  /\ UNCHANGED <<orders, approval, resv, pos, held, crashes>>

\* The reservation must be active and for the amount that was approved.
Checked(o) == status[o] = "approval_queued" /\ bound[o] /\ resv[PositionOf[o]] = qty[o]

ApproveCheck(u) ==
  /\ At(u, "ap_check")
  /\ Goto(u, IF Checked(task[u].ord) THEN "ap_account" ELSE "ap_fail")
  /\ UNCHANGED <<orders, approval, resv, pos, held, crashes>>

FailPc(u)   == IF At(u, "ap_account") \/ At(u, "ap_risk") THEN "ap_fail" ELSE "ex_fail"
RiskPc(u)   == IF At(u, "ap_account") THEN "ap_risk" ELSE "ex_risk"
PassedPc(u) == IF At(u, "ap_risk") THEN "ap_order" ELSE "ex_claim"

\* The fresh account snapshot, of approve() and of the check before the submission.
FreshAccount(u) ==
  /\ At(u, "ap_account") \/ At(u, "ex_account")
  /\ \E provider \in Providers :
       IF SnapshotFails(provider)
         THEN Goto(u, FailPc(u))
         ELSE \E cap \in CapNow :
                /\ Largest(cap, CapNow)
                /\ task' = [task EXCEPT ![u].pc = RiskPc(u), ![u].cap = cap]
  /\ UNCHANGED <<orders, approval, resv, pos, held, crashes>>

\* The account query fails, the lifecycle or the protection gate refuses.
FreshRefused(u) ==
  /\ At(u, "ap_account") \/ At(u, "ex_account")
  /\ Goto(u, FailPc(u))
  /\ UNCHANGED <<orders, approval, resv, pos, held, crashes>>

\* The envelope must still allow the whole quantity.
Fits(u, provider) ==
  ReservedForCheck(task[u].ord, provider) + qty[task[u].ord] <= task[u].cap

FreshRisk(u) ==
  /\ At(u, "ap_risk") \/ At(u, "ex_risk")
  /\ \E provider \in Providers :
       Goto(u, IF Fits(u, provider) THEN PassedPc(u) ELSE FailPc(u))
  /\ UNCHANGED <<orders, approval, resv, pos, held, crashes>>

ApproveOrder(u) ==
  LET o == task[u].ord IN
  /\ At(u, "ap_order")
  /\ IF Cas(o, "approval_queued", "approved")
       THEN Goto(u, "ap_row") /\ status' = [status EXCEPT ![o] = "approved"]
       ELSE Goto(u, "ap_fail") /\ UNCHANGED status
  /\ UNCHANGED <<qty, bound, approval, resv, pos, held, crashes>>

\* (mutant) a row that is no longer pending is passed over
AfterRowAnyway(o) == "ex_check"

\* transition_pending() raises if the row is no longer pending.
AfterRow(o) == IF approval[o] = "pending" THEN "ex_check" ELSE "ap_fail"

ApproveRow(u) ==
  LET o == task[u].ord IN
  /\ At(u, "ap_row")
  /\ Goto(u, AfterRow(o))
  /\ approval' = IF approval[o] = "pending"
                   THEN [approval EXCEPT ![o] = "approved"] ELSE approval
  /\ UNCHANGED <<orders, resv, pos, held, crashes>>

\* The error path of approve(): what the order is now decides whether it is closed.
ApproveFailed(u) ==
  LET o == task[u].ord IN
  /\ At(u, "ap_fail")
  /\ task' = [task EXCEPT ![u].pc = IF status[o] \in {"approval_queued", "approved"}
                                      THEN "ap_reject" ELSE "ap_close",
                          ![u].seen = status[o]]
  /\ UNCHANGED <<orders, approval, resv, pos, held, crashes>>

RejectSeen(u) ==
  LET o == task[u].ord IN
  /\ At(u, "ap_reject")
  /\ IF Cas(o, task[u].seen, "rejected")
       THEN Close(u, o, "rejected", "ap_close")
       ELSE Finish(u) /\ UNCHANGED status
  /\ UNCHANGED <<qty, bound, approval, resv, pos, held, crashes>>

\* (mutant) the row takes the order's status
RowOutcomeCopied(o) == status[o]

RowOutcome(o) == "rejected"

\* The last step of a failed approve() and of reject(): the row, if still pending.
CloseRow(u) ==
  LET o == task[u].ord IN
  /\ At(u, "ap_close") \/ At(u, "rj_row")
  /\ approval' = IF approval[o] = "pending"
                   THEN [approval EXCEPT ![o] = RowOutcome(o)] ELSE approval
  /\ Finish(u)
  /\ UNCHANGED <<orders, resv, pos, held, crashes>>

-----------------------------------------------------------------------------
(* execute(): after a second check the order is claimed for the broker.    *)

\* An order that is no longer approved raises; one without its reservation fails.
ExecuteCheck(u) ==
  LET o == task[u].ord IN
  /\ At(u, "ex_check")
  /\ IF status[o] = "approved"
       THEN Goto(u, IF resv[PositionOf[o]] = qty[o] THEN "ex_account" ELSE "ex_fail")
       ELSE Finish(u)
  /\ UNCHANGED <<orders, approval, resv, pos, held, crashes>>

ExecuteFailed(u) ==
  LET o == task[u].ord IN
  /\ At(u, "ex_fail")
  /\ IF Cas(o, "approved", "rejected")
       THEN Close(u, o, "rejected", "idle")
       ELSE Finish(u) /\ UNCHANGED status
  /\ UNCHANGED <<qty, bound, approval, resv, pos, held, crashes>>

\* submit(): the validity window, then the exclusive claim.
ExpireIfDue(u) ==
  LET o == task[u].ord IN
  /\ At(u, "ex_claim")
  /\ Cas(o, "approved", "expired")
  /\ Close(u, o, "expired", "idle")
  /\ UNCHANGED <<qty, bound, approval, resv, pos, held, crashes>>

Claim(u) ==
  LET o == task[u].ord IN
  /\ At(u, "ex_claim")
  /\ IF Cas(o, "approved", "submitting")
       THEN status' = [status EXCEPT ![o] = "submitting"]
       ELSE UNCHANGED status
  /\ Finish(u)
  /\ UNCHANGED <<qty, bound, approval, resv, pos, held, crashes>>

-----------------------------------------------------------------------------
(* reject() and the dashboard's cancel of an order not yet at the broker.  *)

RejectBegin(u) ==
  /\ At(u, "idle")
  /\ Begin(u, "rj_order")
  /\ UNCHANGED <<orders, approval, resv, pos, held, crashes>>

RejectOrder(u) ==
  LET o == task[u].ord IN
  /\ At(u, "rj_order")
  /\ IF bound[o] /\ Cas(o, "approval_queued", "rejected")
       THEN Close(u, o, "rejected", "rj_row")
       ELSE Finish(u) /\ UNCHANGED status
  /\ UNCHANGED <<qty, bound, approval, resv, pos, held, crashes>>

CancelBegin(u) ==
  /\ At(u, "idle")
  /\ \E o \in Order :
       /\ status[o] \in PreBroker
       /\ task' = [task EXCEPT ![u] = [IdleTask EXCEPT !.pc = "cancel", !.ord = o,
                                                       !.seen = status[o]]]
  /\ UNCHANGED <<orders, approval, resv, pos, held, crashes>>

\* The approval row is not touched.
CancelOrder(u) ==
  LET o == task[u].ord IN
  /\ At(u, "cancel")
  /\ IF Cas(o, task[u].seen, "canceled")
       THEN Close(u, o, "canceled", "idle")
       ELSE Finish(u) /\ UNCHANGED status
  /\ UNCHANGED <<qty, bound, approval, resv, pos, held, crashes>>

-----------------------------------------------------------------------------
(* The broker's part, and the process.                                     *)

\* The order is filled, or comes to nothing; the position holds what was filled.
Settle(r, o) ==
  /\ At(r, "idle")
  /\ \E target \in {"filled", "rejected"} :
       /\ Cas(o, "submitting", target)
       /\ Close(r, o, target, "idle")
       /\ IF target = "filled"
            THEN /\ held' = [held EXCEPT ![PositionOf[o]] = @ + qty[o]]
                 /\ pos' = [pos EXCEPT ![PositionOf[o]] = "open"]
            ELSE UNCHANGED <<held, pos>>
  /\ UNCHANGED <<qty, bound, approval, resv, crashes>>

\* The processes stop: what they were doing is lost, the tables stay.
Crash ==
  /\ crashes < MaxCrashes
  /\ crashes' = crashes + 1
  /\ task' = [w \in Worker |-> IdleTask]
  /\ UNCHANGED <<orders, approval, resv, pos, held>>

PlanStep(c) == \/ PlanAccount(c) \/ PlanRisk(c) \/ PlanIntent(c) \/ CreatePosition(c)
               \/ Reserve(c) \/ CreateOrder(c) \/ CreateFails(c) \/ Abandon(c)
               \/ PlanDone(c)

QueueStep(c) == \/ MarkRiskApproved(c) \/ CreateApproval(c) \/ BindApproval(c)
                \/ QueueApproval(c) \/ QueueFailedRow(c) \/ QueueFailedOrder(c)

ApproveStep(u) == \/ ApproveBegin(u) \/ ApproveCheck(u) \/ FreshAccount(u)
                  \/ FreshRefused(u) \/ FreshRisk(u) \/ ApproveOrder(u)
                  \/ ApproveRow(u) \/ ApproveFailed(u) \/ RejectSeen(u)

ExecuteStep(u) == ExecuteCheck(u) \/ ExecuteFailed(u) \/ ExpireIfDue(u) \/ Claim(u)

WithdrawStep(u) == \/ RejectBegin(u) \/ RejectOrder(u) \/ CloseRow(u)
                   \/ CancelBegin(u) \/ CancelOrder(u)

Next ==
  \/ \E c \in Cycle : PlanStep(c) \/ QueueStep(c)
  \/ \E u \in Operator : ApproveStep(u) \/ ExecuteStep(u) \/ WithdrawStep(u)
  \/ \E r \in Reconciler, o \in Order : Settle(r, o)
  \/ \E w \in Worker : Finalize(w)
  \/ Crash

Spec == Init /\ [][Next]_vars

-----------------------------------------------------------------------------
(* Properties                                                              *)

LiveBuys == {o \in Order : status[o] \in Live}

\* Parallel cycles cannot spend the account's limit twice: the orders that wait for
\* approval, are approved or are at the broker never ask for more than the limit
\* together (reserve_risk_budget's promise).
LiveBuysWithinLimit == Total(qty, LiveBuys) <= Limit

\* While a buy can still reach the broker, or is there, its budget is not free.
LiveBuyIsReserved == \A o \in LiveBuys : resv[PositionOf[o]] >= qty[o]

\* Whatever requests cross, an order that was claimed for the broker has an approval
\* row that says "approved" and carries that row's id; so an order whose approval was
\* rejected never trades.
ClaimedIsApproved ==
  \A o \in Order : status[o] \in Unsettled \cup {"filled"} =>
                     approval[o] = "approved" /\ bound[o]
=============================================================================
