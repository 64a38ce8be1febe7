------------------------ MODULE ApprovalPipelineProof ------------------------
(***************************************************************************)
(* Proofs about ApprovalPipeline: its type invariant; that only an order   *)
(* whose approval row says "approved" is claimed for the broker; and that  *)
(* a buy that can still trade keeps its budget, when no two orders share a *)
(* position.                                                               *)
(***************************************************************************)
EXTENDS ApprovalPipeline, Functions, FiniteSetTheorems, TLAPS

\* The literals the actions assign to a program counter.
LEMMA PcLiterals ==
  /\ {"idle", "finalize"} \subseteq Pc
  /\ {"plan_risk", "plan_next", "position", "reserve", "create", "abandon", "mark",
      "queue_next", "bind", "queue", "queue_row", "queue_order"} \subseteq Pc
  /\ {"ap_check", "ap_account", "ap_risk", "ap_order", "ap_row", "ap_fail", "ap_reject",
      "ap_close"} \subseteq Pc
  /\ {"ex_check", "ex_account", "ex_risk", "ex_fail", "ex_claim", "rj_order", "rj_row",
      "cancel"} \subseteq Pc
  BY DEF Pc, CyclePc, OperatorPc

\* The literals the actions assign to a status.
LEMMA StatusLiterals ==
  /\ {"intent_created", "risk_approved", "approval_queued", "approved", "submitting",
      "filled", "rejected", "expired", "canceled"} \subseteq Status
  /\ Terminal \subseteq Status /\ PreBroker \subseteq Status
  BY DEF Status, PreBroker, Unsettled, Terminal

LEMMA WorkersAreWorkers == /\ Cycle \subseteq Worker /\ Operator \subseteq Worker
                           /\ Reconciler \subseteq Worker
  BY DEF Worker

LEMMA IdleTyped == IdleTask \in Task
  <1>1. "idle" \in Pc BY PcLiterals
  <1> QED BY <1>1 DEF IdleTask, Task, Free

-----------------------------------------------------------------------------
(* The shape of a task is kept by the ways an action writes it.            *)

LEMMA GotoTyped ==
  ASSUME task \in [Worker -> Task], NEW w \in Worker, NEW pc \in Pc, Goto(w, pc),
         pc \in Free \/ task[w].ord \in Order
  PROVE  task' \in [Worker -> Task]
  <1>1. [task[w] EXCEPT !.pc = pc] \in Task BY DEF Task
  <1> QED BY <1>1 DEF Goto

LEMMA FinishTyped ==
  ASSUME task \in [Worker -> Task], NEW w \in Worker, Finish(w)
  PROVE  task' \in [Worker -> Task]
  BY IdleTyped DEF Finish

LEMMA WriteTyped ==
  ASSUME task \in [Worker -> Task], NEW w \in Worker, NEW t \in Task,
         task' = [task EXCEPT ![w] = t]
  PROVE  task' \in [Worker -> Task]
  OBVIOUS

LEMMA CloseTyped ==
  ASSUME TypeOK, NEW w \in Worker, NEW o \in Order, NEW target \in Status,
         NEW next \in Pc, Close(w, o, target, next)
  PROVE  task' \in [Worker -> Task] /\ status' \in [Order -> Status \cup {"absent"}]
  <1>1. "finalize" \in Pc BY PcLiterals
  <1>2. task[w] \in Task BY DEF TypeOK
  <1>3. [task[w] EXCEPT !.pc = "finalize", !.ord = o, !.next = next] \in Task
    BY <1>1, <1>2 DEF Task
  <1>4. task' = [task EXCEPT ![w] =
                   [task[w] EXCEPT !.pc = "finalize", !.ord = o, !.next = next]]
    BY DEF Close, TypeOK
  <1>5. task' \in [Worker -> Task] BY <1>3, <1>4, WriteTyped DEF TypeOK
  <1> QED BY <1>5 DEF Close, TypeOK

LEMMA BeginTyped ==
  ASSUME TypeOK, NEW w \in Worker, NEW pc \in Pc, Begin(w, pc)
  PROVE  task' \in [Worker -> Task]
  <1>1. PICK o \in Order :
          task' = [task EXCEPT ![w] = [IdleTask EXCEPT !.pc = pc, !.ord = o]]
    BY DEF Begin
  <1>2. [IdleTask EXCEPT !.pc = pc, !.ord = o] \in Task BY IdleTyped DEF Task
  <1> QED BY <1>1, <1>2, WriteTyped DEF TypeOK

-----------------------------------------------------------------------------
(* Type correctness.                                                       *)

LEMMA PlanTyped == ASSUME TypeOK, NEW c \in Cycle, PlanStep(c) PROVE TypeOK'
  <1> USE PipelineAssumption DEF TypeOK, orders
  <1>w. c \in Worker BY WorkersAreWorkers
  <1>t. task[c] \in Task BY <1>w
  <1>1. CASE PlanAccount(c)
    <2>1. PICK cap \in CapNow :
            task' = [task EXCEPT ![c] = [IdleTask EXCEPT !.pc = "plan_risk",
                       !.todo = {o \in Order : PlannedBy[o] = c /\ status[o] = "absent"},
                       !.cap = cap]]
      BY <1>1 DEF PlanAccount
    <2>2. cap \in Nat BY <2>1 DEF CapNow
    <2>3. [IdleTask EXCEPT !.pc = "plan_risk",
             !.todo = {o \in Order : PlannedBy[o] = c /\ status[o] = "absent"},
             !.cap = cap] \in Task
      BY <2>2, IdleTyped, PcLiterals DEF Task, Free
    <2>4. task' \in [Worker -> Task] BY <1>w, <2>1, <2>3, WriteTyped
    <2> QED BY <1>1, <2>4 DEF PlanAccount
  <1>2. CASE PlanRisk(c)
    <2>1. PICK room \in RoomNow(task[c].cap) :
            task' = [task EXCEPT ![c].pc = "plan_next", ![c].room = room]
      BY <1>2 DEF PlanRisk
    <2>2. room \in Nat BY <2>1 DEF RoomNow
    <2>3. [task[c] EXCEPT !.pc = "plan_next", !.room = room] \in Task
      BY <1>t, <2>2, PcLiterals DEF Task, Free
    <2>4. task' = [task EXCEPT ![c] = [task[c] EXCEPT !.pc = "plan_next", !.room = room]]
      BY <1>w, <2>1
    <2>5. task' \in [Worker -> Task] BY <1>w, <2>3, <2>4, WriteTyped
    <2> QED BY <1>2, <2>5 DEF PlanRisk
  <1>3. CASE PlanIntent(c)
    <2>1. PICK o \in task[c].todo :
            IF Worthwhile(c, o)
              THEN task' = [task EXCEPT ![c] = [task[c] EXCEPT
                     !.pc = IF o \in Entry THEN "position" ELSE "reserve",
                     !.ord = o, !.ask = Sized(c, o), !.todo = @ \ {o}]]
              ELSE task' = [task EXCEPT ![c].todo = @ \ {o}]
      BY <1>3 DEF PlanIntent
    <2>2. o \in Order /\ Sized(c, o) \in Nat BY <1>t, <2>1 DEF Task, Sized
    <2>3. ASSUME Worthwhile(c, o) PROVE task' \in [Worker -> Task]
      <3>1. task' = [task EXCEPT ![c] =
                [task[c] EXCEPT !.pc = IF o \in Entry THEN "position" ELSE "reserve",
                                !.ord = o, !.ask = Sized(c, o), !.todo = @ \ {o}]]
        BY <1>w, <2>1, <2>3
      <3>2. [task[c] EXCEPT !.pc = IF o \in Entry THEN "position" ELSE "reserve",
               !.ord = o, !.ask = Sized(c, o), !.todo = @ \ {o}] \in Task
        BY <1>t, <2>2, PcLiterals DEF Task
      <3> QED BY <1>w, <3>1, <3>2, WriteTyped
    <2>4. ASSUME ~Worthwhile(c, o) PROVE task' \in [Worker -> Task]
      <3>1. task' = [task EXCEPT ![c] = [task[c] EXCEPT !.todo = @ \ {o}]]
        BY <1>w, <2>1, <2>4
      <3>2. [task[c] EXCEPT !.todo = @ \ {o}] \in Task BY <1>t DEF Task
      <3> QED BY <1>w, <3>1, <3>2, WriteTyped
    <2>5. task' \in [Worker -> Task] BY <2>3, <2>4
    <2> QED BY <1>3, <2>5 DEF PlanIntent
  <1>4. CASE CreatePosition(c)
    <2>1. task[c].ord \in Order BY <1>4, <1>t DEF CreatePosition, At, Task, Free
    <2>2. task' \in [Worker -> Task]
      BY <1>4, <1>w, <2>1, PcLiterals, GotoTyped DEF CreatePosition, Free
    <2> QED BY <1>4, <2>2 DEF CreatePosition
  <1>5. CASE Reserve(c)
    <2>1. task[c].ord \in Order BY <1>5, <1>t DEF Reserve, At, Task, Free
    <2>2. task' \in [Worker -> Task]
      BY <1>5, <1>w, <2>1, PcLiterals, GotoTyped DEF Reserve
    <2>3. task[c].ask \in Nat BY <1>t DEF Task
    <2> QED BY <1>5, <2>2, <2>3 DEF Reserve
  <1>6. CASE CreateOrder(c)
    <2>1. task[c].ord \in Order BY <1>6, <1>t DEF CreateOrder, At, Task, Free
    <2>2. task[c].ask \in Nat BY <1>t DEF Task
    <2>3. [task[c] EXCEPT !.pc = "plan_next", !.made = @ \cup {task[c].ord}] \in Task
      BY <1>t, <2>1, PcLiterals DEF Task, Free
    <2>4. task' = [task EXCEPT ![c] = [task[c] EXCEPT !.pc = "plan_next",
                                            !.made = @ \cup {task[c].ord}]]
      BY <1>6, <1>w DEF CreateOrder
    <2>5. task' \in [Worker -> Task] BY <1>w, <2>3, <2>4, WriteTyped
    <2> QED BY <1>6, <2>2, <2>5, StatusLiterals DEF CreateOrder
  <1>7. CASE CreateFails(c)
    <2>1. task[c].ord \in Order BY <1>7, <1>t DEF CreateFails, At, Task, Free
    <2>2. task' \in [Worker -> Task]
      BY <1>7, <1>w, <2>1, PcLiterals, GotoTyped DEF CreateFails
    <2> QED BY <1>7, <2>2 DEF CreateFails
  <1>8. CASE Abandon(c)
    <2>1. task' \in [Worker -> Task]
      BY <1>8, <1>w, PcLiterals, GotoTyped DEF Abandon, Free
    <2> QED BY <1>8, <2>1 DEF Abandon
  <1>9. CASE PlanDone(c)
    <2>1. [task[c] EXCEPT !.pc = "mark", !.todo = task[c].made] \in Task
      BY <1>t, PcLiterals DEF Task, Free
    <2>2. [task[c] EXCEPT !.pc = "queue_next", !.todo = task[c].made] \in Task
      BY <1>t, PcLiterals DEF Task, Free
    <2>3. \/ task' = [task EXCEPT ![c] =
                        [task[c] EXCEPT !.pc = "mark", !.todo = task[c].made]]
          \/ task' = [task EXCEPT ![c] =
                        [task[c] EXCEPT !.pc = "queue_next", !.todo = task[c].made]]
          \/ Finish(c)
      BY <1>9, <1>w DEF PlanDone
    <2>4. task' \in [Worker -> Task]
      BY <1>w, <2>1, <2>2, <2>3, WriteTyped, FinishTyped
    <2> QED BY <1>9, <2>4 DEF PlanDone
  <1> QED
    BY <1>1, <1>2, <1>3, <1>4, <1>5, <1>6, <1>7, <1>8, <1>9 DEF PlanStep
LEMMA QueueTyped == ASSUME TypeOK, NEW c \in Cycle, QueueStep(c) PROVE TypeOK'
  <1> USE PipelineAssumption DEF TypeOK, orders
  <1>w. c \in Worker BY WorkersAreWorkers
  <1>t. task[c] \in Task BY <1>w
  <1>1. CASE MarkRiskApproved(c)
    <2>1. PICK o \in task[c].todo :
            IF Cas(o, "intent_created", "risk_approved")
              THEN /\ status' = [status EXCEPT ![o] = "risk_approved"]
                   /\ task' = [task EXCEPT ![c].todo = @ \ {o}]
              ELSE Finish(c) /\ UNCHANGED status
      BY <1>1 DEF MarkRiskApproved
    <2>2. [task[c] EXCEPT !.todo = @ \ {o}] \in Task BY <1>t DEF Task
    <2>3. \/ task' = [task EXCEPT ![c] = [task[c] EXCEPT !.todo = @ \ {o}]]
          \/ Finish(c)
      BY <1>w, <2>1
    <2>4. task' \in [Worker -> Task] BY <1>w, <2>2, <2>3, WriteTyped, FinishTyped
    <2>5. status' \in [Order -> Status \cup {"absent"}] BY <2>1, StatusLiterals
    <2> QED BY <1>1, <2>4, <2>5 DEF MarkRiskApproved
  <1>2. CASE CreateApproval(c)
    <2>1. PICK o \in task[c].todo :
            IF status[o] = "risk_approved" /\ approval[o] = "absent"
              THEN /\ approval' = [approval EXCEPT ![o] = "pending"]
                   /\ task' = [task EXCEPT ![c] = [task[c] EXCEPT !.pc = "bind", !.ord = o,
                                                    !.todo = @ \ {o}]]
              ELSE Finish(c) /\ UNCHANGED approval
      BY <1>2 DEF CreateApproval
    <2>2. o \in Order BY <1>t, <2>1 DEF Task
    <2>3. [task[c] EXCEPT !.pc = "bind", !.ord = o, !.todo = @ \ {o}] \in Task
      BY <1>t, <2>2, PcLiterals DEF Task
    <2>4. task' \in [Worker -> Task] BY <1>w, <2>1, <2>3, WriteTyped, FinishTyped
    <2>5. approval' \in [Order -> {"absent", "pending", "approved", "rejected"}]
      BY <2>1
    <2> QED BY <1>2, <2>4, <2>5 DEF CreateApproval
  <1>3. CASE BindApproval(c)
    <2>1. task[c].ord \in Order BY <1>3, <1>t DEF BindApproval, At, Task, Free
    <2>2. task' \in [Worker -> Task]
      BY <1>3, <1>w, <2>1, PcLiterals, GotoTyped, FinishTyped DEF BindApproval, Free
    <2> QED BY <1>3, <2>1, <2>2, StatusLiterals DEF BindApproval
  <1>4. CASE QueueApproval(c)
    <2>1. task[c].ord \in Order BY <1>4, <1>t DEF QueueApproval, At, Task, Free
    <2>2. task' \in [Worker -> Task]
      BY <1>4, <1>w, <2>1, PcLiterals, GotoTyped, FinishTyped DEF QueueApproval, Free
    <2> QED BY <1>4, <2>1, <2>2, StatusLiterals DEF QueueApproval
  <1>5. CASE QueueFailedRow(c)
    <2>1. task[c].ord \in Order BY <1>5, <1>t DEF QueueFailedRow, At, Task, Free
    <2>2. task' \in [Worker -> Task]
      BY <1>5, <1>w, <2>1, PcLiterals, GotoTyped, FinishTyped DEF QueueFailedRow, Free
    <2> QED BY <1>5, <2>1, <2>2, StatusLiterals DEF QueueFailedRow
  <1>6. CASE QueueFailedOrder(c)
    <2>1. task[c].ord \in Order BY <1>6, <1>t DEF QueueFailedOrder, At, Task, Free
    <2>2. "rejected" \in Status /\ "idle" \in Pc BY StatusLiterals, PcLiterals
    <2>3. /\ task' \in [Worker -> Task]
          /\ status' \in [Order -> Status \cup {"absent"}]
      BY <1>6, <1>w, <2>1, <2>2, CloseTyped, FinishTyped DEF QueueFailedOrder
    <2> QED BY <1>6, <2>3 DEF QueueFailedOrder
  <1> QED BY <1>1, <1>2, <1>3, <1>4, <1>5, <1>6 DEF QueueStep

LEMMA ApproveTyped == ASSUME TypeOK, NEW u \in Operator, ApproveStep(u) PROVE TypeOK'
  <1> USE PipelineAssumption DEF TypeOK, orders
  <1>w. u \in Worker BY WorkersAreWorkers
  <1>t. task[u] \in Task BY <1>w
  <1>1. CASE ApproveBegin(u)
    <2>1. task' \in [Worker -> Task] BY <1>1, <1>w, PcLiterals, BeginTyped DEF ApproveBegin
    <2> QED BY <1>1, <2>1 DEF ApproveBegin
  <1>2. CASE ApproveCheck(u)
    <2>1. task[u].ord \in Order BY <1>2, <1>t DEF ApproveCheck, At, Task, Free
    <2>2. task' \in [Worker -> Task]
      BY <1>2, <1>w, <2>1, PcLiterals, GotoTyped, FinishTyped DEF ApproveCheck, Free
    <2> QED BY <1>2, <2>1, <2>2, StatusLiterals DEF ApproveCheck
  <1>3. CASE FreshAccount(u)
    <2>1. task[u].ord \in Order BY <1>3, <1>t DEF FreshAccount, At, Task, Free
    <2>2. FailPc(u) \in Pc /\ RiskPc(u) \in Pc BY PcLiterals DEF FailPc, RiskPc
    <2>3. ASSUME NEW cap \in CapNow,
                 task' = [task EXCEPT ![u].pc = RiskPc(u), ![u].cap = cap]
          PROVE  task' \in [Worker -> Task]
      <3>1. cap \in Nat BY DEF CapNow
      <3>2. [task[u] EXCEPT !.pc = RiskPc(u), !.cap = cap] \in Task
        BY <1>t, <2>1, <2>2, <3>1 DEF Task
      <3>3. task' = [task EXCEPT ![u] = [task[u] EXCEPT !.pc = RiskPc(u), !.cap = cap]]
        BY <1>w, <2>3
      <3> QED BY <1>w, <3>2, <3>3, WriteTyped
    <2>4. task' \in [Worker -> Task]
      BY <1>3, <1>w, <2>1, <2>2, <2>3, GotoTyped DEF FreshAccount
    <2> QED BY <1>3, <2>4 DEF FreshAccount
  <1>4. CASE FreshRefused(u)
    <2>1. task[u].ord \in Order BY <1>4, <1>t DEF FreshRefused, At, Task, Free
    <2>2. FailPc(u) \in Pc BY PcLiterals DEF FailPc
    <2>3. task' \in [Worker -> Task] BY <1>4, <1>w, <2>1, <2>2, GotoTyped DEF FreshRefused
    <2> QED BY <1>4, <2>3 DEF FreshRefused
  <1>5. CASE FreshRisk(u)
    <2>1. task[u].ord \in Order BY <1>5, <1>t DEF FreshRisk, At, Task, Free
    <2>2. FailPc(u) \in Pc /\ PassedPc(u) \in Pc BY PcLiterals DEF FailPc, PassedPc
    <2>3. task' \in [Worker -> Task] BY <1>5, <1>w, <2>1, <2>2, GotoTyped DEF FreshRisk
    <2> QED BY <1>5, <2>3 DEF FreshRisk
  <1>6. CASE ApproveOrder(u)
    <2>1. task[u].ord \in Order BY <1>6, <1>t DEF ApproveOrder, At, Task, Free
    <2>2. task' \in [Worker -> Task]
      BY <1>6, <1>w, <2>1, PcLiterals, GotoTyped, FinishTyped DEF ApproveOrder, Free
    <2> QED BY <1>6, <2>1, <2>2, StatusLiterals DEF ApproveOrder
  <1>7. CASE ApproveRow(u)
    <2>1. task[u].ord \in Order BY <1>7, <1>t DEF ApproveRow, At, Task, Free
    <2>2. task' \in [Worker -> Task]
      BY <1>7, <1>w, <2>1, PcLiterals, GotoTyped, FinishTyped DEF ApproveRow, Free, AfterRow
    <2> QED BY <1>7, <2>1, <2>2, StatusLiterals DEF ApproveRow, AfterRow
  <1>8. CASE ApproveFailed(u)
    <2>1. task[u].ord \in Order BY <1>8, <1>t DEF ApproveFailed, At, Task, Free
    <2> DEFINE pc == IF status[task[u].ord] \in {"approval_queued", "approved"}
                       THEN "ap_reject" ELSE "ap_close"
    <2>2. [task[u] EXCEPT !.pc = pc, !.seen = status[task[u].ord]] \in Task
      BY <1>t, <2>1, PcLiterals DEF Task
    <2>3. task' = [task EXCEPT ![u] =
                     [task[u] EXCEPT !.pc = pc, !.seen = status[task[u].ord]]]
      BY <1>8, <1>w DEF ApproveFailed
    <2>4. task' \in [Worker -> Task] BY <1>w, <2>2, <2>3, WriteTyped
    <2> QED BY <1>8, <2>4 DEF ApproveFailed
  <1>9. CASE RejectSeen(u)
    <2>1. task[u].ord \in Order BY <1>9, <1>t DEF RejectSeen, At, Task, Free
    <2>2. "rejected" \in Status /\ "ap_close" \in Pc BY StatusLiterals, PcLiterals
    <2>3. /\ task' \in [Worker -> Task]
          /\ status' \in [Order -> Status \cup {"absent"}]
      BY <1>9, <1>w, <2>1, <2>2, CloseTyped, FinishTyped DEF RejectSeen
    <2> QED BY <1>9, <2>3 DEF RejectSeen
  <1> QED BY <1>1, <1>2, <1>3, <1>4, <1>5, <1>6, <1>7, <1>8, <1>9 DEF ApproveStep

LEMMA ExecuteTyped == ASSUME TypeOK, NEW u \in Operator, ExecuteStep(u) PROVE TypeOK'
  <1> USE PipelineAssumption DEF TypeOK, orders
  <1>w. u \in Worker BY WorkersAreWorkers
  <1>t. task[u] \in Task BY <1>w
  <1>1. CASE ExecuteCheck(u)
    <2>1. task[u].ord \in Order BY <1>1, <1>t DEF ExecuteCheck, At, Task, Free
    <2>2. task' \in [Worker -> Task]
      BY <1>1, <1>w, <2>1, PcLiterals, GotoTyped, FinishTyped DEF ExecuteCheck, Free
    <2> QED BY <1>1, <2>1, <2>2, StatusLiterals DEF ExecuteCheck
  <1>2. CASE ExecuteFailed(u)
    <2>1. task[u].ord \in Order BY <1>2, <1>t DEF ExecuteFailed, At, Task, Free
    <2>2. "rejected" \in Status /\ "idle" \in Pc BY StatusLiterals, PcLiterals
    <2>3. /\ task' \in [Worker -> Task]
          /\ status' \in [Order -> Status \cup {"absent"}]
      BY <1>2, <1>w, <2>1, <2>2, CloseTyped, FinishTyped DEF ExecuteFailed
    <2> QED BY <1>2, <2>3 DEF ExecuteFailed
  <1>3. CASE ExpireIfDue(u)
    <2>1. task[u].ord \in Order BY <1>3, <1>t DEF ExpireIfDue, At, Task, Free
    <2>2. "expired" \in Status /\ "idle" \in Pc BY StatusLiterals, PcLiterals
    <2>3. /\ task' \in [Worker -> Task]
          /\ status' \in [Order -> Status \cup {"absent"}]
      BY <1>3, <1>w, <2>1, <2>2, CloseTyped, FinishTyped DEF ExpireIfDue
    <2> QED BY <1>3, <2>3 DEF ExpireIfDue
  <1>4. CASE Claim(u)
    <2>1. task[u].ord \in Order BY <1>4, <1>t DEF Claim, At, Task, Free
    <2>2. task' \in [Worker -> Task]
      BY <1>4, <1>w, <2>1, PcLiterals, GotoTyped, FinishTyped DEF Claim, Free
    <2> QED BY <1>4, <2>1, <2>2, StatusLiterals DEF Claim
  <1> QED BY <1>1, <1>2, <1>3, <1>4 DEF ExecuteStep

LEMMA WithdrawTyped == ASSUME TypeOK, NEW u \in Operator, WithdrawStep(u) PROVE TypeOK'
  <1> USE PipelineAssumption DEF TypeOK, orders
  <1>w. u \in Worker BY WorkersAreWorkers
  <1>t. task[u] \in Task BY <1>w
  <1>1. CASE RejectBegin(u)
    <2>1. task' \in [Worker -> Task] BY <1>1, <1>w, PcLiterals, BeginTyped DEF RejectBegin
    <2> QED BY <1>1, <2>1 DEF RejectBegin
  <1>2. CASE RejectOrder(u)
    <2>1. task[u].ord \in Order BY <1>2, <1>t DEF RejectOrder, At, Task, Free
    <2>2. "rejected" \in Status /\ "rj_row" \in Pc BY StatusLiterals, PcLiterals
    <2>3. /\ task' \in [Worker -> Task]
          /\ status' \in [Order -> Status \cup {"absent"}]
      BY <1>2, <1>w, <2>1, <2>2, CloseTyped, FinishTyped DEF RejectOrder
    <2> QED BY <1>2, <2>3 DEF RejectOrder
  <1>3. CASE CloseRow(u)
    <2>1. task[u].ord \in Order BY <1>3, <1>t DEF CloseRow, At, Task, Free
    <2>2. task' \in [Worker -> Task]
      BY <1>3, <1>w, <2>1, PcLiterals, GotoTyped, FinishTyped DEF CloseRow, Free, RowOutcome
    <2> QED BY <1>3, <2>1, <2>2, StatusLiterals DEF CloseRow, RowOutcome
  <1>4. CASE CancelBegin(u)
    <2>1. PICK o \in Order :
            /\ status[o] \in PreBroker
            /\ task' = [task EXCEPT ![u] = [IdleTask EXCEPT !.pc = "cancel", !.ord = o,
                                                          !.seen = status[o]]]
      BY <1>4 DEF CancelBegin
    <2>2. [IdleTask EXCEPT !.pc = "cancel", !.ord = o, !.seen = status[o]] \in Task
      BY IdleTyped, PcLiterals DEF Task
    <2>3. task' \in [Worker -> Task] BY <1>w, <2>1, <2>2, WriteTyped
    <2> QED BY <1>4, <2>3 DEF CancelBegin
  <1>5. CASE CancelOrder(u)
    <2>1. task[u].ord \in Order BY <1>5, <1>t DEF CancelOrder, At, Task, Free
    <2>2. "canceled" \in Status /\ "idle" \in Pc BY StatusLiterals, PcLiterals
    <2>3. /\ task' \in [Worker -> Task]
          /\ status' \in [Order -> Status \cup {"absent"}]
      BY <1>5, <1>w, <2>1, <2>2, CloseTyped, FinishTyped DEF CancelOrder
    <2> QED BY <1>5, <2>3 DEF CancelOrder
  <1> QED BY <1>1, <1>2, <1>3, <1>4, <1>5 DEF WithdrawStep

\* Every variable keeps its type, for any orders, positions, workers and limit.
THEOREM PipelineTypeCorrect == Spec => []TypeOK
  <1>1. Init => TypeOK
    BY IdleTyped, PipelineAssumption DEF Init, TypeOK
  <1>2. ASSUME TypeOK, [Next]_vars PROVE TypeOK'
    <2> USE PipelineAssumption DEF TypeOK, orders
    <2>1. ASSUME NEW r \in Reconciler, NEW o \in Order, Settle(r, o) PROVE TypeOK'
      <3>1. r \in Worker BY WorkersAreWorkers
      <3>2. PICK target \in {"filled", "rejected"} :
              /\ Close(r, o, target, "idle")
              /\ IF target = "filled"
                   THEN /\ held' = [held EXCEPT ![PositionOf[o]] = @ + qty[o]]
                        /\ pos' = [pos EXCEPT ![PositionOf[o]] = "open"]
                   ELSE UNCHANGED <<held, pos>>
        BY <2>1 DEF Settle
      <3>3. target \in Status /\ "idle" \in Pc BY StatusLiterals, PcLiterals
      <3>4. /\ task' \in [Worker -> Task]
            /\ status' \in [Order -> Status \cup {"absent"}]
        BY <1>2, <3>1, <3>2, <3>3, CloseTyped
      <3>5. held' \in [Position -> Nat]
            /\ pos' \in [Position -> {"absent", "pending_entry", "open", "closed"}]
        BY <1>2, <3>2
      <3> QED BY <1>2, <2>1, <3>4, <3>5 DEF Settle
    <2>2. ASSUME NEW w \in Worker, Finalize(w) PROVE TypeOK'
      <3>1. task[w] \in Task BY <1>2
      <3>2. task[w].ord \in Order /\ task[w].next \in Pc
        BY <2>2, <3>1 DEF Finalize, ClosesBudget, At, Task, Free
      <3>3. task' \in [Worker -> Task]
        BY <1>2, <2>2, <3>2, GotoTyped, FinishTyped DEF Finalize
      <3> QED BY <1>2, <2>2, <3>3 DEF Finalize
    <2>3. CASE Crash
      BY <1>2, <2>3, IdleTyped DEF Crash
    <2>4. CASE UNCHANGED vars
      BY <1>2, <2>4 DEF vars
    <2> QED
      BY <1>2, <2>1, <2>2, <2>3, <2>4, PlanTyped, QueueTyped, ApproveTyped, ExecuteTyped,
         WithdrawTyped DEF Next
  <1> QED BY <1>1, <1>2, PTL DEF Spec

-----------------------------------------------------------------------------
(* Only an approved order is claimed for the broker.  A worker that is     *)
(* past a check knows what it checked, because the approval of an order    *)
(* and the binding to its row are never taken back.                        *)

Claimed == Unsettled \cup {"filled"}

Knows(w) ==
  /\ task[w].pc \in {"ap_account", "ap_risk", "ap_order", "ap_row"} => bound[task[w].ord]
  /\ task[w].pc \in {"ex_check", "ex_account", "ex_risk", "ex_fail", "ex_claim"} =>
       approval[task[w].ord] = "approved" /\ bound[task[w].ord]
  /\ task[w].pc = "finalize" => task[w].next \in {"idle", "ap_close", "rj_row"}

ClaimInv == TypeOK /\ ClaimedIsApproved /\ \A w \in Worker : Knows(w)

\* What one step of a worker w may do to the rows and to the other workers.
Discipline(w) ==
  /\ \A v \in Worker \ {w} : task'[v] = task[v]
  /\ \A o \in Order : approval[o] = "approved" => approval'[o] = "approved"
  /\ \A o \in Order : bound[o] => bound'[o]
  /\ \A o \in Order : status'[o] \in Claimed =>
       status[o] \in Claimed \/ (approval[o] = "approved" /\ bound[o])

LEMMA DisciplineSuffices ==
  ASSUME ClaimInv, TypeOK', NEW w \in Worker, Discipline(w), Knows(w)'
  PROVE  ClaimInv'
  <1>1. ClaimedIsApproved'
    BY DEF ClaimInv, ClaimedIsApproved, Discipline, Claimed
  <1>2. ASSUME NEW v \in Worker \ {w} PROVE Knows(v)'
    <2>1. Knows(v) /\ task'[v] = task[v] /\ task[v] \in Task
      BY <1>2 DEF ClaimInv, Discipline, TypeOK
    <2>2. task[v].pc \in Free \/ task[v].ord \in Order BY <2>1 DEF Task
    <2> QED BY <2>1, <2>2 DEF Knows, Discipline, Free
  <1> QED BY <1>1, <1>2 DEF ClaimInv

LEMMA PlanDisciplined ==
  ASSUME ClaimInv, NEW c \in Cycle, PlanStep(c)
  PROVE  Discipline(c) /\ Knows(c)'
  <1> USE DEF Discipline, Knows, At, Goto, Finish, IdleTask, orders
  <1>w. c \in Worker BY WorkersAreWorkers
  <1>t. /\ Knows(c)
        /\ task \in [Worker -> Task] /\ task[c] \in Task
        /\ status \in [Order -> Status \cup {"absent"}]
        /\ bound \in [Order -> BOOLEAN]
        /\ approval \in [Order -> {"absent", "pending", "approved", "rejected"}]
    BY <1>w DEF ClaimInv, TypeOK
  <1>f. DOMAIN task[c] = {"pc", "ord", "todo", "made", "ask", "cap", "room", "seen", "next"}
    BY <1>t DEF Task
  <1>o. task[c].pc \in Free \/ task[c].ord \in Order
    BY <1>t DEF Task
  <1>1. CASE PlanAccount(c)
    BY <1>w, <1>t, <1>f, <1>o, <1>1 DEF PlanAccount, Free, Claimed, Unsettled
  <1>2. CASE PlanRisk(c)
    BY <1>w, <1>t, <1>f, <1>o, <1>2 DEF PlanRisk, Free, Claimed, Unsettled
  <1>3. CASE PlanIntent(c)
    <2>1. PICK o \in task[c].todo :
            IF Worthwhile(c, o)
              THEN task' = [task EXCEPT ![c] = [task[c] EXCEPT
                     !.pc = IF o \in Entry THEN "position" ELSE "reserve",
                     !.ord = o, !.ask = Sized(c, o), !.todo = @ \ {o}]]
              ELSE task' = [task EXCEPT ![c].todo = @ \ {o}]
      BY <1>3 DEF PlanIntent
    <2>2. \A v \in Worker \ {c} : task'[v] = task[v] BY <1>t, <2>1
    <2>3. task'[c].pc \in {"position", "reserve", "plan_next"}
      <3>1. task[c].pc = "plan_next" BY <1>3 DEF PlanIntent
      <3>2. CASE Worthwhile(c, o)
        <4>1. task'[c] = [task[c] EXCEPT !.pc = IF o \in Entry THEN "position" ELSE "reserve",
                            !.ord = o, !.ask = Sized(c, o), !.todo = @ \ {o}]
          BY <1>w, <1>t, <2>1, <3>2
        <4> QED BY <4>1, <1>f
      <3>3. CASE ~Worthwhile(c, o)
        <4>1. task'[c] = [task[c] EXCEPT !.todo = @ \ {o}] BY <1>w, <1>t, <2>1, <3>3
        <4> QED BY <4>1, <3>1, <1>f
      <3> QED BY <3>2, <3>3
    <2> QED BY <1>3, <2>2, <2>3 DEF PlanIntent, Claimed, Unsettled
  <1>4. CASE CreatePosition(c)
    BY <1>w, <1>t, <1>f, <1>o, <1>4 DEF CreatePosition, Free, Claimed, Unsettled
  <1>5. CASE Reserve(c)
    BY <1>w, <1>t, <1>f, <1>o, <1>5 DEF Reserve, Free, Claimed, Unsettled
  <1>6. CASE CreateOrder(c)
    BY <1>w, <1>t, <1>f, <1>o, <1>6 DEF CreateOrder, Free, Claimed, Unsettled
  <1>7. CASE CreateFails(c)
    BY <1>w, <1>t, <1>f, <1>o, <1>7 DEF CreateFails, Free, Claimed, Unsettled
  <1>8. CASE Abandon(c)
    BY <1>w, <1>t, <1>f, <1>o, <1>8 DEF Abandon, Free, Claimed, Unsettled
  <1>9. CASE PlanDone(c)
    BY <1>w, <1>t, <1>f, <1>o, <1>9 DEF PlanDone, Free, Claimed, Unsettled
  <1> QED BY <1>1, <1>2, <1>3, <1>4, <1>5, <1>6, <1>7, <1>8, <1>9 DEF PlanStep

LEMMA QueueDisciplined ==
  ASSUME ClaimInv, NEW c \in Cycle, QueueStep(c)
  PROVE  Discipline(c) /\ Knows(c)'
  <1> USE DEF Discipline, Knows, At, Goto, Finish, IdleTask, orders
  <1>w. c \in Worker BY WorkersAreWorkers
  <1>t. /\ Knows(c)
        /\ task \in [Worker -> Task] /\ task[c] \in Task
        /\ status \in [Order -> Status \cup {"absent"}]
        /\ bound \in [Order -> BOOLEAN]
        /\ approval \in [Order -> {"absent", "pending", "approved", "rejected"}]
    BY <1>w DEF ClaimInv, TypeOK
  <1>f. DOMAIN task[c] = {"pc", "ord", "todo", "made", "ask", "cap", "room", "seen", "next"}
    BY <1>t DEF Task
  <1>o. task[c].pc \in Free \/ task[c].ord \in Order
    BY <1>t DEF Task
  <1>1. CASE MarkRiskApproved(c)
    BY <1>w, <1>t, <1>f, <1>o, <1>1 DEF MarkRiskApproved, Free, Claimed, Unsettled
  <1>2. CASE CreateApproval(c)
    <2>1. PICK o \in task[c].todo :
            IF status[o] = "risk_approved" /\ approval[o] = "absent"
              THEN /\ approval' = [approval EXCEPT ![o] = "pending"]
                   /\ task' = [task EXCEPT ![c] = [task[c] EXCEPT !.pc = "bind", !.ord = o,
                                                    !.todo = @ \ {o}]]
              ELSE Finish(c) /\ UNCHANGED approval
      BY <1>2 DEF CreateApproval
    <2>2. \A v \in Worker \ {c} : task'[v] = task[v] BY <1>t, <2>1
    <2>3. task'[c].pc \in {"bind", "idle"}
      <3>1. \/ task'[c] = [task[c] EXCEPT !.pc = "bind", !.ord = o, !.todo = @ \ {o}]
            \/ task'[c] = IdleTask
        BY <1>w, <1>t, <2>1
      <3>2. CASE task'[c] = IdleTask BY <3>2
      <3>3. CASE task'[c] = [task[c] EXCEPT !.pc = "bind", !.ord = o, !.todo = @ \ {o}]
        BY <3>3, <1>f
      <3> QED BY <3>1, <3>2, <3>3
    <2>4. \A q \in Order : approval[q] = "approved" => approval'[q] = "approved"
      BY <1>t, <2>1
    <2> QED BY <1>2, <2>2, <2>3, <2>4 DEF CreateApproval, Claimed, Unsettled
  <1>3. CASE BindApproval(c)
    BY <1>w, <1>t, <1>f, <1>o, <1>3 DEF BindApproval, Free, Claimed, Unsettled
  <1>4. CASE QueueApproval(c)
    BY <1>w, <1>t, <1>f, <1>o, <1>4 DEF QueueApproval, Free, Claimed, Unsettled
  <1>5. CASE QueueFailedRow(c)
    BY <1>w, <1>t, <1>f, <1>o, <1>5 DEF QueueFailedRow, Free, Claimed, Unsettled
  <1>6. CASE QueueFailedOrder(c)
    BY <1>w, <1>t, <1>f, <1>o, <1>6 DEF QueueFailedOrder, Free, Claimed, Unsettled, Close,
       Cas
  <1> QED BY <1>1, <1>2, <1>3, <1>4, <1>5, <1>6 DEF QueueStep

LEMMA ApproveDisciplined ==
  ASSUME ClaimInv, NEW u \in Operator, ApproveStep(u)
  PROVE  Discipline(u) /\ Knows(u)'
  <1> USE DEF Discipline, Knows, At, Goto, Finish, IdleTask, orders
  <1>w. u \in Worker BY WorkersAreWorkers
  <1>t. /\ Knows(u)
        /\ task \in [Worker -> Task] /\ task[u] \in Task
        /\ status \in [Order -> Status \cup {"absent"}]
        /\ bound \in [Order -> BOOLEAN]
        /\ approval \in [Order -> {"absent", "pending", "approved", "rejected"}]
    BY <1>w DEF ClaimInv, TypeOK
  <1>f. DOMAIN task[u] = {"pc", "ord", "todo", "made", "ask", "cap", "room", "seen", "next"}
    BY <1>t DEF Task
  <1>o. task[u].pc \in Free \/ task[u].ord \in Order
    BY <1>t DEF Task
  <1>1. CASE ApproveBegin(u)
    BY <1>w, <1>t, <1>f, <1>o, <1>1 DEF ApproveBegin, Free, Claimed, Unsettled, Begin
  <1>2. CASE ApproveCheck(u)
    BY <1>w, <1>t, <1>f, <1>o, <1>2 DEF ApproveCheck, Free, Claimed, Unsettled, Checked
  <1>3. CASE FreshAccount(u)
    BY <1>w, <1>t, <1>f, <1>o, <1>3 DEF FreshAccount, Free, Claimed, Unsettled, FailPc,
       RiskPc
  <1>4. CASE FreshRefused(u)
    BY <1>w, <1>t, <1>f, <1>o, <1>4 DEF FreshRefused, Free, Claimed, Unsettled, FailPc
  <1>5. CASE FreshRisk(u)
    BY <1>w, <1>t, <1>f, <1>o, <1>5 DEF FreshRisk, Free, Claimed, Unsettled, FailPc,
       PassedPc
  <1>6. CASE ApproveOrder(u)
    BY <1>w, <1>t, <1>f, <1>o, <1>6 DEF ApproveOrder, Free, Claimed, Unsettled
  <1>7. CASE ApproveRow(u)
    BY <1>w, <1>t, <1>f, <1>o, <1>7 DEF ApproveRow, Free, Claimed, Unsettled, AfterRow
  <1>8. CASE ApproveFailed(u)
    BY <1>w, <1>t, <1>f, <1>o, <1>8 DEF ApproveFailed, Free, Claimed, Unsettled
  <1>9. CASE RejectSeen(u)
    BY <1>w, <1>t, <1>f, <1>o, <1>9 DEF RejectSeen, Free, Claimed, Unsettled, Close, Cas
  <1> QED BY <1>1, <1>2, <1>3, <1>4, <1>5, <1>6, <1>7, <1>8, <1>9 DEF ApproveStep

LEMMA ExecuteDisciplined ==
  ASSUME ClaimInv, NEW u \in Operator, ExecuteStep(u)
  PROVE  Discipline(u) /\ Knows(u)'
  <1> USE DEF Discipline, Knows, At, Goto, Finish, IdleTask, orders
  <1>w. u \in Worker BY WorkersAreWorkers
  <1>t. /\ Knows(u)
        /\ task \in [Worker -> Task] /\ task[u] \in Task
        /\ status \in [Order -> Status \cup {"absent"}]
        /\ bound \in [Order -> BOOLEAN]
        /\ approval \in [Order -> {"absent", "pending", "approved", "rejected"}]
    BY <1>w DEF ClaimInv, TypeOK
  <1>f. DOMAIN task[u] = {"pc", "ord", "todo", "made", "ask", "cap", "room", "seen", "next"}
    BY <1>t DEF Task
  <1>o. task[u].pc \in Free \/ task[u].ord \in Order
    BY <1>t DEF Task
  <1>1. CASE ExecuteCheck(u)
    BY <1>w, <1>t, <1>f, <1>o, <1>1 DEF ExecuteCheck, Free, Claimed, Unsettled
  <1>2. CASE ExecuteFailed(u)
    BY <1>w, <1>t, <1>f, <1>o, <1>2 DEF ExecuteFailed, Free, Claimed, Unsettled, Close, Cas
  <1>3. CASE ExpireIfDue(u)
    BY <1>w, <1>t, <1>f, <1>o, <1>3 DEF ExpireIfDue, Free, Claimed, Unsettled, Close, Cas
  <1>4. CASE Claim(u)
    BY <1>w, <1>t, <1>f, <1>o, <1>4 DEF Claim, Free, Claimed, Unsettled
  <1> QED BY <1>1, <1>2, <1>3, <1>4 DEF ExecuteStep

LEMMA WithdrawDisciplined ==
  ASSUME ClaimInv, NEW u \in Operator, WithdrawStep(u)
  PROVE  Discipline(u) /\ Knows(u)'
  <1> USE DEF Discipline, Knows, At, Goto, Finish, IdleTask, orders
  <1>w. u \in Worker BY WorkersAreWorkers
  <1>t. /\ Knows(u)
        /\ task \in [Worker -> Task] /\ task[u] \in Task
        /\ status \in [Order -> Status \cup {"absent"}]
        /\ bound \in [Order -> BOOLEAN]
        /\ approval \in [Order -> {"absent", "pending", "approved", "rejected"}]
    BY <1>w DEF ClaimInv, TypeOK
  <1>f. DOMAIN task[u] = {"pc", "ord", "todo", "made", "ask", "cap", "room", "seen", "next"}
    BY <1>t DEF Task
  <1>o. task[u].pc \in Free \/ task[u].ord \in Order
    BY <1>t DEF Task
  <1>1. CASE RejectBegin(u)
    BY <1>w, <1>t, <1>f, <1>o, <1>1 DEF RejectBegin, Free, Claimed, Unsettled, Begin
  <1>2. CASE RejectOrder(u)
    BY <1>w, <1>t, <1>f, <1>o, <1>2 DEF RejectOrder, Free, Claimed, Unsettled, Close, Cas
  <1>3. CASE CloseRow(u)
    BY <1>w, <1>t, <1>f, <1>o, <1>3 DEF CloseRow, Free, Claimed, Unsettled, RowOutcome
  <1>4. CASE CancelBegin(u)
    BY <1>w, <1>t, <1>f, <1>o, <1>4 DEF CancelBegin, Free, Claimed, Unsettled
  <1>5. CASE CancelOrder(u)
    BY <1>w, <1>t, <1>f, <1>o, <1>5 DEF CancelOrder, Free, Claimed, Unsettled, Close, Cas
  <1> QED BY <1>1, <1>2, <1>3, <1>4, <1>5 DEF WithdrawStep

LEMMA ClaimInvariant == Spec => []ClaimInv
  <1>1. Init => ClaimInv
    <2>1. ASSUME Init PROVE TypeOK
      BY <2>1, IdleTyped, PipelineAssumption DEF Init, TypeOK
    <2> QED BY <2>1 DEF Init, ClaimInv, ClaimedIsApproved, Knows, IdleTask, Unsettled
  <1>2. ASSUME ClaimInv, TypeOK', [Next]_vars PROVE ClaimInv'
    <2> USE <1>2
    <2>1. ASSUME NEW c \in Cycle, PlanStep(c) \/ QueueStep(c) PROVE ClaimInv'
      BY <2>1, WorkersAreWorkers, PlanDisciplined, QueueDisciplined, DisciplineSuffices
    <2>2. ASSUME NEW u \in Operator, ApproveStep(u) \/ ExecuteStep(u) \/ WithdrawStep(u)
          PROVE  ClaimInv'
      BY <2>2, WorkersAreWorkers, ApproveDisciplined, ExecuteDisciplined,
         WithdrawDisciplined, DisciplineSuffices
    <2>3. ASSUME NEW r \in Reconciler, NEW o \in Order, Settle(r, o) PROVE ClaimInv'
      <3>1. r \in Worker BY WorkersAreWorkers
      <3>2. PICK target \in {"filled", "rejected"} :
              Cas(o, "submitting", target) /\ Close(r, o, target, "idle")
        BY <2>3 DEF Settle
      <3>3. task[r] \in Task /\ task \in [Worker -> Task]
            /\ status \in [Order -> Status \cup {"absent"}]
        BY <3>1 DEF ClaimInv, TypeOK
      <3>4. Knows(r)' BY <3>1, <3>2, <3>3 DEF Close, Knows, Task
      <3>5. Discipline(r)
        BY <2>3, <3>2, <3>3 DEF Settle, Close, Cas, Discipline, Claimed, Unsettled, orders
      <3> QED BY <3>1, <3>4, <3>5, DisciplineSuffices
    <2>4. ASSUME NEW w \in Worker, Finalize(w) PROVE ClaimInv'
      <3>1. /\ task[w] \in Task /\ task \in [Worker -> Task]
            /\ Knows(w) /\ task[w].pc = "finalize"
        BY <2>4 DEF ClaimInv, TypeOK, Finalize, ClosesBudget, At
      <3>2. Knows(w)'
        BY <2>4, <3>1 DEF Finalize, Finish, Goto, IdleTask, Knows, Task
      <3>3. Discipline(w)
        BY <2>4, <3>1 DEF Finalize, Finish, Goto, Discipline, orders
      <3> QED BY <3>2, <3>3, DisciplineSuffices
    <2>5. CASE Crash
      BY <2>5 DEF Crash, ClaimInv, ClaimedIsApproved, Knows, IdleTask, orders
    <2>6. CASE UNCHANGED vars
      BY <2>6 DEF vars, ClaimInv, ClaimedIsApproved, Knows
    <2> QED BY <2>1, <2>2, <2>3, <2>4, <2>5, <2>6 DEF Next
  <1> QED BY <1>1, <1>2, PipelineTypeCorrect, PTL DEF Spec

\* Whatever requests cross, and wherever the process stops, an order that was claimed
\* for the broker has an approval row that says "approved" and carries that row's id.
THEOREM OnlyApprovedIsClaimed == Spec => []ClaimedIsApproved
  <1>1. ClaimInv => ClaimedIsApproved
    BY DEF ClaimInv
  <1> QED BY <1>1, ClaimInvariant, PTL

-----------------------------------------------------------------------------
(* A buy that can still trade keeps its budget, when no two orders share a *)
(* position.  Until its order exists a position's reservation is in the    *)
(* hands of the one cycle worker that plans the order; afterwards only the *)
(* end of the order gives it back.                                         *)

OwnPosition == \A o, q \in Order : PositionOf[o] = PositionOf[q] => o = q

Budgeted(w) ==
  /\ task[w].pc = "finalize" => status[task[w].ord] \in Terminal
  /\ task[w].pc \in {"plan_risk", "plan_next", "position", "reserve", "create", "abandon"} =>
       \A o \in task[w].todo : PlannedBy[o] = w /\ status[o] = "absent"
  /\ task[w].pc \in {"position", "reserve", "create", "abandon"} =>
       /\ PlannedBy[task[w].ord] = w
       /\ status[task[w].ord] = "absent"
       /\ task[w].ord \notin task[w].todo
  /\ task[w].pc = "create" => resv[PositionOf[task[w].ord]] >= task[w].ask

BudgetInv == TypeOK /\ LiveBuyIsReserved /\ \A w \in Worker : Budgeted(w)

\* What one step of a worker w may do to the rows and to the other workers.
Thrift(w) ==
  /\ \A v \in Worker \ {w} : task'[v] = task[v]
  /\ \A o \in Order : status[o] \in Terminal => status'[o] \in Terminal
  /\ \A o \in Order : status[o] = "absent" /\ PlannedBy[o] # w =>
       status'[o] = "absent" /\ resv'[PositionOf[o]] = resv[PositionOf[o]]
  /\ \A o \in Order : status'[o] \in Live =>
       \/ status[o] \in Live /\ qty'[o] = qty[o]
          /\ resv'[PositionOf[o]] = resv[PositionOf[o]]
       \/ resv'[PositionOf[o]] >= qty'[o]

LEMMA LiveIsNotOver == /\ Live \cap Terminal = {} /\ "absent" \notin Live
                       /\ "absent" \notin Terminal
  BY DEF Live, Terminal, PreBroker, Unsettled

\* The transition graph has no move out of a final status.
LEMMA OnlyLiveMoves == ASSUME NEW s, NEW t, CanMove(s, t) PROVE s \in Live
  BY DEF CanMove, AllowedTransitions, Status, Live, Terminal, PreBroker, Unsettled

LEMMA CasFromLive == ASSUME NEW o, NEW s, NEW t, Cas(o, s, t)
                     PROVE  status[o] = s /\ s \in Live /\ s \notin Terminal /\ s # "absent"
  BY OnlyLiveMoves, LiveIsNotOver DEF Cas

LEMMA ThriftSuffices ==
  ASSUME BudgetInv, TypeOK', NEW w \in Worker, Thrift(w), Budgeted(w)'
  PROVE  BudgetInv'
  <1>1. LiveBuyIsReserved'
    BY DEF BudgetInv, LiveBuyIsReserved, LiveBuys, Thrift
  <1>2. ASSUME NEW v \in Worker \ {w} PROVE Budgeted(v)'
    <2>1. Budgeted(v) /\ task'[v] = task[v] /\ task[v] \in Task
      BY <1>2 DEF BudgetInv, Thrift, TypeOK
    <2>2. task[v].pc \in Free \/ task[v].ord \in Order BY <2>1 DEF Task
    <2>3. task[v].todo \subseteq Order BY <2>1 DEF Task
    <2> QED BY <2>1, <2>2, <2>3 DEF Budgeted, Thrift, Free
  <1> QED BY <1>1, <1>2 DEF BudgetInv

LEMMA PlanThrifty ==
  ASSUME BudgetInv, OwnPosition, NEW c \in Cycle, PlanStep(c)
  PROVE  Thrift(c) /\ Budgeted(c)'
  <1> USE DEF Thrift, Budgeted, At, Goto, Finish, IdleTask, orders
  <1>w. c \in Worker BY WorkersAreWorkers
  <1>t. /\ Budgeted(c)
        /\ task \in [Worker -> Task] /\ task[c] \in Task
        /\ status \in [Order -> Status \cup {"absent"}]
        /\ qty \in [Order -> Nat] /\ resv \in [Position -> Nat]
    BY <1>w DEF BudgetInv, TypeOK
  <1>f. DOMAIN task[c] = {"pc", "ord", "todo", "made", "ask", "cap", "room", "seen", "next"}
    BY <1>t DEF Task
  <1>o. task[c].pc \in Free \/ task[c].ord \in Order
    BY <1>t DEF Task
  <1>1. CASE PlanAccount(c)
    BY <1>w, <1>t, <1>f, <1>o, <1>1 DEF PlanAccount, Free
  <1>2. CASE PlanRisk(c)
    BY <1>w, <1>t, <1>f, <1>o, <1>2 DEF PlanRisk, Free
  <1>3. CASE PlanIntent(c)
    <2>1. PICK o \in task[c].todo :
            IF Worthwhile(c, o)
              THEN task' = [task EXCEPT ![c] = [task[c] EXCEPT
                     !.pc = IF o \in Entry THEN "position" ELSE "reserve",
                     !.ord = o, !.ask = Sized(c, o), !.todo = @ \ {o}]]
              ELSE task' = [task EXCEPT ![c].todo = @ \ {o}]
      BY <1>3 DEF PlanIntent
    <2>2. \A q \in task[c].todo : PlannedBy[q] = c /\ status[q] = "absent"
      BY <1>t, <1>3 DEF PlanIntent
    <2>3. /\ task[c].pc = "plan_next"
          /\ UNCHANGED <<status, qty, resv>>
      BY <1>3 DEF PlanIntent
    <2>4. Thrift(c) BY <1>t, <2>1, <2>3
    <2>5. Budgeted(c)'
      <3>1. CASE Worthwhile(c, o)
        <4> DEFINE pc == IF o \in Entry THEN "position" ELSE "reserve"
        <4>1. task'[c] = [task[c] EXCEPT !.pc = pc, !.ord = o, !.ask = Sized(c, o),
                                         !.todo = @ \ {o}]
          BY <1>w, <1>t, <2>1, <3>1
        <4>2. task'[c].pc = pc /\ task'[c].ord = o /\ task'[c].todo = task[c].todo \ {o}
          BY <4>1, <1>f
        <4> QED BY <4>2, <2>2, <2>3
      <3>2. CASE ~Worthwhile(c, o)
        <4>1. task'[c] = [task[c] EXCEPT !.todo = @ \ {o}] BY <1>w, <1>t, <2>1, <3>2
        <4>2. task'[c].pc = "plan_next" /\ task'[c].todo = task[c].todo \ {o}
          BY <4>1, <2>3, <1>f
        <4> QED BY <4>2, <2>2, <2>3
      <3> QED BY <3>1, <3>2
    <2> QED BY <2>4, <2>5
  <1>4. CASE CreatePosition(c)
    BY <1>w, <1>t, <1>f, <1>o, <1>4 DEF CreatePosition, Free
  <1>5. CASE Reserve(c)
    <2>1. /\ task[c].ord \in Order /\ PlannedBy[task[c].ord] = c
          /\ status[task[c].ord] = "absent" /\ task[c].ord \notin task[c].todo
          /\ \A q \in task[c].todo : PlannedBy[q] = c /\ status[q] = "absent"
      BY <1>t, <1>o, <1>5 DEF Reserve, Free
    <2>2. \A q \in Order : q # task[c].ord => PositionOf[q] # PositionOf[task[c].ord]
      BY <2>1 DEF OwnPosition
    <2>3. \A q \in Order : status[q] # "absent" =>
            resv'[PositionOf[q]] = resv[PositionOf[q]]
      BY <1>t, <1>5, <2>1, <2>2, PipelineAssumption DEF Reserve
    <2>4. \A q \in Order : PlannedBy[q] # c => resv'[PositionOf[q]] = resv[PositionOf[q]]
      BY <1>t, <1>5, <2>1, <2>2, PipelineAssumption DEF Reserve
    <2>5. Thrift(c)
      BY <1>t, <1>5, <2>3, <2>4, LiveIsNotOver DEF Reserve
    <2>6. /\ task'[c].pc \in {"create", "abandon"} /\ task'[c].ord = task[c].ord
          /\ task'[c].todo = task[c].todo /\ task'[c].ask = task[c].ask
      BY <1>w, <1>t, <1>f, <1>5 DEF Reserve
    <2>7. task'[c].pc = "create" => resv'[PositionOf[task[c].ord]] = task[c].ask
      <3>1. PositionOf[task[c].ord] \in Position BY <2>1, PipelineAssumption
      <3> QED BY <1>w, <1>t, <1>f, <1>5, <3>1 DEF Reserve
    <2>8. task[c].ask \in Nat BY <1>t DEF Task
    <2> QED BY <1>5, <2>1, <2>5, <2>6, <2>7, <2>8 DEF Reserve
  <1>6. CASE CreateOrder(c)
    <2>1. /\ task[c].ord \in Order /\ PlannedBy[task[c].ord] = c
          /\ status[task[c].ord] = "absent" /\ task[c].ord \notin task[c].todo
          /\ \A q \in task[c].todo : PlannedBy[q] = c /\ status[q] = "absent"
      BY <1>t, <1>o, <1>6 DEF CreateOrder, Free
    <2>2. \A q \in Order : q # task[c].ord => PositionOf[q] # PositionOf[task[c].ord]
      BY <2>1 DEF OwnPosition
    <2>3. resv[PositionOf[task[c].ord]] >= task[c].ask BY <1>t, <1>6 DEF CreateOrder
    <2>4. Thrift(c)
      BY <1>t, <1>6, <2>1, <2>3, LiveIsNotOver DEF CreateOrder
    <2>5. task'[c].pc = "plan_next" /\ task'[c].todo = task[c].todo
      BY <1>w, <1>t, <1>f, <1>6 DEF CreateOrder
    <2>6. \A q \in task[c].todo : status'[q] = "absent"
      BY <1>t, <1>6, <2>1 DEF CreateOrder
    <2> QED BY <2>1, <2>4, <2>5, <2>6
  <1>7. CASE CreateFails(c)
    <2>1. /\ task[c].ord \in Order /\ PlannedBy[task[c].ord] = c
          /\ status[task[c].ord] = "absent" /\ task[c].ord \notin task[c].todo
          /\ \A q \in task[c].todo : PlannedBy[q] = c /\ status[q] = "absent"
      BY <1>t, <1>o, <1>7 DEF CreateFails, Free
    <2>2. \A q \in Order : q # task[c].ord => PositionOf[q] # PositionOf[task[c].ord]
      BY <2>1 DEF OwnPosition
    <2>3. \A q \in Order : q # task[c].ord =>
            resv'[PositionOf[q]] = resv[PositionOf[q]]
      BY <1>t, <1>7, <2>1, <2>2, PipelineAssumption DEF CreateFails
    <2>4. Thrift(c) BY <1>t, <1>7, <2>1, <2>3, LiveIsNotOver DEF CreateFails
    <2>5. /\ task'[c].pc = "abandon" /\ task'[c].ord = task[c].ord
          /\ task'[c].todo = task[c].todo
      BY <1>w, <1>t, <1>f, <1>7 DEF CreateFails
    <2> QED BY <1>7, <2>1, <2>4, <2>5 DEF CreateFails
  <1>8. CASE Abandon(c)
    BY <1>w, <1>t, <1>f, <1>o, <1>8 DEF Abandon, Free
  <1>9. CASE PlanDone(c)
    BY <1>w, <1>t, <1>f, <1>o, <1>9 DEF PlanDone, Free
  <1> QED BY <1>1, <1>2, <1>3, <1>4, <1>5, <1>6, <1>7, <1>8, <1>9 DEF PlanStep

LEMMA QueueThrifty ==
  ASSUME BudgetInv, OwnPosition, NEW c \in Cycle, QueueStep(c)
  PROVE  Thrift(c) /\ Budgeted(c)'
  <1> USE DEF Thrift, Budgeted, At, Goto, Finish, IdleTask, orders
  <1>w. c \in Worker BY WorkersAreWorkers
  <1>t. /\ Budgeted(c)
        /\ task \in [Worker -> Task] /\ task[c] \in Task
        /\ status \in [Order -> Status \cup {"absent"}]
        /\ qty \in [Order -> Nat] /\ resv \in [Position -> Nat]
    BY <1>w DEF BudgetInv, TypeOK
  <1>f. DOMAIN task[c] = {"pc", "ord", "todo", "made", "ask", "cap", "room", "seen", "next"}
    BY <1>t DEF Task
  <1>o. task[c].pc \in Free \/ task[c].ord \in Order
    BY <1>t DEF Task
  <1>1. CASE MarkRiskApproved(c)
    BY <1>w, <1>t, <1>f, <1>o, <1>1, CasFromLive, LiveIsNotOver DEF MarkRiskApproved, Free
  <1>2. CASE CreateApproval(c)
    <2>1. PICK o \in task[c].todo :
            IF status[o] = "risk_approved" /\ approval[o] = "absent"
              THEN /\ approval' = [approval EXCEPT ![o] = "pending"]
                   /\ task' = [task EXCEPT ![c] = [task[c] EXCEPT !.pc = "bind", !.ord = o,
                                                    !.todo = @ \ {o}]]
              ELSE Finish(c) /\ UNCHANGED approval
      BY <1>2 DEF CreateApproval
    <2>2. \/ task'[c] = [task[c] EXCEPT !.pc = "bind", !.ord = o, !.todo = @ \ {o}]
          \/ task'[c] = IdleTask
      BY <1>w, <1>t, <2>1
    <2>3. CASE task'[c] = IdleTask BY <1>2, <1>t, <2>1, <2>3 DEF CreateApproval
    <2>4. CASE task'[c] = [task[c] EXCEPT !.pc = "bind", !.ord = o, !.todo = @ \ {o}]
      <3>1. task'[c].pc = "bind" BY <2>4, <1>f
      <3>2. \A v \in Worker \ {c} : task'[v] = task[v] BY <1>t, <2>1
      <3> QED BY <1>2, <3>1, <3>2 DEF CreateApproval
    <2> QED BY <2>2, <2>3, <2>4
  <1>3. CASE BindApproval(c)
    BY <1>w, <1>t, <1>f, <1>o, <1>3 DEF BindApproval, Free
  <1>4. CASE QueueApproval(c)
    BY <1>w, <1>t, <1>f, <1>o, <1>4, CasFromLive, LiveIsNotOver DEF QueueApproval, Free
  <1>5. CASE QueueFailedRow(c)
    BY <1>w, <1>t, <1>f, <1>o, <1>5 DEF QueueFailedRow, Free
  <1>6. CASE QueueFailedOrder(c)
    BY <1>w, <1>t, <1>f, <1>o, <1>6, CasFromLive, LiveIsNotOver DEF QueueFailedOrder, Free,
       Close, Terminal
  <1> QED BY <1>1, <1>2, <1>3, <1>4, <1>5, <1>6 DEF QueueStep

LEMMA ApproveThrifty ==
  ASSUME BudgetInv, OwnPosition, NEW u \in Operator, ApproveStep(u)
  PROVE  Thrift(u) /\ Budgeted(u)'
  <1> USE DEF Thrift, Budgeted, At, Goto, Finish, IdleTask, orders
  <1>w. u \in Worker BY WorkersAreWorkers
  <1>t. /\ Budgeted(u)
        /\ task \in [Worker -> Task] /\ task[u] \in Task
        /\ status \in [Order -> Status \cup {"absent"}]
        /\ qty \in [Order -> Nat] /\ resv \in [Position -> Nat]
    BY <1>w DEF BudgetInv, TypeOK
  <1>f. DOMAIN task[u] = {"pc", "ord", "todo", "made", "ask", "cap", "room", "seen", "next"}
    BY <1>t DEF Task
  <1>o. task[u].pc \in Free \/ task[u].ord \in Order
    BY <1>t DEF Task
  <1>1. CASE ApproveBegin(u)
    BY <1>w, <1>t, <1>f, <1>o, <1>1 DEF ApproveBegin, Free, Begin
  <1>2. CASE ApproveCheck(u)
    BY <1>w, <1>t, <1>f, <1>o, <1>2 DEF ApproveCheck, Free
  <1>3. CASE FreshAccount(u)
    BY <1>w, <1>t, <1>f, <1>o, <1>3 DEF FreshAccount, Free, FailPc, RiskPc
  <1>4. CASE FreshRefused(u)
    BY <1>w, <1>t, <1>f, <1>o, <1>4 DEF FreshRefused, Free, FailPc
  <1>5. CASE FreshRisk(u)
    BY <1>w, <1>t, <1>f, <1>o, <1>5 DEF FreshRisk, Free, FailPc, PassedPc
  <1>6. CASE ApproveOrder(u)
    BY <1>w, <1>t, <1>f, <1>o, <1>6, CasFromLive, LiveIsNotOver DEF ApproveOrder, Free
  <1>7. CASE ApproveRow(u)
    BY <1>w, <1>t, <1>f, <1>o, <1>7 DEF ApproveRow, Free, AfterRow
  <1>8. CASE ApproveFailed(u)
    BY <1>w, <1>t, <1>f, <1>o, <1>8 DEF ApproveFailed, Free
  <1>9. CASE RejectSeen(u)
    BY <1>w, <1>t, <1>f, <1>o, <1>9, CasFromLive, LiveIsNotOver DEF RejectSeen, Free, Close,
       Terminal
  <1> QED BY <1>1, <1>2, <1>3, <1>4, <1>5, <1>6, <1>7, <1>8, <1>9 DEF ApproveStep

LEMMA ExecuteThrifty ==
  ASSUME BudgetInv, OwnPosition, NEW u \in Operator, ExecuteStep(u)
  PROVE  Thrift(u) /\ Budgeted(u)'
  <1> USE DEF Thrift, Budgeted, At, Goto, Finish, IdleTask, orders
  <1>w. u \in Worker BY WorkersAreWorkers
  <1>t. /\ Budgeted(u)
        /\ task \in [Worker -> Task] /\ task[u] \in Task
        /\ status \in [Order -> Status \cup {"absent"}]
        /\ qty \in [Order -> Nat] /\ resv \in [Position -> Nat]
    BY <1>w DEF BudgetInv, TypeOK
  <1>f. DOMAIN task[u] = {"pc", "ord", "todo", "made", "ask", "cap", "room", "seen", "next"}
    BY <1>t DEF Task
  <1>o. task[u].pc \in Free \/ task[u].ord \in Order
    BY <1>t DEF Task
  <1>1. CASE ExecuteCheck(u)
    BY <1>w, <1>t, <1>f, <1>o, <1>1 DEF ExecuteCheck, Free
  <1>2. CASE ExecuteFailed(u)
    BY <1>w, <1>t, <1>f, <1>o, <1>2, CasFromLive, LiveIsNotOver DEF ExecuteFailed, Free,
       Close, Terminal
  <1>3. CASE ExpireIfDue(u)
    BY <1>w, <1>t, <1>f, <1>o, <1>3, CasFromLive, LiveIsNotOver DEF ExpireIfDue, Free,
       Close, Terminal
  <1>4. CASE Claim(u)
    BY <1>w, <1>t, <1>f, <1>o, <1>4, CasFromLive, LiveIsNotOver DEF Claim, Free
  <1> QED BY <1>1, <1>2, <1>3, <1>4 DEF ExecuteStep

LEMMA WithdrawThrifty ==
  ASSUME BudgetInv, OwnPosition, NEW u \in Operator, WithdrawStep(u)
  PROVE  Thrift(u) /\ Budgeted(u)'
  <1> USE DEF Thrift, Budgeted, At, Goto, Finish, IdleTask, orders
  <1>w. u \in Worker BY WorkersAreWorkers
  <1>t. /\ Budgeted(u)
        /\ task \in [Worker -> Task] /\ task[u] \in Task
        /\ status \in [Order -> Status \cup {"absent"}]
        /\ qty \in [Order -> Nat] /\ resv \in [Position -> Nat]
    BY <1>w DEF BudgetInv, TypeOK
  <1>f. DOMAIN task[u] = {"pc", "ord", "todo", "made", "ask", "cap", "room", "seen", "next"}
    BY <1>t DEF Task
  <1>o. task[u].pc \in Free \/ task[u].ord \in Order
    BY <1>t DEF Task
  <1>1. CASE RejectBegin(u)
    BY <1>w, <1>t, <1>f, <1>o, <1>1 DEF RejectBegin, Free, Begin
  <1>2. CASE RejectOrder(u)
    BY <1>w, <1>t, <1>f, <1>o, <1>2, CasFromLive, LiveIsNotOver DEF RejectOrder, Free,
       Close, Terminal
  <1>3. CASE CloseRow(u)
    BY <1>w, <1>t, <1>f, <1>o, <1>3 DEF CloseRow, Free
  <1>4. CASE CancelBegin(u)
    BY <1>w, <1>t, <1>f, <1>o, <1>4 DEF CancelBegin, Free
  <1>5. CASE CancelOrder(u)
    BY <1>w, <1>t, <1>f, <1>o, <1>5, CasFromLive, LiveIsNotOver DEF CancelOrder, Free,
       Close, Terminal
  <1> QED BY <1>1, <1>2, <1>3, <1>4, <1>5 DEF WithdrawStep

\* While a buy can still reach the broker, or is there, its budget is not free, however
\* cycles, approvals, cancellations and restarts overlap, as long as each order has a
\* position of its own.
THEOREM LiveBuyKeepsBudget == OwnPosition /\ Spec => []LiveBuyIsReserved
  <1> SUFFICES ASSUME OwnPosition PROVE Spec => []LiveBuyIsReserved
    OBVIOUS
  <1>1. Init => BudgetInv
    <2>1. ASSUME Init PROVE TypeOK
      BY <2>1, IdleTyped, PipelineAssumption DEF Init, TypeOK
    <2> QED BY <2>1, LiveIsNotOver
            DEF Init, BudgetInv, LiveBuyIsReserved, LiveBuys, Budgeted, IdleTask
  <1>2. ASSUME BudgetInv, ClaimInv, TypeOK', [Next]_vars PROVE BudgetInv'
    <2> USE <1>2
    <2>1. ASSUME NEW c \in Cycle, PlanStep(c) \/ QueueStep(c) PROVE BudgetInv'
      BY <2>1, WorkersAreWorkers, PlanThrifty, QueueThrifty, ThriftSuffices
    <2>2. ASSUME NEW u \in Operator, ApproveStep(u) \/ ExecuteStep(u) \/ WithdrawStep(u)
          PROVE  BudgetInv'
      BY <2>2, WorkersAreWorkers, ApproveThrifty, ExecuteThrifty, WithdrawThrifty,
         ThriftSuffices
    <2>3. ASSUME NEW r \in Reconciler, NEW o \in Order, Settle(r, o) PROVE BudgetInv'
      <3>1. r \in Worker BY WorkersAreWorkers
      <3>2. PICK target \in {"filled", "rejected"} :
              Cas(o, "submitting", target) /\ Close(r, o, target, "idle")
        BY <2>3 DEF Settle
      <3>3. /\ task[r] \in Task /\ task \in [Worker -> Task]
            /\ status \in [Order -> Status \cup {"absent"}]
        BY <3>1 DEF BudgetInv, TypeOK
      <3>4. target \in Terminal BY DEF Terminal
      <3>5. task'[r].pc = "finalize" /\ task'[r].ord = o
        BY <3>1, <3>2, <3>3 DEF Close, Task
      <3>6. Budgeted(r)' BY <3>2, <3>3, <3>4, <3>5 DEF Close, Budgeted
      <3>7. status[o] = "submitting" /\ "submitting" # "absent"
        BY <3>2 DEF Cas
      <3>8. Thrift(r)
        BY <2>3, <3>2, <3>3, <3>4, <3>7, LiveIsNotOver DEF Settle, Close, Thrift
      <3> QED BY <3>1, <3>6, <3>8, ThriftSuffices
    <2>4. ASSUME NEW w \in Worker, Finalize(w) PROVE BudgetInv'
      <3> DEFINE o == task[w].ord
      <3>1. /\ task[w] \in Task /\ task \in [Worker -> Task]
            /\ resv \in [Position -> Nat]
            /\ Budgeted(w) /\ task[w].pc = "finalize"
        BY <2>4 DEF BudgetInv, TypeOK, Finalize, ClosesBudget, At
      <3>2. o \in Order /\ status[o] \in Terminal
        BY <3>1 DEF Budgeted, Task, Free
      <3>3. \A q \in Order : q # o => resv'[PositionOf[q]] = resv[PositionOf[q]]
        BY <2>4, <3>1, <3>2, PipelineAssumption DEF Finalize, OwnPosition
      <3>4. Thrift(w)
        BY <2>4, <3>1, <3>2, <3>3, LiveIsNotOver
           DEF Finalize, Finish, Goto, Thrift, orders
      <3>5. Budgeted(w)'
        <4>1. task[w].next \in {"idle", "ap_close", "rj_row"}
          BY <3>1 DEF ClaimInv, Knows
        <4>2. task'[w].pc \in {"idle", "ap_close", "rj_row"}
          BY <2>4, <3>1, <4>1 DEF Finalize, Finish, Goto, IdleTask, Task
        <4> QED BY <4>2 DEF Budgeted
      <3> QED BY <3>4, <3>5, ThriftSuffices
    <2>5. CASE Crash
      BY <2>5 DEF Crash, BudgetInv, LiveBuyIsReserved, LiveBuys, Budgeted, IdleTask, orders
    <2>6. CASE UNCHANGED vars
      BY <2>6 DEF vars, BudgetInv, LiveBuyIsReserved, LiveBuys, Budgeted
    <2> QED BY <2>1, <2>2, <2>3, <2>4, <2>5, <2>6 DEF Next
  <1>3. BudgetInv => LiveBuyIsReserved
    BY DEF BudgetInv
  <1> QED BY <1>1, <1>2, <1>3, PipelineTypeCorrect, ClaimInvariant, PTL DEF Spec


-----------------------------------------------------------------------------
(* Totals.  A total is the number of the units that are added up, so what  *)
(* there is to know of it follows from the cardinalities of their sets.    *)

\* The units of one quantity.
LEMMA UnitsOfOne ==
  ASSUME NEW n \in Nat, NEW x
  PROVE  IsFiniteSet({x} \X (1 .. n)) /\ Cardinality({x} \X (1 .. n)) = n
  <1>1. IsFiniteSet(1 .. n) /\ Cardinality(1 .. n) = n
    BY FS_Interval
  <1>2. IsFiniteSet({x}) /\ Cardinality({x}) = 1
    BY FS_Singleton
  <1>3. Cardinality({x}) * Cardinality(1 .. n) = n
    BY <1>1, <1>2
  <1> QED BY <1>1, <1>2, <1>3, FS_Product

LEMMA TotalType ==
  ASSUME NEW S, IsFiniteSet(S), NEW f, \A x \in S : f[x] \in Nat
  PROVE  IsFiniteSet(Units(f, S)) /\ Total(f, S) \in Nat
  <1> DEFINE Blocks == {{x} \X (1 .. f[x]) : x \in S}
             b == [x \in S |-> {x} \X (1 .. f[x])]
  <1>1. b \in Surjection(S, Blocks)
    BY DEF Surjection
  <1>2. \A B \in Blocks : IsFiniteSet(B)
    BY UnitsOfOne
  <1> HIDE DEF Blocks, b
  <1>3. IsFiniteSet(Blocks)
    BY <1>1, FS_Surjection
  <1>4. IsFiniteSet(UNION Blocks)
    BY <1>2, <1>3, FS_UNION
  <1> QED BY <1>4, FS_CardinalityType DEF Units, Total, Blocks

\* A total is any of its quantities and the rest.
LEMMA TotalSplit ==
  ASSUME NEW S, IsFiniteSet(S), NEW f, \A x \in S : f[x] \in Nat, NEW y \in S
  PROVE  Total(f, S) = f[y] + Total(f, S \ {y})
  <1> DEFINE One == {y} \X (1 .. f[y])
  <1>1. Units(f, S) = One \cup Units(f, S \ {y}) /\ One \cap Units(f, S \ {y}) = {}
    BY DEF Units
  <1>2. IsFiniteSet(One) /\ Cardinality(One) = f[y] /\ f[y] \in Nat
    BY UnitsOfOne
  <1>3. IsFiniteSet(S \ {y})
    BY FS_Subset
  <1>4. IsFiniteSet(Units(f, S \ {y})) /\ Total(f, S \ {y}) \in Nat
    BY <1>3, TotalType
  <1> HIDE DEF One
  <1>5. Cardinality(One \cap Units(f, S \ {y})) = 0
    BY <1>1, FS_EmptySet
  <1>6. Cardinality(One \cup Units(f, S \ {y}))
          = Cardinality(One) + Cardinality(Units(f, S \ {y})) - Cardinality(One \cap Units(f, S \ {y}))
    BY <1>2, <1>4, FS_Union
  <1>7. Total(f, S) = Cardinality(One \cup Units(f, S \ {y})) /\ Total(f, S \ {y}) = Cardinality(Units(f, S \ {y}))
    BY <1>1 DEF Total
  <1> QED BY <1>2, <1>4, <1>5, <1>6, <1>7

LEMMA TotalSame ==
  ASSUME NEW S, NEW f, NEW g, \A x \in S : f[x] = g[x]
  PROVE  Total(f, S) = Total(g, S)
  <1>1. Units(f, S) = Units(g, S)
    BY DEF Units
  <1> QED BY <1>1 DEF Total

LEMMA TotalZero ==
  ASSUME NEW S, NEW f, \A x \in S : f[x] = 0
  PROVE  Total(f, S) = 0
  <1>1. Units(f, S) = {}
    BY DEF Units
  <1> QED BY <1>1, FS_EmptySet DEF Total

\* Where two functions differ in one place, so do their totals.
LEMMA TotalUpdate ==
  ASSUME NEW S, IsFiniteSet(S), NEW f, NEW g, NEW y \in S,
         \A x \in S : f[x] \in Nat /\ g[x] \in Nat,
         \A x \in S : x # y => f[x] = g[x]
  PROVE  Total(g, S) + f[y] = Total(f, S) + g[y]
  <1>1. Total(f, S) = f[y] + Total(f, S \ {y}) /\ Total(g, S) = g[y] + Total(g, S \ {y})
    BY TotalSplit
  <1>2. Total(f, S \ {y}) = Total(g, S \ {y})
    BY TotalSame
  <1>3. IsFiniteSet(S \ {y})
    BY FS_Subset
  <1>4. Total(f, S \ {y}) \in Nat
    BY <1>3, TotalType
  <1> QED BY <1>1, <1>2, <1>4

\* When every quantity of f has one of its own in g that is as large, the total of g is
\* as large.
LEMMA TotalInject ==
  ASSUME NEW S, NEW f, \A x \in S : f[x] \in Nat,
         NEW T, IsFiniteSet(T), NEW g, \A y \in T : g[y] \in Nat,
         NEW m, \A x \in S : m[x] \in T /\ f[x] <= g[m[x]],
         \A x, z \in S : m[x] = m[z] => x = z
  PROVE  Total(f, S) <= Total(g, T)
  <1> DEFINE A == Units(f, S)
             B == Units(g, T)
             h == [u \in A |-> <<m[u[1]], u[2]>>]
  <1>1. \A u \in A : u = <<u[1], u[2]>> /\ u[1] \in S /\ u[2] \in 1 .. f[u[1]]
    BY DEF Units
  <1>2. ASSUME NEW u \in A PROVE h[u] \in B
    <2>1. m[u[1]] \in T /\ u[2] \in 1 .. g[m[u[1]]]
      BY <1>1
    <2> QED BY <2>1 DEF Units
  <1>3. ASSUME NEW u \in A, NEW v \in A, h[u] = h[v] PROVE u = v
    <2>1. m[u[1]] = m[v[1]] /\ u[2] = v[2]
      BY <1>3
    <2> QED BY <1>1, <2>1
  <1>4. h \in Injection(A, B)
    <2> HIDE DEF A, B
    <2> QED BY <1>2, <1>3 DEF Injection, IsInjective
  <1>5. IsFiniteSet(B)
    BY TotalType
  <1> HIDE DEF A, B, h
  <1>6. Cardinality(A) <= Cardinality(B)
    BY <1>4, <1>5, FS_Injection
  <1> QED BY <1>6 DEF Total, A, B

-----------------------------------------------------------------------------
(* The budgets together stay within the account's limit.                   *)

\* A cycle reserves against the cap it read, which is never above the limit, and in
\* the transaction that adds up the reservations again.
SpendInv == Reserved <= Limit /\ \A w \in Worker : task[w].cap <= Limit

\* A step keeps the cap a worker has read, forgets it, or reads it anew.
LEMMA CapSteps ==
  ASSUME TypeOK, Next, NEW v \in Worker
  PROVE  task'[v].cap \in {task[v].cap} \cup 0..Limit
  <1> DEFINE Goal == task'[v].cap \in {task[v].cap} \cup 0..Limit
  <1>0. /\ task \in [Worker -> Task] /\ IdleTask.cap = 0 /\ 0 \in 0..Limit
        /\ DOMAIN task[v] = {"pc", "ord", "todo", "made", "ask", "cap", "room", "seen",
                             "next"}
    BY PipelineAssumption DEF TypeOK, IdleTask, Task
  <1>a. ASSUME NEW w \in Worker, NEW t, task' = [task EXCEPT ![w] = t],
               t.cap \in {task[w].cap} \cup 0..Limit
        PROVE  Goal
    BY <1>0, <1>a
  <1>b. ASSUME NEW w \in Worker, Finish(w) PROVE Goal
    BY <1>0, <1>a, <1>b DEF Finish
  <1>c. ASSUME NEW w \in Worker, NEW pc, Goto(w, pc) PROVE Goal
    BY <1>0, <1>c DEF Goto
  <1>d. ASSUME NEW w \in Worker, NEW o, NEW t, NEW n, Close(w, o, t, n) PROVE Goal
    BY <1>0, <1>d DEF Close
  <1>e. ASSUME NEW w \in Worker, NEW pc, Begin(w, pc) PROVE Goal
    BY <1>0, <1>e DEF Begin, IdleTask
  <1>1. ASSUME NEW c \in Worker, PlanStep(c) PROVE Goal
    <2>1. CASE PlanAccount(c)
      BY <1>0, <2>1 DEF PlanAccount, IdleTask, CapNow
    <2>2. CASE PlanRisk(c)
      BY <1>0, <2>2 DEF PlanRisk
    <2>3. CASE PlanIntent(c)
      <3>1. \/ \E o \in Order : task' = [task EXCEPT ![c] = [task[c] EXCEPT
                  !.pc = IF o \in Entry THEN "position" ELSE "reserve",
                  !.ord = o, !.ask = Sized(c, o), !.todo = @ \ {o}]]
            \/ \E o \in Order : task' = [task EXCEPT ![c].todo = @ \ {o}]
        <4>1. task[c].todo \subseteq Order
          BY <1>0 DEF Task
        <4> QED
          BY <2>3, <4>1 DEF PlanIntent
      <3> QED
        BY <1>0, <1>a, <3>1
    <2>4. CASE CreatePosition(c) \/ Reserve(c) \/ CreateFails(c) \/ Abandon(c)
      BY <1>c, <2>4 DEF CreatePosition, Reserve, CreateFails, Abandon
    <2>5. CASE CreateOrder(c)
      BY <1>0, <2>5 DEF CreateOrder
    <2>6. CASE PlanDone(c)
      BY <1>0, <1>b, <2>6 DEF PlanDone
    <2> QED
      BY <1>1, <2>1, <2>2, <2>3, <2>4, <2>5, <2>6 DEF PlanStep
  <1>2. ASSUME NEW c \in Worker, QueueStep(c) PROVE Goal
    <2>1. CASE MarkRiskApproved(c)
      BY <1>0, <1>b, <2>1 DEF MarkRiskApproved
    <2>2. CASE CreateApproval(c)
      <3>1. \/ Finish(c)
            \/ \E o \in Order : task' = [task EXCEPT ![c] = [task[c] EXCEPT
                  !.pc = "bind", !.ord = o, !.todo = @ \ {o}]]
        <4>1. task[c].todo \subseteq Order
          BY <1>0 DEF Task
        <4> QED
          BY <2>2, <4>1 DEF CreateApproval
      <3> QED
        BY <1>0, <1>a, <1>b, <3>1
    <2>3. CASE \/ BindApproval(c) \/ QueueApproval(c)
               \/ QueueFailedRow(c) \/ QueueFailedOrder(c)
      BY <1>b, <1>c, <1>d, <2>3 DEF BindApproval, QueueApproval, QueueFailedRow,
         QueueFailedOrder
    <2> QED
      BY <1>2, <2>1, <2>2, <2>3 DEF QueueStep
  <1>3. ASSUME NEW u \in Worker, ApproveStep(u) PROVE Goal
    <2>1. CASE ApproveBegin(u) \/ ApproveCheck(u) \/ FreshRefused(u) \/ FreshRisk(u)
      BY <1>c, <1>e, <2>1 DEF ApproveBegin, ApproveCheck, FreshRefused, FreshRisk
    <2>2. CASE FreshAccount(u)
      BY <1>0, <1>c, <2>2 DEF FreshAccount, CapNow
    <2>3. CASE ApproveOrder(u) \/ ApproveRow(u) \/ RejectSeen(u)
      BY <1>b, <1>c, <1>d, <2>3 DEF ApproveOrder, ApproveRow, RejectSeen
    <2>4. CASE ApproveFailed(u)
      BY <1>0, <2>4 DEF ApproveFailed
    <2> QED
      BY <1>3, <2>1, <2>2, <2>3, <2>4 DEF ApproveStep
  <1>4. ASSUME NEW u \in Worker, ExecuteStep(u) PROVE Goal
    BY <1>4, <1>b, <1>c, <1>d DEF ExecuteStep, ExecuteCheck, ExecuteFailed, ExpireIfDue,
       Claim
  <1>5. ASSUME NEW u \in Worker, WithdrawStep(u) PROVE Goal
    <2>1. CASE CancelBegin(u)
      BY <1>0, <2>1 DEF CancelBegin, IdleTask
    <2> QED
      BY <1>5, <2>1, <1>b, <1>d, <1>e DEF WithdrawStep, RejectBegin, RejectOrder, CloseRow,
         CancelOrder
  <1>6. ASSUME NEW r \in Worker, NEW o \in Order, Settle(r, o) PROVE Goal
    BY <1>6, <1>d DEF Settle
  <1>7. ASSUME NEW w \in Worker, Finalize(w) PROVE Goal
    BY <1>7, <1>b, <1>c DEF Finalize
  <1>8. CASE Crash
    BY <1>0, <1>8 DEF Crash
  <1> QED
    BY <1>1, <1>2, <1>3, <1>4, <1>5, <1>6, <1>7, <1>8, WorkersAreWorkers DEF Next

\* What happens to the reservations: one is taken within the cap, or given back.
ResvMove ==
  \/ UNCHANGED resv
  \/ \E p \in Position : resv' = [resv EXCEPT ![p] = 0]
  \/ \E c \in Worker, p \in Position :
       /\ resv[p] = 0 /\ BudgetAllows(c, p)
       /\ resv' = [resv EXCEPT ![p] = task[c].ask]

LEMMA ResvSteps == ASSUME TypeOK, Next PROVE ResvMove
  <1>0. /\ \A w \in Worker : task[w].pc \notin Free => PositionOf[task[w].ord] \in Position
        /\ resv \in [Position -> Nat]
    BY PipelineAssumption DEF TypeOK, Task
  <1>1. ASSUME NEW c \in Worker, PlanStep(c) PROVE ResvMove
    <2>1. CASE Reserve(c)
      <3>1. PositionOf[task[c].ord] \in Position
        BY <1>0, <2>1 DEF Reserve, At, Free
      <3> QED
        BY <1>0, <2>1, <3>1 DEF Reserve, ResvMove
    <2>2. CASE CreateFails(c)
      <3>1. PositionOf[task[c].ord] \in Position
        BY <1>0, <2>2 DEF CreateFails, At, Free
      <3> QED
        BY <2>2, <3>1 DEF CreateFails, ResvMove
    <2> QED
      BY <1>1, <2>1, <2>2 DEF PlanStep, PlanAccount, PlanRisk, PlanIntent, CreatePosition,
         CreateOrder, Abandon, PlanDone, ResvMove
  <1>2. ASSUME NEW c \in Worker, QueueStep(c) PROVE ResvMove
    BY <1>2 DEF QueueStep, MarkRiskApproved, CreateApproval, BindApproval, QueueApproval,
       QueueFailedRow, QueueFailedOrder, ResvMove
  <1>3. ASSUME NEW u \in Worker, ApproveStep(u) PROVE ResvMove
    BY <1>3 DEF ApproveStep, ApproveBegin, ApproveCheck, FreshAccount, FreshRefused,
       FreshRisk, ApproveOrder, ApproveRow, ApproveFailed, RejectSeen, ResvMove
  <1>4. ASSUME NEW u \in Worker, ExecuteStep(u) \/ WithdrawStep(u) PROVE ResvMove
    BY <1>4 DEF ExecuteStep, ExecuteCheck, ExecuteFailed, ExpireIfDue, Claim, WithdrawStep,
       RejectBegin, RejectOrder, CloseRow, CancelBegin, CancelOrder, ResvMove
  <1>5. ASSUME NEW w \in Worker, Finalize(w) PROVE ResvMove
    <2>1. PositionOf[task[w].ord] \in Position
      BY <1>0, <1>5 DEF Finalize, ClosesBudget, At, Free
    <2> QED
      BY <1>5, <2>1 DEF Finalize, ResvMove
  <1> QED
    BY <1>1, <1>2, <1>3, <1>4, <1>5, WorkersAreWorkers DEF Next, Settle, Crash, ResvMove

LEMMA SpendInit == Init => SpendInv
  <1> SUFFICES ASSUME Init PROVE SpendInv
    OBVIOUS
  <1>1. Reserved = 0
    <2>1. \A p \in Position : resv[p] = 0
      BY DEF Init
    <2> QED
      BY <2>1, TotalZero, PipelineAssumption DEF Reserved
  <1> QED
    BY <1>1, PipelineAssumption DEF Init, SpendInv, IdleTask

LEMMA SpendNext == TypeOK /\ SpendInv /\ [Next]_vars => SpendInv'
  <1> SUFFICES ASSUME TypeOK, SpendInv, [Next]_vars PROVE SpendInv'
    OBVIOUS
  <1>1. CASE UNCHANGED vars
    BY <1>1 DEF vars, SpendInv, Reserved
  <1> SUFFICES ASSUME Next PROVE SpendInv'
    BY <1>1
  <1>2. \A w \in Worker : task'[w].cap <= Limit
    BY CapSteps DEF SpendInv
  <1>0. resv \in [Position -> Nat] /\ Limit \in Nat /\ Reserved \in Nat
    BY PipelineAssumption, TotalType DEF TypeOK, Reserved
  <1>3. ASSUME NEW p \in Position, NEW v \in Nat, resv' = [resv EXCEPT ![p] = v]
        PROVE  Reserved' + resv[p] = Reserved + v /\ Reserved' \in Nat
    <2>1. Reserved' + resv[p] = Reserved + v
      <3>1. ASSUME NEW r, \A q \in Position : r[q] \in Nat,
                   \A q \in Position : q # p => resv[q] = r[q]
            PROVE  Total(r, Position) + resv[p]
                     = Total(resv, Position) + r[p]
        BY <1>0, <3>1, TotalUpdate, PipelineAssumption
      <3>2. /\ \A q \in Position : resv'[q] \in Nat /\ (q # p => resv[q] = resv'[q])
            /\ resv'[p] = v
        BY <1>0, <1>3
      <3> QED
        BY <3>1, <3>2 DEF Reserved
    <2>2. \A q \in Position : resv'[q] \in Nat
      BY <1>0, <1>3
    <2> QED
      BY <2>1, <2>2, TotalType, PipelineAssumption DEF Reserved
  <1>4. Reserved' <= Limit
    <2>1. CASE UNCHANGED resv
      BY <2>1 DEF SpendInv, Reserved
    <2>2. ASSUME NEW p \in Position, resv' = [resv EXCEPT ![p] = 0]
          PROVE  Reserved' <= Limit
      <3>1. Reserved' + resv[p] = Reserved + 0 /\ Reserved' \in Nat /\ resv[p] \in Nat
        BY <1>0, <1>3, <2>2
      <3> QED
        BY <1>0, <3>1 DEF SpendInv
    <2>3. ASSUME NEW c \in Worker, NEW p \in Position, resv[p] = 0, BudgetAllows(c, p),
                 resv' = [resv EXCEPT ![p] = task[c].ask]
          PROVE  Reserved' <= Limit
      <3>1. task[c].ask \in Nat /\ task[c].cap \in Nat /\ task[c].cap <= Limit
        BY DEF TypeOK, Task, SpendInv
      <3>2. Reserved + task[c].ask <= task[c].cap
        BY <2>3 DEF BudgetAllows
      <3> QED
        <4>1. Reserved' + resv[p] = Reserved + task[c].ask /\ Reserved' \in Nat
          BY <1>3, <2>3, <3>1
        <4> QED
          BY <1>0, <2>3, <3>1, <3>2, <4>1
    <2> QED
      BY <2>1, <2>2, <2>3, ResvSteps DEF ResvMove
  <1> QED
    BY <1>2, <1>4 DEF SpendInv

\* LiveBuysWithinLimit: overlapping cycles cannot spend the account's limit twice. The
\* reservations together stay within it, and each live buy is covered by its own.
THEOREM LimitIsNotSpentTwice == OwnPosition /\ Spec => []LiveBuysWithinLimit
  <1> SUFFICES ASSUME OwnPosition PROVE Spec => []LiveBuysWithinLimit
    OBVIOUS
  <1>1. Spec => []SpendInv
    BY PipelineTypeCorrect, SpendInit, SpendNext, PTL DEF Spec
  <1>2. TypeOK /\ SpendInv /\ LiveBuyIsReserved => LiveBuysWithinLimit
    <2> SUFFICES ASSUME TypeOK, SpendInv, LiveBuyIsReserved PROVE LiveBuysWithinLimit
      OBVIOUS
    <2>1. /\ \A o \in LiveBuys : qty[o] \in Nat
          /\ \A p \in Position : resv[p] \in Nat
          /\ Limit \in Nat
      BY PipelineAssumption DEF TypeOK, LiveBuys
    <2>2. /\ \A o \in LiveBuys : PositionOf[o] \in Position /\ qty[o] <= resv[PositionOf[o]]
          /\ \A o, q \in LiveBuys : PositionOf[o] = PositionOf[q] => o = q
      BY <2>1, PipelineAssumption DEF OwnPosition, LiveBuys, LiveBuyIsReserved
    <2>3. IsFiniteSet(LiveBuys)
      <3>1. [o \in LiveBuys |-> PositionOf[o]] \in Injection(LiveBuys, Position)
        BY <2>2 DEF Injection, IsInjective
      <3> QED
        BY <3>1, FS_Injection, PipelineAssumption
    <2>4. Total(qty, LiveBuys) <= Reserved
      BY <2>1, <2>2, <2>3, TotalInject, PipelineAssumption DEF Reserved
    <2>5. Total(qty, LiveBuys) \in Nat /\ Reserved \in Nat
      BY <2>1, <2>3, TotalType, PipelineAssumption DEF Reserved
    <2> QED
      BY <2>1, <2>4, <2>5 DEF LiveBuysWithinLimit, SpendInv
  <1> QED
    BY <1>1, <1>2, PipelineTypeCorrect, LiveBuyKeepsBudget, PTL
=============================================================================
