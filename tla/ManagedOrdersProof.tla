-------------------------- MODULE ManagedOrdersProof --------------------------
(* Proofs about ManagedOrders, for any orders, quantities and workers. *)
EXTENDS ManagedOrders, Functions, FiniteSetTheorems, TLAPS

LEMMA IdleTaskType ==
  /\ IdleTask \in Task
  /\ \A o \in Order, pc \in Pc : [IdleTask EXCEPT !.pc = pc, !.ord = o] \in Task
BY DEF IdleTask, Task, Pc, Status, PreBroker, Unsettled, Terminal, Observed, Reply

\* The steps of Next, one by one: every proof by cases below splits on this list.
LEMMA NextCases ==
  ASSUME Next
  PROVE  \/ \E o \in Order : \/ CreateOrder(o) \/ MarkRiskApproved(o)
                             \/ QueueApproval(o) \/ Approve(o)
                             \/ BrokerFill(o) \/ BrokerEnd(o)
         \/ \E w \in Worker, o \in Order :
              \/ Reject(w, o) \/ ExpireIfDue(w, o) \/ SubmitClaim(w, o)
              \/ CancelRead(w, o)
         \/ \E w \in Reconciler, o \in Order : RecRead(w, o)
         \/ \E w \in Worker :
              \/ SubmitCall(w) \/ SubmitRecord(w)
              \/ CancelClaim(w) \/ CancelCall(w) \/ CancelRecord(w)
              \/ RecFetch(w) \/ RecUnknown(w)
              \/ DuplicateFill(w) \/ ApplyFill(w) \/ FillRefused(w)
              \/ ProtectOk(w) \/ ProtectFails(w) \/ RecSettle(w) \/ Finalize(w)
         \/ Crash
<1> USE DEF Worker
<1>1. CASE \E o \in Order : OrderStep(o)
  BY <1>1 DEF OrderStep
<1>2. CASE \E w \in Executor : ExecutorStep(w)
  BY <1>2 DEF ExecutorStep
<1>3. CASE \E w \in Canceler : CancelerStep(w)
  BY <1>3 DEF CancelerStep
<1>4. CASE \E w \in Reconciler : ReconcilerStep(w)
  BY <1>4 DEF ReconcilerStep
<1> QED
  BY <1>1, <1>2, <1>3, <1>4 DEF Next

-----------------------------------------------------------------------------
LEMMA TypeInit == Init => TypeOK
<1> SUFFICES ASSUME Init PROVE TypeOK
  OBVIOUS
<1>1. DbTypeOK
  BY DEF Init, DbTypeOK
<1>2. BrokerTypeOK
  BY DEF Init, BrokerTypeOK, BkState
<1>3. TaskTypeOK
  BY IdleTaskType DEF Init, TaskTypeOK, IdleTask
<1> QED
  BY <1>1, <1>2, <1>3 DEF TypeOK

\* A step that gives one worker a well-typed record keeps the workers well-typed.
LEMMA TaskUpdate ==
  ASSUME TaskTypeOK, NEW w \in Worker, NEW t \in Task,
         t.pc = "idle" \/ t.ord \in Order,
         task' = [task EXCEPT ![w] = t], UNCHANGED crashes
  PROVE  TaskTypeOK'
BY DEF TaskTypeOK

LEMMA FinishType ==
  ASSUME TaskTypeOK, NEW w \in Worker, Finish(w), UNCHANGED crashes
  PROVE  TaskTypeOK'
BY IdleTaskType, TaskUpdate DEF Finish, IdleTask

LEMMA TransitionType ==
  ASSUME TypeOK, NEW w \in Worker, NEW o \in Order, NEW t \in Status,
         Transition(w, o, t), UNCHANGED crashes
  PROVE  /\ status' \in [Order -> Status \cup {"absent"}]
         /\ TaskTypeOK'
<1> DEFINE fin == [IdleTask EXCEPT !.pc = "finalize", !.ord = o]
<1>1. fin \in Task /\ fin.ord = o
  BY IdleTaskType DEF Pc, IdleTask
<1>2. CASE t \in Terminal
  BY <1>1, <1>2, TaskUpdate DEF Transition, TypeOK, DbTypeOK
<1>3. CASE t \notin Terminal
  BY <1>3, FinishType DEF Transition, TypeOK, DbTypeOK
<1> QED
  BY <1>2, <1>3

LEMMA TypeNext == TypeOK /\ [Next]_vars => TypeOK'
<1> SUFFICES ASSUME TypeOK, [Next]_vars PROVE TypeOK'
  OBVIOUS
<1> USE DEF TypeOK
<1>1. CASE UNCHANGED vars
  BY <1>1 DEF vars, DbTypeOK, BrokerTypeOK, TaskTypeOK
<1>a. ASSUME UNCHANGED db PROVE DbTypeOK'
  BY <1>a DEF db, DbTypeOK
<1>b. ASSUME UNCHANGED broker PROVE BrokerTypeOK'
  BY <1>b DEF broker, BrokerTypeOK
<1>c. ASSUME UNCHANGED <<task, crashes>> PROVE TaskTypeOK'
  BY <1>c DEF TaskTypeOK
<1>d. ASSUME NEW t, t \in Status \cup {"absent"}, NEW o \in Order,
             status' = [status EXCEPT ![o] = t] \/ UNCHANGED status,
             UNCHANGED <<filled, brokerId, fills, held>>,
             resv' = resv \/ resv' = "active"
      PROVE DbTypeOK'
  BY <1>d DEF DbTypeOK
<1>e. ASSUME NEW w \in Worker, NEW pc \in Pc
      PROVE [task[w] EXCEPT !.pc = pc] \in Task
  BY <1>e DEF TaskTypeOK, Task
<1>2. ASSUME NEW o \in Order, CreateOrder(o) PROVE TypeOK'
  BY <1>2, <1>b, <1>c, <1>d DEF CreateOrder, Status, PreBroker
<1>3. ASSUME NEW o \in Order, NEW e, NEW t \in Status, Advance(o, e, t) PROVE TypeOK'
  BY <1>3, <1>b, <1>c, <1>d DEF Advance
<1>4. ASSUME NEW o \in Order, MarkRiskApproved(o) \/ QueueApproval(o) \/ Approve(o)
      PROVE TypeOK'
  BY <1>3, <1>4 DEF MarkRiskApproved, QueueApproval, Approve, Status, PreBroker
<1>5. ASSUME NEW o \in Order, BrokerFill(o) \/ BrokerEnd(o) PROVE TypeOK'
  <2>1. BrokerTypeOK'
    BY <1>5 DEF BrokerFill, BrokerEnd, BrokerTypeOK, BkState
  <2> QED
    BY <1>5, <2>1, <1>a, <1>c DEF BrokerFill, BrokerEnd
<1>8. ASSUME NEW w \in Worker, NEW o \in Order, Reject(w, o) \/ ExpireIfDue(w, o)
      PROVE TypeOK'
  <2>1. PICK t \in {"rejected", "expired"} : Transition(w, o, t)
    BY <1>8 DEF Reject, ExpireIfDue, Withdraw
  <2>2. /\ UNCHANGED <<filled, brokerId, fills, held, resv, broker, crashes>>
    BY <1>8 DEF Reject, ExpireIfDue, Withdraw
  <2>3. t \in Status
    BY DEF Status, Terminal
  <2> QED
    BY <2>1, <2>2, <2>3, <1>b, TransitionType DEF DbTypeOK
<1>9. ASSUME NEW w \in Worker, NEW o \in Order, SubmitClaim(w, o) PROVE TypeOK'
  <2>1. TaskTypeOK'
    BY <1>9, IdleTaskType, TaskUpdate DEF SubmitClaim, Pc, IdleTask
  <2> QED
    BY <1>9, <2>1, <1>b, <1>d DEF SubmitClaim, Status, Unsettled
<1>10. ASSUME NEW w \in Worker, NEW o \in Order, CancelRead(w, o) \/ RecRead(w, o)
       PROVE TypeOK'
  <2> DEFINE t1 == [IdleTask EXCEPT !.pc = "cancel_claim", !.ord = o, !.seen = status[o]]
             t2 == [IdleTask EXCEPT !.pc = "rec_fetch", !.ord = o, !.seen = status[o],
                                    !.local = filled[o]]
  <2>0. filled[o] \in Nat
    BY DEF DbTypeOK
  <2>1. ASSUME status[o] \in Status
        PROVE  t1 \in Task /\ t1.ord = o /\ t2 \in Task /\ t2.ord = o
    <3>1. IdleTask \in Task
      BY IdleTaskType
    <3>2. t1 \in Task /\ t1.ord = o
      BY <2>1, <3>1 DEF Pc, Task
    <3>3. t2 \in Task /\ t2.ord = o
      BY <2>0, <2>1, <3>1 DEF Pc, Task
    <3> QED
      BY <3>2, <3>3
  <2>2. status[o] \in Status
    BY <1>10 DEF CancelRead, RecRead, Status
  <2>3. task' = [task EXCEPT ![w] = t1] \/ task' = [task EXCEPT ![w] = t2]
    BY <1>10 DEF CancelRead, RecRead
  <2> HIDE DEF t1, t2
  <2> QED
    BY <1>10, <2>1, <2>2, <2>3, <1>a, <1>b, TaskUpdate DEF CancelRead, RecRead
<1>12. ASSUME NEW w \in Worker, SubmitCall(w) PROVE TypeOK'
  <2> DEFINE t == task[w]
             again == [t EXCEPT !.tries = t.tries + 1]
             ready(reply) == [t EXCEPT !.pc = "submit_record", !.reply = reply]
  <2>0. t \in Task /\ t.ord \in Order
    BY <1>12 DEF SubmitCall, At, TaskTypeOK
  <2>1. \E r \in Reply : \/ task' = [task EXCEPT ![w] = ready(r)]
                       \/ task' = [task EXCEPT ![w] = again]
    <3>1. CASE task' = [task EXCEPT ![w].pc = "submit_record"]
      <4>1. ready(t.reply) = [t EXCEPT !.pc = "submit_record"] /\ t.reply \in Reply
        BY <2>0 DEF Task
      <4>2. task' = [task EXCEPT ![w] = [t EXCEPT !.pc = "submit_record"]]
        BY <3>1
      <4> QED
        BY <4>1, <4>2
    <3>2. ASSUME NEW reply \in Reply, task' = [task EXCEPT ![w] = AttemptDone(@, reply)]
          PROVE  \/ task' = [task EXCEPT ![w] = ready(reply)]
                 \/ task' = [task EXCEPT ![w] = again]
      <4>1. AttemptDone(t, reply) \in {again, ready(reply)}
        BY DEF AttemptDone
      <4> QED
        BY <3>2, <4>1
    <3> QED
      BY <1>12, <3>1, <3>2 DEF SubmitCall
  <2>2. again \in Task /\ again.ord \in Order
    BY <2>0 DEF Task
  <2>3. \A r \in Reply : ready(r) \in Task /\ ready(r).ord \in Order
    BY <2>0 DEF Task, Pc
  <2>4. UNCHANGED <<db, crashes>>
    BY <1>12 DEF SubmitCall
  <2>5. TaskTypeOK'
    <3> HIDE DEF t, again, ready
    <3> QED
      BY <2>1, <2>2, <2>3, <2>4, TaskUpdate
  <2>6. BrokerTypeOK'
    <3>1. CASE UNCHANGED broker
      BY <3>1, <1>b
    <3>2. CASE /\ placed' = [placed EXCEPT ![t.ord] = @ + 1]
               /\ bkState' = [bkState EXCEPT ![t.ord] = "working"]
               /\ bkFilled' = [bkFilled EXCEPT ![t.ord] = 0]
      BY <2>0, <3>2 DEF BrokerTypeOK, BkState
    <3> QED
      BY <1>12, <3>1, <3>2 DEF SubmitCall
  <2> QED
    BY <2>4, <2>5, <2>6, <1>a
<1>13. ASSUME NEW w \in Worker, SubmitRecord(w) PROVE TypeOK'
  <2> DEFINE o == task[w].ord
             target == SubmitTarget(task[w].reply)
  <2>1. o \in Order /\ target \in Status
    BY <1>13 DEF SubmitRecord, SubmitTarget, At, TaskTypeOK, Status, Unsettled, Terminal
  <2>2. CASE Cas(o, "submitting", target)
    BY <1>13, <2>1, <2>2, <1>b, TransitionType DEF SubmitRecord, DbTypeOK
  <2>3. CASE ~Cas(o, "submitting", target)
    BY <1>13, <2>3, <1>b, FinishType DEF SubmitRecord, DbTypeOK
  <2> QED
    BY <2>2, <2>3
<1>14. ASSUME NEW w \in Worker, CancelClaim(w) PROVE TypeOK'
  <2> DEFINE o == task[w].ord
             seen == task[w].seen
  <2>0. task[w] \in Task /\ o \in Order
    BY <1>14 DEF CancelClaim, At, TaskTypeOK
  <2>1. CASE /\ seen \in AskBroker
             /\ status' = [status EXCEPT ![o] = "cancel_pending"]
             /\ task' = [task EXCEPT ![w].pc = "cancel_call", ![w].local = filled[o]]
    <3> DEFINE t == task'[w]
    <3>1. t \in Task /\ t.ord = o /\ task' = [task EXCEPT ![w] = t]
      BY <2>0, <2>1 DEF TaskTypeOK, DbTypeOK, Pc, Task
    <3> HIDE DEF t
    <3> QED
      BY <1>14, <2>0, <2>1, <3>1, <1>b, <1>d, TaskUpdate DEF CancelClaim, Status, Unsettled
  <2>2. CASE Transition(w, o, "canceled")
    BY <1>14, <2>0, <2>2, <1>b, TransitionType
       DEF CancelClaim, DbTypeOK, Status, Terminal
  <2>3. CASE Finish(w) /\ UNCHANGED status
    BY <1>14, <2>3, <1>b, FinishType DEF CancelClaim, DbTypeOK
  <2> QED
    BY <1>14, <2>1, <2>2, <2>3 DEF CancelClaim
<1>15. ASSUME NEW w \in Worker, CancelCall(w) PROVE TypeOK'
  <2> DEFINE t == task'[w]
  <2>0. task[w] \in Task /\ task[w].ord \in Order
    BY <1>15 DEF CancelCall, At, TaskTypeOK
  <2>a. PICK reply \in Reply :
          task' = [task EXCEPT ![w].pc = "cancel_record", ![w].reply = reply]
    BY <1>15 DEF CancelCall
  <2>1. t \in Task /\ t.ord = task[w].ord /\ task' = [task EXCEPT ![w] = t]
    BY <2>a, <2>0 DEF TaskTypeOK, Pc, Task
  <2>2. BrokerTypeOK'
    BY <1>15, <2>0 DEF CancelCall, BrokerTypeOK, BkState
  <2> HIDE DEF t
  <2> QED
    BY <1>15, <2>0, <2>1, <2>2, <1>a, TaskUpdate DEF CancelCall
<1>16. ASSUME NEW w \in Worker, CancelRecord(w) PROVE TypeOK'
  <2> DEFINE o == task[w].ord
             target == CancelTarget(task[w].reply, task[w].local)
  <2>1. o \in Order /\ target \in Status
    BY <1>16 DEF CancelRecord, CancelTarget, At, TaskTypeOK, Status, Unsettled, Terminal
  <2>2. CASE Cas(o, "cancel_pending", target)
    BY <1>16, <2>1, <2>2, <1>b, TransitionType DEF CancelRecord, DbTypeOK
  <2>3. CASE ~Cas(o, "cancel_pending", target)
    BY <1>16, <2>3, <1>b, FinishType DEF CancelRecord, DbTypeOK
  <2> QED
    BY <2>2, <2>3
<1>17. ASSUME NEW w \in Worker, RecFetch(w) PROVE TypeOK'
  <2>0. task[w] \in Task /\ task[w].ord \in Order
    BY <1>17 DEF RecFetch, At, TaskTypeOK
  <2>1. ASSUME NEW a \in Answers(task[w].ord), RecFetchAnswer(w, a)
        PROVE  TypeOK'
    <3>1. a.obs \in Observed /\ a.cum \in Nat
      BY <2>0, <2>1 DEF Answers, NotFound, Snapshots, Shown, Observed, BrokerTypeOK
    <3> DEFINE t == task'[w]
    <3>2. t \in Task /\ t.ord = task[w].ord /\ task' = [task EXCEPT ![w] = t]
      <4> DEFINE next ==
            CASE a.cum = task[w].local -> "rec_settle"
              [] a.cum \in (task[w].local + 1)..Requested[task[w].ord] /\ a.priced
                   -> "rec_apply"
              [] OTHER -> "rec_unknown"
      <4>0. next \in Pc
        BY <2>0, <3>1 DEF Pc, Task
      <4>1. PICK pc \in Pc :
              task' = [task EXCEPT ![w] = [@ EXCEPT !.obs = a.obs, !.cum = a.cum, !.pc = pc]]
        BY <2>1, <4>0 DEF RecFetchAnswer
      <4> QED
        BY <2>0, <4>1, <3>1 DEF TaskTypeOK, Task
    <3> HIDE DEF t
    <3> QED
      BY <2>0, <2>1, <3>2, <1>a, <1>b, TaskUpdate DEF RecFetchAnswer
  <2>2. CASE RecFetchError(w)
    BY <2>2, <1>a, <1>b, FinishType DEF RecFetchError
  <2> QED
    BY <1>17, <2>1, <2>2 DEF RecFetch
<1>18. ASSUME NEW w \in Worker, RecUnknown(w) PROVE TypeOK'
  BY <1>18, <1>b, <1>d, FinishType
     DEF RecUnknown, At, TaskTypeOK, Status, Unsettled
<1>19. ASSUME NEW w \in Worker, DuplicateFill(w) PROVE TypeOK'
  <2> DEFINE t == task'[w]
  <2>0. task[w] \in Task /\ task[w].ord \in Order
    BY <1>19 DEF DuplicateFill, At, TaskTypeOK
  <2>1. t \in Task /\ t.ord = task[w].ord /\ task' = [task EXCEPT ![w] = t]
    BY <1>19, <2>0 DEF DuplicateFill, TaskTypeOK, Pc, Task
  <2> HIDE DEF t
  <2> QED
    BY <1>19, <2>0, <2>1, <1>a, <1>b, TaskUpdate DEF DuplicateFill
<1>20. ASSUME NEW w \in Worker, ApplyFill(w) PROVE TypeOK'
  <2> DEFINE o == task[w].ord
             delta == task[w].cum - task[w].local
             t == task'[w]
  <2>0. /\ task[w] \in Task /\ o \in Order
        /\ delta \in Nat
    BY <1>20 DEF ApplyFill, FillApplies, At, TaskTypeOK, Task
  <2>1. t \in Task /\ t.ord = o /\ task' = [task EXCEPT ![w] = t]
    BY <1>20, <2>0 DEF ApplyFill, FillStatus, TaskTypeOK, Pc, Task, Status, Unsettled,
       Terminal
  <2>2. DbTypeOK'
    BY <1>20, <2>0 DEF ApplyFill, FillApplies, FillStatus, HeldAfter, DbTypeOK, Task,
       Status,
       Unsettled, Terminal
  <2> HIDE DEF t
  <2> QED
    BY <1>20, <2>0, <2>1, <2>2, <1>b, TaskUpdate DEF ApplyFill
<1>21. ASSUME NEW w \in Worker, FillRefused(w) \/ ProtectFails(w) PROVE TypeOK'
  BY <1>21, <1>a, <1>b, FinishType DEF FillRefused, ProtectFails
<1>22. ASSUME NEW w \in Worker, ProtectOk(w) PROVE TypeOK'
  <2> DEFINE t == task'[w]
  <2>0. task[w] \in Task /\ task[w].ord \in Order
    BY <1>22 DEF ProtectOk, At, TaskTypeOK
  <2>1. t \in Task /\ t.ord = task[w].ord /\ task' = [task EXCEPT ![w] = t]
    BY <1>22, <2>0 DEF ProtectOk, TaskTypeOK, Pc, Task
  <2>2. DbTypeOK'
    BY <1>22 DEF ProtectOk, FinalReservation, DbTypeOK
  <2> HIDE DEF t
  <2> QED
    BY <1>22, <2>0, <2>1, <2>2, <1>b, TaskUpdate DEF ProtectOk
<1>23. ASSUME NEW w \in Worker, RecSettle(w) PROVE TypeOK'
  <2> DEFINE o == task[w].ord
             wanted == TargetStatus(task[w].obs, task[w].cum, Requested[o])
             target == IF CanMove(task[w].seen, wanted) THEN wanted ELSE "broker_unknown"
  <2>1. o \in Order
    BY <1>23 DEF RecSettle, At, TaskTypeOK
  <2>2. CASE Transition(w, o, target) /\ Cas(o, task[w].seen, target)
    <3>1. target \in Status
      BY <2>2 DEF Cas, CanMove, AllowedTransitions, Status, Unsettled, Terminal, PreBroker
    <3> QED
      BY <1>23, <2>1, <2>2, <3>1, <1>b, TransitionType DEF RecSettle, DbTypeOK
  <2>3. CASE Finish(w) /\ UNCHANGED status
    BY <1>23, <2>3, <1>b, FinishType DEF RecSettle, DbTypeOK
  <2> QED
    BY <1>23, <2>2, <2>3 DEF RecSettle
<1>24. ASSUME NEW w \in Worker, Finalize(w) PROVE TypeOK'
  <2>1. DbTypeOK'
    BY <1>24 DEF Finalize, FinalReservation, DbTypeOK
  <2> QED
    BY <1>24, <2>1, <1>b, FinishType DEF Finalize
<1>25. CASE Crash
  <2>1. task' \in [Worker -> Task] /\ \A w \in Worker : task'[w].pc = "idle"
    BY <1>25, IdleTaskType DEF Crash, IdleTask
  <2>2. crashes' \in Nat
    BY <1>25 DEF Crash, TaskTypeOK
  <2> QED
    BY <1>25, <2>1, <2>2, <1>a, <1>b DEF Crash, TaskTypeOK
<1> QED
  BY <1>1, <1>2, <1>4, <1>5, <1>8, <1>9, <1>10, <1>12, <1>13, <1>14, <1>15,
     <1>16, <1>17, <1>18, <1>19, <1>20, <1>21, <1>22, <1>23, <1>24, <1>25, NextCases DEF Worker

\* Every variable keeps its type, and a worker that is not idle works on an order:
\* no handler step is undefined.
THEOREM TypeCorrect == Spec => []TypeOK
<1>1. TypeOK /\ [Next]_vars => TypeOK'
  BY TypeNext
<1> QED
  BY TypeInit, <1>1, PTL DEF Spec

-----------------------------------------------------------------------------
(* The ledger: statuses move along the graph, "filled" means completely      *)
(* booked, and the orders implement OrderContract.                         *)

\* A terminal status allows no move, and the statuses before the broker and
\* "expired" are not entered from the others.
LEMMA GraphFacts ==
  ASSUME NEW s, NEW t, CanMove(s, t)
  PROVE  /\ s \in Status \ Terminal /\ t \in Status
         /\ s \in Unsettled => t \in Unsettled \cup (Terminal \ {"expired"})
BY DEF CanMove, AllowedTransitions, Status, PreBroker, Unsettled, Terminal

\* One order's status moves along the graph, and nothing is booked.  "filled" is
\* written this way only by a reconciler whose answer was the whole quantity.
StatusMove ==
  \E o \in Order, t \in Status :
    /\ status' = [status EXCEPT ![o] = t]
    /\ \/ CanMove(status[o], t)
       \/ status[o] = "absent" /\ t = "intent_created"
    /\ t = "filled" => \E w \in Worker : /\ At(w, "rec_settle")
                                         /\ task[w].ord = o
                                         /\ task[w].cum = Requested[o]
    /\ UNCHANGED <<filled, fills>>

\* Every step leaves the ledger alone, moves one status, or applies one fill.
LEMMA LedgerSteps ==
  ASSUME TypeOK, Next
  PROVE  \/ UNCHANGED <<status, filled, fills>>
         \/ StatusMove
         \/ \E w \in Worker : ApplyFill(w)
<1> DEFINE Goal == \/ UNCHANGED <<status, filled, fills>>
                   \/ StatusMove
                   \/ \E w \in Worker : ApplyFill(w)
<1>0. ASSUME NEW w \in Worker, task[w].pc # "idle" PROVE task[w].ord \in Order
  BY <1>0 DEF TypeOK, TaskTypeOK
<1>a. ASSUME NEW o \in Order, NEW e, NEW t, Cas(o, e, t), t # "filled",
             status' = [status EXCEPT ![o] = t], UNCHANGED <<filled, fills>>
      PROVE  Goal
  BY <1>a, GraphFacts DEF Cas, StatusMove
<1>2. ASSUME NEW o \in Order,
             CreateOrder(o) \/ MarkRiskApproved(o) \/ QueueApproval(o) \/ Approve(o)
      PROVE Goal
  <2>1. CASE CreateOrder(o)
    BY <2>1 DEF CreateOrder, StatusMove, Status, PreBroker
  <2> QED
    BY <1>2, <2>1, <1>a DEF MarkRiskApproved, QueueApproval, Approve, Advance
<1>3. ASSUME NEW o \in Order, BrokerFill(o) \/ BrokerEnd(o) PROVE Goal
  BY <1>3 DEF BrokerFill, BrokerEnd, db
<1>4. ASSUME NEW w \in Worker, NEW o \in Order,
             Reject(w, o) \/ ExpireIfDue(w, o) \/ SubmitClaim(w, o)
      PROVE Goal
  BY <1>4, <1>a DEF Reject, ExpireIfDue, SubmitClaim, Withdraw, Transition
<1>5. ASSUME NEW w \in Worker, NEW o \in Order, CancelRead(w, o) \/ RecRead(w, o)
      PROVE Goal
  BY <1>5 DEF CancelRead, RecRead, db
<1>6. ASSUME NEW w \in Worker, SubmitCall(w) \/ CancelCall(w) \/ RecFetch(w) PROVE Goal
  BY <1>6 DEF SubmitCall, CancelCall, RecFetch, RecFetchAnswer, RecFetchError, db
<1>7. ASSUME NEW w \in Worker, SubmitRecord(w) PROVE Goal
  <2>1. SubmitTarget(task[w].reply) # "filled" /\ task[w].ord \in Order
    BY <1>7, <1>0 DEF SubmitRecord, SubmitTarget, At
  <2> QED
    BY <1>7, <2>1, <1>a DEF SubmitRecord, Transition
<1>8. ASSUME NEW w \in Worker, CancelClaim(w) PROVE Goal
  BY <1>8, <1>0, <1>a DEF CancelClaim, Transition, At
<1>9. ASSUME NEW w \in Worker, CancelRecord(w) PROVE Goal
  <2>1. CancelTarget(task[w].reply, task[w].local) # "filled" /\ task[w].ord \in Order
    BY <1>9, <1>0 DEF CancelRecord, CancelTarget, At
  <2> QED
    BY <1>9, <2>1, <1>a DEF CancelRecord, Transition
<1>10. ASSUME NEW w \in Worker, RecUnknown(w) PROVE Goal
  BY <1>10, <1>0, <1>a DEF RecUnknown, At
<1>11. ASSUME NEW w \in Worker,
              \/ DuplicateFill(w) \/ FillRefused(w) \/ ProtectOk(w)
              \/ ProtectFails(w) \/ Finalize(w)
       PROVE Goal
  BY <1>11 DEF DuplicateFill, FillRefused, ProtectOk, ProtectFails, Finalize, db
<1>12. ASSUME NEW w \in Worker, RecSettle(w) PROVE Goal
  <2> DEFINE o == task[w].ord
             wanted == TargetStatus(task[w].obs, task[w].cum, Requested[o])
             target == IF CanMove(task[w].seen, wanted) THEN wanted ELSE "broker_unknown"
  <2>0. o \in Order /\ At(w, "rec_settle")
    BY <1>12, <1>0 DEF RecSettle, At
  <2>1. CASE Cas(o, task[w].seen, target) /\ Transition(w, o, target)
    <3>1. target \in Status /\ CanMove(status[o], target)
      BY <2>1, GraphFacts DEF Cas
    <3>2. target = "filled" => task[w].cum = Requested[o]
      BY DEF TargetStatus, NoTarget
    <3>3. status' = [status EXCEPT ![o] = target] /\ UNCHANGED <<filled, fills>>
      BY <1>12, <2>1 DEF Transition, RecSettle
    <3> QED
      BY <2>0, <3>1, <3>2, <3>3 DEF StatusMove
  <2>2. CASE UNCHANGED status
    BY <1>12, <2>2 DEF RecSettle
  <2> QED
    BY <1>12, <2>1, <2>2 DEF RecSettle
<1>13. CASE Crash
  BY <1>13 DEF Crash, db
<1> QED
  BY <1>2, <1>3, <1>4, <1>5, <1>6, <1>7, <1>8, <1>9, <1>10, <1>11, <1>12, <1>13, NextCases
     DEF Worker

-----------------------------------------------------------------------------
(* Statuses move along the graph.                                          *)

\* A fill leaves one of the statuses in which the broker may hold the order.
LEMMA FillMoves ==
  ASSUME TypeOK, NEW w \in Worker, ApplyFill(w)
  PROVE  LET o == task[w].ord
             total == filled[o] + (task[w].cum - task[w].local) IN
         /\ o \in Order
         /\ status[o] \in Unsettled
         /\ total \in Nat /\ filled[o] < total /\ total <= Requested[o]
         /\ filled' = [filled EXCEPT ![o] = total]
         /\ status' = [status EXCEPT ![o] = FillStatus(o, total)]
         /\ fills' = fills \cup {[order |-> o, key |-> task[w].cum,
                                  qty |-> task[w].cum - task[w].local]}
<1>1. /\ task[w].ord \in Order
      /\ task[w].cum \in Nat /\ task[w].local \in Nat
      /\ filled \in [Order -> Nat]
  BY DEF ApplyFill, At, TypeOK, TaskTypeOK, DbTypeOK, Task
<1> QED
  BY <1>1, OrderAssumption DEF ApplyFill, FillApplies

LEMMA LegalStep ==
  ASSUME TypeOK, [Next]_vars, NEW o \in Order, status'[o] # status[o]
  PROVE  \/ status[o] = "absent" /\ status'[o] = "intent_created"
         \/ CanMove(status[o], status'[o])
<1>1. CASE UNCHANGED status
  BY <1>1
<1>2. CASE StatusMove
  BY <1>2 DEF StatusMove, TypeOK, DbTypeOK
<1>3. ASSUME NEW w \in Worker, ApplyFill(w) PROVE CanMove(status[o], status'[o])
  BY <1>3, FillMoves DEF FillStatus, CanMove, AllowedTransitions, Status, Unsettled,
     Terminal, PreBroker, TypeOK, DbTypeOK
<1> QED
  BY <1>1, <1>2, <1>3, LedgerSteps DEF vars

\* LegalTransitions, for any number of orders and workers: neither the fill
\* transaction, which does not consult the graph, nor a stale snapshot moves a
\* status against the graph.
THEOREM StatusesMoveLegally == Spec => LegalTransitions
<1>1. ASSUME TypeOK, [Next]_vars
      PROVE  [\A o \in Order :
                status'[o] # status[o] =>
                  \/ status[o] = "absent" /\ status'[o] = "intent_created"
                  \/ CanMove(status[o], status'[o])]_vars
  BY <1>1, LegalStep
<1> QED
  BY <1>1, TypeCorrect, PTL DEF Spec, LegalTransitions

-----------------------------------------------------------------------------
(* "filled" means completely booked.                                       *)

RecPc == {"rec_fetch", "rec_unknown", "rec_apply", "rec_protect", "rec_settle"}

\* FilledIffComplete is not inductive: a reconciler may settle "filled" from an
\* answer it has carried through several steps.  It may do so because an answer
\* of the whole quantity reaches that step only past a fill row with that key,
\* and such a row exists only when everything is booked: it was written over a
\* cumulative quantity at least as large as the one the writer had read.
FillInv ==
  /\ FilledIffComplete
  /\ \A o \in Order : filled[o] <= Requested[o]
  /\ \A f \in fills : f.key = Requested[f.order] => filled[f.order] = Requested[f.order]
  /\ \A w \in Worker : task[w].pc \in RecPc =>
       task[w].local <= filled[task[w].ord] /\ task[w].local < Requested[task[w].ord]
  /\ \A w \in Worker :
       task[w].pc \in {"rec_protect", "rec_settle"}
         /\ task[w].cum = Requested[task[w].ord]
         => filled[task[w].ord] = Requested[task[w].ord]

\* How a reconciler's request moves on: it starts with what the ledger says, keeps
\* that, and reaches its last steps with the answer it fetched.
RecMove(v) ==
  \/ task'[v].pc \notin RecPc
  \/ task'[v] = task[v]
  \/ /\ v \in Reconciler
     /\ task'[v].pc = "rec_fetch"
     /\ status[task'[v].ord] \in Unsettled
     /\ task'[v].local = filled[task'[v].ord]
     /\ UNCHANGED <<status, filled, fills>>
  \/ /\ task[v].pc \in RecPc /\ task'[v].pc # "rec_fetch"
     /\ task'[v].ord = task[v].ord /\ task'[v].local = task[v].local
     /\ task'[v].pc = "rec_apply" => /\ task[v].pc = "rec_fetch"
                                     /\ brokerId[task[v].ord]
                                     /\ task'[v].cum = bkFilled[task[v].ord]
     /\ task'[v].pc \in {"rec_protect", "rec_settle"} =>
          \/ task'[v].cum = task[v].local
          \/ task[v].pc = "rec_protect" /\ task'[v].cum = task[v].cum
          \/ task'[v].cum = task[v].cum /\ (ApplyFill(v) \/ DuplicateFill(v))

LEMMA RecSteps ==
  ASSUME TypeOK, Next, NEW v \in Worker
  PROVE  RecMove(v)
<1>0. /\ task \in [Worker -> Task]
      /\ \A w \in Worker : task[w].pc \in RecPc => /\ task[w].ord \in Order
                                                /\ task[w].local \in Nat
      /\ IdleTask.pc \notin RecPc
  BY DEF TypeOK, TaskTypeOK, RecPc, Task, IdleTask
<1>a. ASSUME NEW w \in Worker, NEW t, task' = [task EXCEPT ![w] = t],
             t.pc \notin RecPc
      PROVE  RecMove(v)
  BY <1>a, <1>0 DEF RecMove
<1>b. ASSUME NEW w \in Worker, Finish(w) PROVE RecMove(v)
  BY <1>a, <1>b, <1>0 DEF Finish
<1>c. ASSUME NEW w \in Worker, NEW o, NEW s, Transition(w, o, s) PROVE RecMove(v)
  <2>1. [IdleTask EXCEPT !.pc = "finalize", !.ord = o].pc \notin RecPc
    BY DEF IdleTask, RecPc
  <2> QED
    BY <1>a, <1>b, <1>c, <2>1 DEF Transition
<1>d. ASSUME UNCHANGED task PROVE RecMove(v)
  BY <1>d DEF RecMove
<1>2. ASSUME NEW o \in Order,
             \/ CreateOrder(o) \/ MarkRiskApproved(o) \/ QueueApproval(o) \/ Approve(o)
             \/ BrokerFill(o) \/ BrokerEnd(o)
      PROVE  RecMove(v)
  BY <1>2, <1>d DEF CreateOrder, MarkRiskApproved, QueueApproval, Approve, Advance,
     BrokerFill, BrokerEnd
<1>4. ASSUME NEW w \in Worker, NEW o \in Order, Reject(w, o) \/ ExpireIfDue(w, o)
      PROVE  RecMove(v)
  BY <1>4, <1>c DEF Reject, ExpireIfDue, Withdraw
<1>5. ASSUME NEW w \in Worker, NEW o \in Order, SubmitClaim(w, o) \/ CancelRead(w, o)
      PROVE  RecMove(v)
  BY <1>5, <1>a DEF SubmitClaim, CancelRead, IdleTask, RecPc
<1>6. ASSUME NEW w \in Reconciler, NEW o \in Order, RecRead(w, o) PROVE RecMove(v)
  BY <1>6, <1>0 DEF RecRead, IdleTask, RecPc, RecMove, db, Worker
<1>7. ASSUME NEW w \in Worker, SubmitCall(w) PROVE RecMove(v)
  <2>1. /\ [task[w] EXCEPT !.pc = "submit_record"].pc \notin RecPc
        /\ \A r \in Reply : AttemptDone(task[w], r).pc \notin RecPc
    <3>1. task[w] \in Task /\ task[w].pc = "submit_call"
      BY <1>7, <1>0 DEF SubmitCall, At
    <3>2. ASSUME NEW r \in Reply PROVE AttemptDone(task[w], r).pc \notin RecPc
      <4>1. CASE r = "unknown" /\ task[w].tries + 1 < MaxAttempts
        BY <3>1, <4>1 DEF AttemptDone, RecPc, Task
      <4>2. CASE ~(r = "unknown" /\ task[w].tries + 1 < MaxAttempts)
        BY <3>1, <4>2 DEF AttemptDone, RecPc, Task
      <4> QED
        BY <4>1, <4>2
    <3> QED
      BY <3>1, <3>2 DEF RecPc, Task
  <2> QED
    BY <1>7, <2>1, <1>a DEF SubmitCall
<1>8. ASSUME NEW w \in Worker, SubmitRecord(w) \/ CancelRecord(w) PROVE RecMove(v)
  BY <1>8, <1>b, <1>c DEF SubmitRecord, CancelRecord
<1>9. ASSUME NEW w \in Worker, CancelClaim(w) PROVE RecMove(v)
  <2>1. CASE task' = [task EXCEPT ![w].pc = "cancel_call",
                                  ![w].local = filled[task[w].ord]]
    BY <2>1, <1>0 DEF RecMove, RecPc, Task
  <2> QED
    BY <1>9, <2>1, <1>b, <1>c DEF CancelClaim
<1>10. ASSUME NEW w \in Worker, CancelCall(w) PROVE RecMove(v)
  BY <1>10, <1>0 DEF CancelCall, RecMove, RecPc, Task
<1>11. ASSUME NEW w \in Worker, RecFetch(w) PROVE RecMove(v)
  <2>1. ASSUME NEW a \in Answers(task[w].ord), RecFetchAnswer(w, a) PROVE RecMove(v)
    <3>0. task[w].pc = "rec_fetch" /\ task[w].local \in Nat
      BY <1>0, <2>1 DEF RecFetchAnswer, At, RecPc
    <3>1. /\ a.cum \in Nat
          /\ a.cum > task[w].local => /\ brokerId[task[w].ord]
                                      /\ a.cum = bkFilled[task[w].ord]
      BY <1>0, <3>0, <2>1 DEF Answers, NotFound, Snapshots, Shown, TypeOK, BrokerTypeOK, RecPc
    <3>2. /\ \A u \in Worker \ {w} : task'[u] = task[u]
          /\ task'[w] = [task[w] EXCEPT !.obs = a.obs, !.cum = a.cum,
                 !.pc = CASE a.cum = task[w].local -> "rec_settle"
                          [] a.cum \in (task[w].local + 1)..Requested[task[w].ord]
                             /\ a.priced -> "rec_apply"
                          [] OTHER -> "rec_unknown"]
      BY <2>1, <1>0 DEF RecFetchAnswer
    <3>3. /\ task'[w].ord = task[w].ord /\ task'[w].local = task[w].local
          /\ task'[w].cum = a.cum
          /\ task'[w].pc = "rec_apply" => a.cum > task[w].local
          /\ task'[w].pc \in {"rec_protect", "rec_settle"} => a.cum = task[w].local
      BY <1>0, <3>0, <3>1, <3>2 DEF Task
    <3>4. task'[w].pc # "rec_fetch"
      BY <1>0, <3>0, <3>1, <3>2 DEF Task
    <3>5. CASE v = w
      BY <3>0, <3>1, <3>3, <3>4, <3>5 DEF RecMove, RecPc
    <3>6. CASE v # w
      BY <3>2, <3>6 DEF RecMove
    <3> QED
      BY <3>5, <3>6
  <2> QED
    BY <1>11, <2>1, <1>b DEF RecFetch, RecFetchError
<1>12. ASSUME NEW w \in Worker, DuplicateFill(w) PROVE RecMove(v)
  BY <1>12, <1>0 DEF DuplicateFill, At, RecMove, RecPc, Task
<1>13. ASSUME NEW w \in Worker, ApplyFill(w) PROVE RecMove(v)
  BY <1>13, <1>0 DEF ApplyFill, At, RecMove, RecPc, Task
<1>14. ASSUME NEW w \in Worker, ProtectOk(w) PROVE RecMove(v)
  BY <1>14, <1>0 DEF ProtectOk, At, RecMove, RecPc, Task
<1>15. ASSUME NEW w \in Worker,
              \/ FillRefused(w) \/ ProtectFails(w) \/ RecSettle(w)
              \/ Finalize(w) \/ RecUnknown(w)
       PROVE  RecMove(v)
  BY <1>15, <1>b, <1>c DEF FillRefused, ProtectFails, RecSettle, Finalize, RecUnknown
<1>16. CASE Crash
  BY <1>16, <1>0 DEF Crash, RecMove
<1> QED
  BY <1>2, <1>4, <1>5, <1>6, <1>7, <1>8, <1>9, <1>10, <1>11, <1>12, <1>13, <1>14,
     <1>15, <1>16, NextCases

-----------------------------------------------------------------------------
LEMMA FillInit == Init => FillInv
BY OrderAssumption DEF Init, FillInv, FilledIffComplete, IdleTask, RecPc

LEMMA FillNext == TypeOK /\ FillInv /\ [Next]_vars => FillInv'
<1> SUFFICES ASSUME TypeOK, FillInv, [Next]_vars PROVE FillInv'
  OBVIOUS
<1>0. /\ status \in [Order -> Status \cup {"absent"}]
      /\ filled \in [Order -> Nat]
      /\ fills \subseteq [order : Order, key : Nat, qty : Nat]
      /\ task \in [Worker -> Task]
      /\ \A w \in Worker : task[w].pc \in RecPc => task[w].ord \in Order
  BY DEF TypeOK, DbTypeOK, TaskTypeOK, RecPc
<1>1. CASE UNCHANGED vars
  BY <1>1 DEF vars, FillInv, FilledIffComplete
<1> SUFFICES ASSUME Next PROVE FillInv'
  BY <1>1
<1>a. ASSUME NEW o \in Order, filled[o] = Requested[o],
             filled[o] <= filled'[o], filled'[o] <= Requested[o]
      PROVE  filled'[o] = Requested[o]
  <2>1. filled[o] \in Nat /\ filled'[o] \in Nat /\ Requested[o] \in Nat
    BY <1>0, TypeNext, OrderAssumption DEF TypeOK, DbTypeOK
  <2> QED
    BY <1>a, <2>1
\* A move to "filled" is made from an answer of the whole quantity.
<1>2. FilledIffComplete' /\ \A o \in Order : /\ filled[o] <= filled'[o]
                                            /\ filled'[o] <= Requested[o]
  <2>1. CASE UNCHANGED <<status, filled, fills>>
    BY <1>0, <2>1 DEF FillInv, FilledIffComplete
  <2>2. CASE StatusMove
    <3>1. PICK o \in Order, t \in Status :
            /\ status' = [status EXCEPT ![o] = t]
            /\ \/ CanMove(status[o], t)
               \/ status[o] = "absent" /\ t = "intent_created"
            /\ t = "filled" => \E w \in Worker : /\ At(w, "rec_settle")
                                                 /\ task[w].ord = o
                                                 /\ task[w].cum = Requested[o]
            /\ UNCHANGED <<filled, fills>>
      BY <2>2, Zenon DEF StatusMove
    <3>2. status[o] # "filled"
      BY <3>1, GraphFacts DEF Terminal
    <3>3. filled[o] # Requested[o]
      BY <3>2 DEF FillInv, FilledIffComplete
    <3>4. t # "filled"
      BY <3>1, <3>3 DEF FillInv, At
    <3> QED
      BY <1>0, <3>1, <3>3, <3>4 DEF FillInv, FilledIffComplete
  <2>3. ASSUME NEW w \in Worker, ApplyFill(w)
        PROVE  FilledIffComplete' /\ \A o \in Order : /\ filled[o] <= filled'[o]
                                                     /\ filled'[o] <= Requested[o]
    BY <1>0, <2>3, FillMoves, OrderAssumption DEF FillStatus, FillInv, FilledIffComplete
  <2> QED
    BY <2>1, <2>2, <2>3, LedgerSteps
<1>3. ASSUME NEW w \in Worker, ApplyFill(w), task[w].cum = Requested[task[w].ord]
      PROVE  filled'[task[w].ord] = Requested[task[w].ord]
  <2>1. /\ task[w].cum \in Nat /\ task[w].local \in Nat
        /\ task[w].local <= filled[task[w].ord]
    BY <1>0, <1>3 DEF FillInv, ApplyFill, At, RecPc, Task
  <2> QED
    BY <1>0, <1>3, <2>1, FillMoves, OrderAssumption
\* Rows of a complete order: those there were, and the one a worker adds.
<1>4. \A f \in fills' : f.key = Requested[f.order] => filled'[f.order] = Requested[f.order]
  <2>1. ASSUME NEW f \in fills, f.key = Requested[f.order]
        PROVE  filled'[f.order] = Requested[f.order]
    <3>1. f.order \in Order /\ filled[f.order] = Requested[f.order]
      BY <1>0, <2>1 DEF FillInv
    <3> QED
      BY <1>a, <1>2, <3>1
  <2>2. CASE fills' = fills
    BY <2>1, <2>2
  <2>3. ASSUME NEW w \in Worker, ApplyFill(w)
        PROVE  \A f \in fills' :
                 f.key = Requested[f.order] => filled'[f.order] = Requested[f.order]
    BY <2>1, <2>3, <1>3, FillMoves
  <2> QED
    BY <2>2, <2>3, LedgerSteps DEF StatusMove
<1>5. ASSUME NEW v \in Worker, task'[v].pc \in RecPc
      PROVE  /\ task'[v].local <= filled'[task'[v].ord]
             /\ task'[v].local < Requested[task'[v].ord]
             /\ task'[v].pc \in {"rec_protect", "rec_settle"}
                  /\ task'[v].cum = Requested[task'[v].ord]
                  => filled'[task'[v].ord] = Requested[task'[v].ord]
  <2> DEFINE o == task'[v].ord
  <2>0. o \in Order
    BY <1>5, TypeNext DEF TypeOK, TaskTypeOK, RecPc
  <2>1. CASE /\ task'[v].pc = "rec_fetch"
             /\ status[o] \in Unsettled
             /\ task'[v].local = filled[o]
             /\ UNCHANGED <<status, filled, fills>>
    <3>1. filled[o] < Requested[o]
      BY <1>0, <2>0, <2>1, OrderAssumption DEF FillInv, FilledIffComplete, Unsettled
    <3> QED
      BY <1>0, <2>0, <2>1, <3>1
  <2>2. CASE task[v].pc \in RecPc /\ o = task[v].ord /\ task'[v].local = task[v].local
    <3>1. task'[v].local <= filled'[o] /\ task'[v].local < Requested[o]
      <4>1. /\ task[v].local <= filled[o] /\ task[v].local < Requested[o]
            /\ filled[o] <= filled'[o]
        BY <1>2, <2>0, <2>2 DEF FillInv
      <4>2. task[v].local \in Nat /\ filled[o] \in Nat /\ filled'[o] \in Nat
        BY <1>0, <2>0, TypeNext DEF Task, TypeOK, DbTypeOK
      <4> QED
        BY <2>2, <4>1, <4>2
    <3>2. ASSUME task'[v].pc \in {"rec_protect", "rec_settle"}, task'[v].cum = Requested[o]
          PROVE  filled'[o] = Requested[o]
      <4>1. CASE task[v].pc \in {"rec_protect", "rec_settle"} /\ task[v].cum = Requested[o]
        <5>1. filled[o] = Requested[o]
          BY <2>2, <4>1 DEF FillInv
        <5> QED
          BY <5>1, <1>a, <1>2, <2>0
      <4>2. CASE ApplyFill(v) /\ task[v].cum = Requested[o]
        BY <1>3, <2>2, <4>2
      <4>3. CASE DuplicateFill(v) /\ task[v].cum = Requested[o]
        <5>1. filled[o] = Requested[o]
          BY <2>2, <4>3 DEF DuplicateFill, FillInv
        <5> QED
          BY <5>1, <1>a, <1>2, <2>0
      <4>4. task[v].local < Requested[o] /\ Requested[o] \in Nat
        BY <2>0, <2>2, OrderAssumption DEF FillInv
      <4> QED
        BY <1>5, <2>2, <3>2, <4>1, <4>2, <4>3, <4>4, RecSteps DEF RecMove
    <3> QED
      BY <3>1, <3>2
  <2> QED
    BY <1>5, <2>1, <2>2, RecSteps DEF RecMove
<1> QED
  BY <1>2, <1>4, <1>5 DEF FillInv, RecPc

\* FilledIffComplete, for any quantities and any number of concurrent workers.
THEOREM FilledMeansComplete == Spec => []FilledIffComplete
<1>1. FillInv => FilledIffComplete
  BY DEF FillInv
<1> QED
  BY TypeCorrect, FillInit, FillNext, <1>1, PTL DEF Spec

-----------------------------------------------------------------------------
(* The orders implement OrderContract.                                     *)

LEMMA PhaseFacts ==
  ASSUME NEW s
  PROVE  /\ s \in PreBroker \cup {"absent"} => PhaseOf(s) = "before"
         /\ s \in Unsettled => PhaseOf(s) = "live"
         /\ s = "filled" => PhaseOf(s) = "complete"
         /\ s \in Terminal \ {"filled"} => PhaseOf(s) = "dead"
BY DEF PhaseOf, PreBroker, Unsettled, Terminal

\* A move along the graph by which nothing is booked, and which does not lead to
\* "filled", is a step of the contract or none.
LEMMA MovePhase ==
  ASSUME NEW s, NEW t, t # "filled",
         CanMove(s, t) \/ (s = "absent" /\ t = "intent_created")
  PROVE  \/ PhaseOf(s) = PhaseOf(t)
         \/ PhaseOf(s) = "before" /\ PhaseOf(t) \in {"live", "dead"}
         \/ PhaseOf(s) = "live" /\ PhaseOf(t) = "dead"
<1>1. s \in PreBroker \cup Unsettled \cup {"absent"}
  BY GraphFacts DEF Status
<1>2. t \in PreBroker \cup Unsettled \cup (Terminal \ {"filled"})
  BY GraphFacts DEF Status, PreBroker
<1>3. s \in Unsettled => t \notin PreBroker
  BY <1>1, GraphFacts DEF PreBroker, Unsettled, Terminal
<1> QED
  BY <1>1, <1>2, <1>3, PhaseFacts

\* ImplementsContract, for every value of the constants: each order trades only
\* between its one submission and its end, and is complete with its last unit.
THEOREM OrdersKeepContract == Spec => ImplementsContract
<1> DEFINE ph == [o \in Order |-> PhaseOf(status[o])]
<1>1. Init => Contract!Init
  BY PhaseFacts DEF Init, Contract!Init
<1>2. ASSUME TypeOK, FillInv, [Next]_vars PROVE [Contract!Next]_(Contract!contract)
  <2>0. /\ status \in [Order -> Status \cup {"absent"}]
        /\ filled \in [Order -> Nat]
    BY <1>2 DEF TypeOK, DbTypeOK
  <2>1. CASE UNCHANGED <<status, filled>>
    BY <2>1 DEF Contract!contract
  <2>2. CASE StatusMove
    <3>1. PICK o \in Order, t \in Status :
            /\ status' = [status EXCEPT ![o] = t]
            /\ \/ CanMove(status[o], t)
               \/ status[o] = "absent" /\ t = "intent_created"
            /\ t = "filled" => \E w \in Worker : /\ At(w, "rec_settle")
                                                 /\ task[w].ord = o
                                                 /\ task[w].cum = Requested[o]
            /\ UNCHANGED <<filled, fills>>
      BY <2>2, Zenon DEF StatusMove
    <3>2. filled[o] # Requested[o]
      BY <1>2, <3>1, GraphFacts DEF Terminal, FillInv, FilledIffComplete
    <3>3. t # "filled" /\ filled[o] < Requested[o]
      <4>1. t # "filled"
        BY <1>2, <3>1, <3>2 DEF FillInv, At
      <4>2. filled[o] <= Requested[o] /\ filled[o] \in Nat /\ Requested[o] \in Nat
        BY <1>2, <2>0, OrderAssumption DEF FillInv
      <4> QED
        BY <3>2, <4>1, <4>2
    <3>4. ph' = [ph EXCEPT ![o] = PhaseOf(t)]
      BY <2>0, <3>1
    <3>5. \/ ph[o] = PhaseOf(t)
          \/ ph[o] = "before" /\ PhaseOf(t) \in {"live", "dead"}
          \/ ph[o] = "live" /\ PhaseOf(t) = "dead"
      <4>1. ph[o] = PhaseOf(status[o])
        OBVIOUS
      <4> HIDE DEF ph
      <4>2. CanMove(status[o], t) \/ (status[o] = "absent" /\ t = "intent_created")
        BY <3>1
      <4> QED
        BY <3>3, <4>1, <4>2, MovePhase
    <3>6. CASE ph[o] = PhaseOf(t)
      BY <3>1, <3>4, <3>6 DEF Contract!contract
    <3>7. CASE ph[o] = "before" /\ PhaseOf(t) \in {"live", "dead"}
      <4>1. Contract!Leave(o)
        BY <3>1, <3>4, <3>7 DEF Contract!Leave
      <4> QED
        BY <4>1 DEF Contract!Next
    <3>8. CASE ph[o] = "live" /\ PhaseOf(t) = "dead"
      <4>1. Contract!End(o)
        BY <3>1, <3>3, <3>4, <3>8 DEF Contract!End
      <4> QED
        BY <4>1 DEF Contract!Next
    <3> QED
      BY <3>5, <3>6, <3>7, <3>8
  <2>3. ASSUME NEW w \in Worker, ApplyFill(w) PROVE Contract!Next
    <3> DEFINE o == task[w].ord
               total == filled[o] + (task[w].cum - task[w].local)
    <3>1. /\ o \in Order /\ status[o] \in Unsettled
          /\ total \in filled[o] + 1 .. Requested[o]
          /\ filled' = [filled EXCEPT ![o] = total]
          /\ status' = [status EXCEPT ![o] = FillStatus(o, total)]
      BY <1>2, <2>0, <2>3, FillMoves, OrderAssumption
    <3> HIDE DEF total, o
    <3>2. ph' = [ph EXCEPT ![o] = IF total = Requested[o] THEN "complete" ELSE "live"]
      <4>1. PhaseOf(FillStatus(o, total))
              = IF total = Requested[o] THEN "complete" ELSE "live"
        BY PhaseFacts DEF FillStatus, Unsettled
      <4> QED
        BY <2>0, <3>1, <4>1
    <3>3. ph[o] = "live"
      BY <3>1, PhaseFacts
    <3>4. Contract!Fill(o)
      BY <3>1, <3>2, <3>3 DEF Contract!Fill
    <3> QED
      BY <3>1, <3>4 DEF Contract!Next
  <2> QED
    BY <1>2, <2>1, <2>2, <2>3, LedgerSteps DEF vars
<1> QED
  BY <1>1, <1>2, TypeCorrect, FillInit, FillNext, PTL
     DEF Spec, ImplementsContract, Contract!Spec

-----------------------------------------------------------------------------
(* Submission: who may claim an order, and the broker's order number,      *)
(* whoever crashes and whoever else moves the order meanwhile.             *)

\* Statuses of an order that nobody has claimed for submission.
Fresh == PreBroker \cup {"absent", "expired"}

LEMMA FreshFacts ==
  ASSUME TypeOK, [Next]_vars, NEW o \in Order, status[o] \notin Fresh
  PROVE  status'[o] \notin Fresh
<1>1. status[o] \in Unsettled \cup Terminal
  BY DEF TypeOK, DbTypeOK, Status, Fresh
<1>2. CASE status'[o] = status[o]
  BY <1>2
<1>3. CASE status'[o] # status[o]
  <2>1. CanMove(status[o], status'[o])
    BY <1>3, LegalStep DEF Fresh
  <2>2. status'[o] \in Unsettled \cup (Terminal \ {"expired"})
    BY <1>1, <2>1, GraphFacts
  <2> QED
    BY <2>2 DEF Fresh, PreBroker, Unsettled, Terminal
<1> QED
  BY <1>2, <1>3

-----------------------------------------------------------------------------
(* One submission.                                                         *)

\* The attempts of a submission are made by the one worker that claimed the order,
\* and the order of a claimed submission can never be claimed again: no path of
\* the graph leads back to "approved".  Until that worker has recorded the answer
\* the order has no broker number.
SubmitPc == {"submit_call", "submit_record"}

SubmitInv ==
  /\ \A o \in Order : /\ status[o] \in Fresh => placed[o] = 0 /\ ~brokerId[o]
                      /\ placed[o] <= MaxAttempts
  /\ \A w \in Worker : At(w, "submit_call") =>
       placed[task[w].ord] <= task[w].tries /\ task[w].tries < MaxAttempts
  /\ \A w \in Worker : task[w].pc \in SubmitPc =>
       status[task[w].ord] \notin Fresh /\ ~brokerId[task[w].ord]
  /\ \A v, w \in Worker :
       /\ task[v].pc \in SubmitPc /\ task[w].pc \in SubmitPc
       /\ task[v].ord = task[w].ord
       => v = w

LEMMA SubmitInit == Init => SubmitInv
BY BoundAssumption DEF Init, SubmitInv, SubmitPc, At, IdleTask

\* Apart from the call itself, a step sends nothing to the broker, where quantities
\* only grow; a worker is in a submission only if it was, or if it has just claimed
\* the order; and only the end of a submission puts a number on record.
Quiet ==
  /\ UNCHANGED placed
  /\ \A o \in Order : bkFilled[o] <= bkFilled'[o]
  /\ \A v \in Worker : task'[v].pc \in SubmitPc =>
       task'[v] = task[v] \/ SubmitClaim(v, task'[v].ord)
  /\ \A o \in Order : brokerId'[o] # brokerId[o] =>
       \E v \in Worker : /\ task[v].pc \in SubmitPc /\ task[v].ord = o
                         /\ task'[v].pc \notin SubmitPc

LEMMA QuietSteps ==
  ASSUME TypeOK, Next
  PROVE  Quiet \/ \E w \in Worker : SubmitCall(w)
<1>0. /\ task \in [Worker -> Task] /\ IdleTask.pc \notin SubmitPc
      /\ bkFilled \in [Order -> Nat] /\ brokerId \in [Order -> BOOLEAN]
      /\ \A w \in Worker : task[w].pc # "idle" => task[w].ord \in Order
  BY DEF TypeOK, TaskTypeOK, DbTypeOK, BrokerTypeOK, IdleTask, SubmitPc
<1> DEFINE Still == UNCHANGED <<placed, bkFilled, brokerId>>
<1>a. ASSUME NEW w \in Worker, NEW t, task' = [task EXCEPT ![w] = t],
             t.pc \notin SubmitPc, Still
      PROVE  Quiet
  BY <1>a, <1>0 DEF Quiet
<1>b. ASSUME NEW w \in Worker, Finish(w), Still PROVE Quiet
  BY <1>a, <1>b, <1>0 DEF Finish
<1>c. ASSUME NEW w \in Worker, NEW o, NEW s, Transition(w, o, s)
      PROVE  \E t : task' = [task EXCEPT ![w] = t] /\ t.pc \notin SubmitPc
  <2>1. [IdleTask EXCEPT !.pc = "finalize", !.ord = o].pc \notin SubmitPc
    BY DEF IdleTask, SubmitPc
  <2> QED
    BY <1>0, <1>c, <2>1 DEF Transition, Finish
<1>d. ASSUME UNCHANGED task, Still PROVE Quiet
  BY <1>0, <1>d DEF Quiet
<1>2. ASSUME NEW o \in Order,
             \/ CreateOrder(o) \/ MarkRiskApproved(o) \/ QueueApproval(o) \/ Approve(o)
             \/ BrokerEnd(o)
      PROVE  Quiet
  BY <1>2, <1>d DEF CreateOrder, MarkRiskApproved, QueueApproval, Approve, Advance,
     BrokerEnd, broker, db
<1>e. ASSUME NEW o \in Order, BrokerFill(o) PROVE Quiet
  BY <1>0, <1>e DEF BrokerFill, db, Quiet
<1>3. ASSUME NEW w \in Worker, NEW o \in Order, Reject(w, o) \/ ExpireIfDue(w, o)
      PROVE  Quiet
  BY <1>3, <1>a, <1>c DEF Reject, ExpireIfDue, Withdraw, broker
<1>4. ASSUME NEW w \in Worker, NEW o \in Order, SubmitClaim(w, o) PROVE Quiet
  <2>1. /\ Still
        /\ task' = [task EXCEPT ![w] = [IdleTask EXCEPT !.pc = "submit_call", !.ord = o]]
    BY <1>4 DEF SubmitClaim, broker
  <2>2. task'[w].ord = o /\ \A v \in Worker \ {w} : task'[v] = task[v]
    BY <2>1, <1>0 DEF IdleTask
  <2> QED
    BY <1>4, <2>1, <2>2, <1>0 DEF Quiet
<1>5. ASSUME NEW w \in Worker, NEW o \in Order, CancelRead(w, o) \/ RecRead(w, o)
      PROVE  Quiet
  <2>1. /\ [IdleTask EXCEPT !.pc = "cancel_claim", !.ord = o, !.seen = status[o]].pc
              \notin SubmitPc
        /\ [IdleTask EXCEPT !.pc = "rec_fetch", !.ord = o, !.seen = status[o],
                            !.local = filled[o]].pc \notin SubmitPc
    BY DEF IdleTask, SubmitPc
  <2>2. CASE CancelRead(w, o)
    BY <2>1, <2>2, <1>a DEF CancelRead, broker, db
  <2>3. CASE RecRead(w, o)
    BY <2>1, <2>3, <1>a DEF RecRead, broker, db
  <2> QED
    BY <1>5, <2>2, <2>3
<1>6. ASSUME NEW w \in Worker, CancelRecord(w) PROVE Quiet
  BY <1>6, <1>a, <1>b, <1>c DEF CancelRecord, broker
<1>f. ASSUME NEW w \in Worker, SubmitRecord(w) PROVE Quiet
  <2>1. UNCHANGED <<placed, bkFilled>> /\ task[w].pc = "submit_record"
    BY <1>f DEF SubmitRecord, broker, At
  <2>2. PICK t : task' = [task EXCEPT ![w] = t] /\ t.pc \notin SubmitPc
    BY <1>0, <1>c, <1>f DEF SubmitRecord, Finish
  <2>3. \A o \in Order : brokerId'[o] # brokerId[o] => o = task[w].ord
    BY <1>0, <1>f DEF SubmitRecord
  <2> QED
    BY <1>0, <2>1, <2>2, <2>3 DEF Quiet, SubmitPc
<1>7. ASSUME NEW w \in Worker, CancelClaim(w) PROVE Quiet
  <2>1. CASE task' = [task EXCEPT ![w].pc = "cancel_call",
                                  ![w].local = filled[task[w].ord]]
    BY <1>7, <2>1, <1>0 DEF CancelClaim, Quiet, Task, broker, SubmitPc
  <2> QED
    BY <1>7, <2>1, <1>a, <1>b, <1>c DEF CancelClaim, broker
<1>8. ASSUME NEW w \in Worker, CancelCall(w) PROVE Quiet
  <2>1. PICK reply \in Reply :
          task' = [task EXCEPT ![w].pc = "cancel_record", ![w].reply = reply]
    BY <1>8 DEF CancelCall
  <2> QED
    BY <1>8, <2>1, <1>0 DEF CancelCall, Quiet, Task, SubmitPc, db
<1>9. ASSUME NEW w \in Worker, RecFetch(w) PROVE Quiet
  <2>1. ASSUME NEW a \in Answers(task[w].ord), RecFetchAnswer(w, a) PROVE Quiet
    <3>1. a.cum \in Nat /\ task[w].local \in Nat
      BY <1>0, <1>9, <2>1 DEF Answers, NotFound, Snapshots, Shown, TypeOK, BrokerTypeOK, RecFetch,
         At, TaskTypeOK, Task
    <3>2. Still /\ \A v \in Worker \ {w} : task'[v] = task[v]
      BY <2>1, <1>0 DEF RecFetchAnswer, broker, db
    <3>3. task'[w].pc \notin SubmitPc
      BY <2>1, <3>1, <1>0 DEF RecFetchAnswer, Task, SubmitPc
    <3> QED
      BY <3>2, <3>3, <1>0 DEF Quiet
  <2> QED
    BY <1>9, <2>1, <1>b DEF RecFetch, RecFetchError, broker, db
<1>10. ASSUME NEW w \in Worker, DuplicateFill(w) \/ ApplyFill(w) \/ ProtectOk(w)
       PROVE  Quiet
  <2>1. Still
    BY <1>10 DEF DuplicateFill, ApplyFill, ProtectOk, broker, db
  <2>2. task'[w].pc \notin SubmitPc /\ \A v \in Worker \ {w} : task'[v] = task[v]
    BY <1>10, <1>0 DEF DuplicateFill, ApplyFill, ProtectOk, Task, SubmitPc
  <2> QED
    BY <2>1, <2>2, <1>0 DEF Quiet
<1>11. ASSUME NEW w \in Worker,
              \/ FillRefused(w) \/ ProtectFails(w) \/ RecSettle(w)
              \/ Finalize(w) \/ RecUnknown(w)
       PROVE  Quiet
  BY <1>11, <1>a, <1>b, <1>c DEF FillRefused, ProtectFails, RecSettle, Finalize, RecUnknown,
     broker, db
<1>12. CASE Crash
  BY <1>12, <1>0 DEF Crash, Quiet, broker, db
<1> QED
  BY <1>2, <1>3, <1>4, <1>5, <1>6, <1>7, <1>8, <1>9, <1>10, <1>11, <1>12, <1>e, <1>f,
     NextCases DEF Worker

LEMMA SubmitNext == TypeOK /\ SubmitInv /\ [Next]_vars => SubmitInv'
<1> SUFFICES ASSUME TypeOK, SubmitInv, [Next]_vars PROVE SubmitInv'
  OBVIOUS
<1>0. /\ status \in [Order -> Status \cup {"absent"}]
      /\ placed \in [Order -> Nat]
      /\ task \in [Worker -> Task]
      /\ brokerId \in [Order -> BOOLEAN]
      /\ \A w \in Worker : task[w].pc \in SubmitPc => task[w].ord \in Order
  BY DEF TypeOK, DbTypeOK, BrokerTypeOK, TaskTypeOK, SubmitPc
<1>1. CASE UNCHANGED vars
  BY <1>1 DEF vars, SubmitInv, At, SubmitPc
<1>2. CASE Quiet /\ Next
  <2>1. ASSUME NEW v \in Worker, NEW o \in Order, SubmitClaim(v, o)
        PROVE  /\ status[o] \in Fresh /\ placed[o] = 0 /\ status'[o] \notin Fresh
               /\ task'[v].pc = "submit_call" /\ task'[v].tries = 0
               /\ \A x \in Worker : task[x].pc \in SubmitPc => task[x].ord # o
               /\ \A x \in Worker \ {v} : task'[x] = task[x]
    BY <1>0, <2>1 DEF SubmitClaim, Cas, SubmitInv, Fresh, PreBroker, IdleTask
\* A number comes on record for a worker that leaves its submission.
  <2>2. ASSUME NEW o \in Order, brokerId'[o] # brokerId[o]
        PROVE  /\ status[o] \notin Fresh
               /\ \A x \in Worker : task'[x].pc \in SubmitPc => task'[x].ord # o
    <3>1. PICK u \in Worker : /\ task[u].pc \in SubmitPc /\ task[u].ord = o
                              /\ task'[u].pc \notin SubmitPc
      BY <1>2, <2>2 DEF Quiet
    <3>2. status[o] \notin Fresh
      BY <3>1 DEF SubmitInv
    <3>3. ASSUME NEW x \in Worker, task'[x].pc \in SubmitPc, task'[x].ord = o PROVE FALSE
      <4>1. CASE task'[x] = task[x]
        BY <3>1, <3>3, <4>1 DEF SubmitInv
      <4>2. CASE SubmitClaim(x, o)
        BY <2>1, <3>2, <4>2
      <4> QED
        BY <1>2, <3>3, <4>1, <4>2 DEF Quiet
    <3> QED
      BY <3>2, <3>3
  <2>3. ASSUME NEW o \in Order
        PROVE  /\ status'[o] \in Fresh => placed'[o] = 0 /\ ~brokerId'[o]
               /\ placed'[o] <= MaxAttempts
    BY <1>2, <2>2, <2>3, FreshFacts DEF Quiet, SubmitInv
  <2>4. ASSUME NEW v \in Worker, task'[v].pc \in SubmitPc
        PROVE  /\ task'[v].pc = "submit_call" =>
                    placed'[task'[v].ord] <= task'[v].tries /\ task'[v].tries < MaxAttempts
               /\ status'[task'[v].ord] \notin Fresh
               /\ ~brokerId'[task'[v].ord]
    <3>0. task'[v].ord \in Order
      BY <2>4, TypeNext DEF TypeOK, TaskTypeOK, SubmitPc
    <3>1. CASE task'[v] = task[v]
      <4>1. ~brokerId[task[v].ord] /\ status[task[v].ord] \notin Fresh
        BY <2>4, <3>1 DEF SubmitInv
      <4>2. ~brokerId'[task'[v].ord] /\ status'[task'[v].ord] \notin Fresh
        BY <2>2, <2>4, <3>0, <3>1, <4>1, FreshFacts
      <4> QED
        BY <1>2, <3>1, <4>2 DEF SubmitInv, Quiet, At
    <3>2. CASE SubmitClaim(v, task'[v].ord)
      <4>1. ~brokerId[task'[v].ord]
        BY <2>1, <3>0, <3>2 DEF SubmitInv
      <4>2. ~brokerId'[task'[v].ord]
        BY <2>2, <2>4, <3>0, <4>1
      <4> QED
        BY <1>2, <2>1, <3>0, <3>2, <4>2, BoundAssumption DEF Quiet
    <3> QED
      BY <1>2, <2>4, <3>1, <3>2 DEF Quiet
  <2>5. ASSUME NEW v \in Worker, NEW w \in Worker,
               task'[v].pc \in SubmitPc, task'[w].pc \in SubmitPc,
               task'[v].ord = task'[w].ord
        PROVE  v = w
    <3>1. task'[v].ord \in Order
      BY <2>5, TypeNext DEF TypeOK, TaskTypeOK, SubmitPc
    <3>2. ASSUME NEW x \in Worker, NEW y \in Worker, x # y,
                 task'[y].pc \in SubmitPc, task'[y].ord = task'[x].ord,
                 SubmitClaim(x, task'[x].ord), task'[x].ord \in Order
          PROVE  FALSE
      BY <2>1, <3>2
    <3>3. CASE task'[v] = task[v] /\ task'[w] = task[w]
      BY <2>5, <3>3 DEF SubmitInv
    <3> QED
      BY <1>2, <2>5, <3>1, <3>2, <3>3 DEF Quiet
  <2> QED
    BY <2>3, <2>4, <2>5 DEF SubmitInv, At, SubmitPc
<1>3. ASSUME NEW w \in Worker, SubmitCall(w) PROVE SubmitInv'
  <2> DEFINE o == task[w].ord
             t == task'[w]
  <2>0. o \in Order /\ task[w] \in Task
    BY <1>0, <1>3 DEF SubmitCall, At, SubmitPc
  <2>1. /\ UNCHANGED <<status, brokerId>>
        /\ \A v \in Worker \ {w} : task'[v] = task[v]
        /\ \A p \in Order \ {o} : placed'[p] = placed[p]
    BY <1>0, <1>3, <2>0 DEF SubmitCall, db, broker
  <2>2. t.ord = o
    <3>1. \A r \in Reply : AttemptDone(task[w], r).ord = o
      BY <2>0 DEF AttemptDone, Task
    <3> QED
      BY <1>0, <1>3, <2>0, <3>1 DEF SubmitCall, Task
  <2>3. /\ placed[o] \in Nat /\ placed'[o] \in Nat /\ placed'[o] <= placed[o] + 1
        /\ t.pc = "submit_call" => t.tries = task[w].tries + 1 /\ t.tries < MaxAttempts
    <3>1. \A r \in Reply : AttemptDone(task[w], r).pc = "submit_call" =>
            /\ AttemptDone(task[w], r).tries = task[w].tries + 1
            /\ AttemptDone(task[w], r).tries < MaxAttempts
      <4> SUFFICES ASSUME NEW r \in Reply,
                          AttemptDone(task[w], r).pc = "submit_call"
                   PROVE  /\ AttemptDone(task[w], r).tries = task[w].tries + 1
                          /\ AttemptDone(task[w], r).tries < MaxAttempts
        OBVIOUS
      <4>1. r = "unknown" /\ task[w].tries + 1 < MaxAttempts
        BY <2>0 DEF AttemptDone, Task
      <4> QED
        BY <2>0, <4>1 DEF AttemptDone, Task
    <3>2. placed[o] \in Nat /\ (placed'[o] = placed[o] \/ placed'[o] = placed[o] + 1)
      BY <1>0, <1>3, <2>0 DEF SubmitCall, broker
    <3>3. \/ t = [task[w] EXCEPT !.pc = "submit_record"]
          \/ \E r \in Reply : t = AttemptDone(task[w], r)
      BY <1>0, <1>3 DEF SubmitCall
    <3>4. t.pc = "submit_call" => t.tries = task[w].tries + 1 /\ t.tries < MaxAttempts
      BY <2>0, <3>1, <3>3 DEF Task
    <3> QED
      BY <3>2, <3>4
  <2>4. /\ status[o] \notin Fresh /\ ~brokerId[o]
        /\ placed[o] <= task[w].tries /\ task[w].tries < MaxAttempts
        /\ task[w].tries \in Nat
        /\ \A v \in Worker \ {w} : task[v].pc \in SubmitPc => task[v].ord # o
    BY <1>3, <2>0 DEF SubmitCall, SubmitInv, At, Task, SubmitPc
  <2>5. placed'[o] <= MaxAttempts /\ (t.pc = "submit_call" => placed'[o] <= t.tries)
    BY <2>3, <2>4, BoundAssumption
  <2> HIDE DEF o, t
  <2>6. \A p \in Order : /\ status'[p] \in Fresh => placed'[p] = 0 /\ ~brokerId'[p]
                         /\ placed'[p] <= MaxAttempts
    BY <2>1, <2>4, <2>5 DEF SubmitInv
  <2>7. ASSUME NEW v \in Worker, task'[v].pc \in SubmitPc
        PROVE  /\ task'[v].pc = "submit_call" =>
                    placed'[task'[v].ord] <= task'[v].tries /\ task'[v].tries < MaxAttempts
               /\ status'[task'[v].ord] \notin Fresh
               /\ ~brokerId'[task'[v].ord]
    <3>1. CASE v = w
      BY <2>1, <2>2, <2>3, <2>4, <2>5, <2>7, <3>1 DEF t
    <3>2. CASE v # w
      BY <1>0, <2>1, <2>4, <2>7, <3>2 DEF SubmitInv, At
    <3> QED
      BY <3>1, <3>2
  <2>8. ASSUME NEW v \in Worker, NEW x \in Worker,
               task'[v].pc \in SubmitPc, task'[x].pc \in SubmitPc,
               task'[v].ord = task'[x].ord
        PROVE  v = x
    <3>1. \A y \in Worker \ {w} : task'[y].pc \in SubmitPc => task'[y].ord # o
      BY <2>1, <2>4
    <3>2. CASE v # w /\ x # w
      BY <2>1, <2>8, <3>2 DEF SubmitInv
    <3> QED
      BY <2>2, <2>8, <3>1, <3>2 DEF t
  <2> QED
    BY <2>6, <2>7, <2>8 DEF SubmitInv, At, SubmitPc
<1> QED
  BY <1>1, <1>2, <1>3, QuietSteps

\* OneSubmission and ExpiredNeverPlaced, for any number of workers, requests and
\* crashes: the broker sees the attempts of one place_order call at most, and none
\* of an order that has expired.
THEOREM SubmittedOnce == Spec => [](OneSubmission /\ ExpiredNeverPlaced)
<1>1. SubmitInv => OneSubmission /\ ExpiredNeverPlaced
  BY DEF SubmitInv, OneSubmission, ExpiredNeverPlaced, Fresh
<1> QED
  BY TypeCorrect, SubmitInit, SubmitNext, <1>1, PTL DEF Spec

-----------------------------------------------------------------------------
(* The broker's order number.                                              *)

\* A worker that carries an answer about the order at the broker carries it because
\* the order's number is on record: the broker is asked by that number, and the
\* number is never taken off the record.
BrokerIdInv ==
  /\ WorkingHasBrokerId
  /\ \A w \in Worker :
       /\ task[w].pc \in RecPc \ {"rec_fetch"}
            /\ (task[w].obs # "unknown" \/ task[w].cum > 0)
            => brokerId[task[w].ord]
       /\ At(w, "cancel_record") /\ task[w].reply # "unknown" => brokerId[task[w].ord]

LEMMA BrokerIdInit == Init => BrokerIdInv
BY DEF Init, BrokerIdInv, WorkingHasBrokerId, At, IdleTask, RecPc

\* Where a worker's answer comes from.
AnswerMove(v) ==
  \/ task'[v].pc \notin (RecPc \ {"rec_fetch"}) \cup {"cancel_record"}
  \/ task'[v] = task[v]
  \/ /\ task[v].pc \in RecPc \ {"rec_fetch"} /\ task'[v].pc # "cancel_record"
     /\ task'[v].ord = task[v].ord
     /\ task'[v].obs = task[v].obs /\ task'[v].cum = task[v].cum
  \/ /\ task'[v].pc # "cancel_record"
     /\ task'[v].obs # "unknown" \/ task'[v].cum > 0 => brokerId[task'[v].ord]
  \/ /\ task'[v].pc = "cancel_record"
     /\ task'[v].reply # "unknown" => brokerId[task'[v].ord]

LEMMA AnswerSteps ==
  ASSUME TypeOK, Next, NEW v \in Worker
  PROVE  AnswerMove(v)
<1> DEFINE Pcs == (RecPc \ {"rec_fetch"}) \cup {"cancel_record"}
<1>0. /\ task \in [Worker -> Task]
      /\ \A w \in Worker : task[w].pc # "idle" => task[w].ord \in Order
      /\ IdleTask.pc \notin Pcs
  BY DEF TypeOK, TaskTypeOK, RecPc, IdleTask
<1>a. ASSUME NEW w \in Worker, NEW t, task' = [task EXCEPT ![w] = t], t.pc \notin Pcs
      PROVE  AnswerMove(v)
  BY <1>a, <1>0 DEF AnswerMove
<1>b. ASSUME NEW w \in Worker, Finish(w) PROVE AnswerMove(v)
  BY <1>a, <1>b, <1>0 DEF Finish
<1>c. ASSUME NEW w \in Worker, NEW o, NEW s, Transition(w, o, s) PROVE AnswerMove(v)
  <2>1. [IdleTask EXCEPT !.pc = "finalize", !.ord = o].pc \notin Pcs
    BY DEF IdleTask, RecPc
  <2> QED
    BY <1>a, <1>b, <1>c, <2>1 DEF Transition
<1>d. ASSUME UNCHANGED task PROVE AnswerMove(v)
  BY <1>d DEF AnswerMove
<1>2. ASSUME NEW o \in Order,
             \/ CreateOrder(o) \/ MarkRiskApproved(o) \/ QueueApproval(o) \/ Approve(o)
             \/ BrokerFill(o) \/ BrokerEnd(o)
      PROVE  AnswerMove(v)
  BY <1>2, <1>d DEF CreateOrder, MarkRiskApproved, QueueApproval, Approve, Advance,
     BrokerFill, BrokerEnd
<1>3. ASSUME NEW w \in Worker, NEW o \in Order, Reject(w, o) \/ ExpireIfDue(w, o)
      PROVE  AnswerMove(v)
  BY <1>3, <1>c DEF Reject, ExpireIfDue, Withdraw
<1>4. ASSUME NEW w \in Worker, NEW o \in Order,
             SubmitClaim(w, o) \/ CancelRead(w, o) \/ RecRead(w, o)
      PROVE  AnswerMove(v)
  <2>1. /\ [IdleTask EXCEPT !.pc = "submit_call", !.ord = o].pc \notin Pcs
        /\ [IdleTask EXCEPT !.pc = "cancel_claim", !.ord = o, !.seen = status[o]].pc
              \notin Pcs
        /\ [IdleTask EXCEPT !.pc = "rec_fetch", !.ord = o, !.seen = status[o],
                            !.local = filled[o]].pc \notin Pcs
    BY DEF IdleTask, RecPc
  <2>2. CASE SubmitClaim(w, o)
    BY <2>1, <2>2, <1>a DEF SubmitClaim
  <2>3. CASE CancelRead(w, o)
    BY <2>1, <2>3, <1>a DEF CancelRead
  <2>4. CASE RecRead(w, o)
    BY <2>1, <2>4, <1>a DEF RecRead
  <2> QED
    BY <1>4, <2>2, <2>3, <2>4
<1>5. ASSUME NEW w \in Worker, SubmitCall(w) PROVE AnswerMove(v)
  <2>1. task[w] \in Task /\ task[w].pc = "submit_call"
    BY <1>5, <1>0 DEF SubmitCall, At
  <2>2. ASSUME NEW r \in Reply PROVE AttemptDone(task[w], r).pc \notin Pcs
    <3>1. AttemptDone(task[w], r).pc \in {task[w].pc, "submit_record"}
      BY <2>1 DEF AttemptDone, Task
    <3> QED
      BY <2>1, <3>1 DEF RecPc
  <2>3. [task[w] EXCEPT !.pc = "submit_record"].pc \notin Pcs
    BY <2>1 DEF RecPc, Task
  <2> QED
    BY <1>5, <2>2, <2>3, <1>a DEF SubmitCall
<1>6. ASSUME NEW w \in Worker, SubmitRecord(w) \/ CancelRecord(w) PROVE AnswerMove(v)
  BY <1>6, <1>b, <1>c DEF SubmitRecord, CancelRecord
<1>7. ASSUME NEW w \in Worker, CancelClaim(w) PROVE AnswerMove(v)
  <2>1. CASE task' = [task EXCEPT ![w].pc = "cancel_call",
                                  ![w].local = filled[task[w].ord]]
    BY <2>1, <1>0 DEF AnswerMove, RecPc, Task
  <2> QED
    BY <1>7, <2>1, <1>b, <1>c DEF CancelClaim
\* Without the number the gateway does not reach the broker.
<1>8. ASSUME NEW w \in Worker, CancelCall(w) PROVE AnswerMove(v)
  <2>1. PICK reply \in Reply :
          /\ ~brokerId[task[w].ord] => reply = "unknown"
          /\ task' = [task EXCEPT ![w].pc = "cancel_record", ![w].reply = reply]
    BY <1>8 DEF CancelCall
  <2> QED
    BY <2>1, <1>0 DEF AnswerMove, Task
\* Without the number the history cannot be searched.
<1>9. ASSUME NEW w \in Worker, RecFetch(w) PROVE AnswerMove(v)
  <2>1. ASSUME NEW a \in Answers(task[w].ord), RecFetchAnswer(w, a) PROVE AnswerMove(v)
    <3>1. a.cum \in Nat /\ (a.obs # "unknown" \/ a.cum > 0 => brokerId[task[w].ord])
      BY <1>0, <1>9, <2>1 DEF Answers, NotFound, Snapshots, Shown, TypeOK, BrokerTypeOK, RecFetch,
         At
    <3>2. /\ task[w] \in Task
          /\ \A u \in Worker \ {w} : task'[u] = task[u]
          /\ task'[w].ord = task[w].ord /\ task'[w].obs = a.obs /\ task'[w].cum = a.cum
          /\ task'[w].pc # "cancel_record"
      BY <1>0, <2>1, <3>1 DEF RecFetchAnswer, Task
    <3> QED
      BY <3>1, <3>2 DEF AnswerMove
  <2> QED
    BY <1>9, <2>1, <1>b DEF RecFetch, RecFetchError
<1>10. ASSUME NEW w \in Worker, DuplicateFill(w) \/ ApplyFill(w) \/ ProtectOk(w)
       PROVE  AnswerMove(v)
  BY <1>10, <1>0 DEF DuplicateFill, ApplyFill, ProtectOk, At, AnswerMove, RecPc, Task
<1>11. ASSUME NEW w \in Worker,
              \/ FillRefused(w) \/ ProtectFails(w) \/ RecSettle(w)
              \/ Finalize(w) \/ RecUnknown(w)
       PROVE  AnswerMove(v)
  BY <1>11, <1>b, <1>c DEF FillRefused, ProtectFails, RecSettle, Finalize, RecUnknown
<1>12. CASE Crash
  BY <1>12, <1>0 DEF Crash, AnswerMove
<1> QED
  BY <1>2, <1>3, <1>4, <1>5, <1>6, <1>7, <1>8, <1>9, <1>10, <1>11, <1>12, NextCases DEF
     Worker

Working == {"submitted", "partially_filled", "filled"}

\* Which steps write a status that says the broker works the order.
LEMMA WorkingSteps ==
  ASSUME TypeOK, Next, BrokerIdInv, NEW o \in Order
  PROVE  /\ brokerId[o] => brokerId'[o]
         /\ status'[o] \in Working /\ status'[o] # status[o] => brokerId'[o]
         /\ filled'[o] > 0 /\ filled'[o] # filled[o] => brokerId'[o]
<1> DEFINE Goal == /\ brokerId[o] => brokerId'[o]
                   /\ status'[o] \in Working /\ status'[o] # status[o] => brokerId'[o]
                   /\ filled'[o] > 0 /\ filled'[o] # filled[o] => brokerId'[o]
<1>0. /\ status \in [Order -> Status \cup {"absent"}]
      /\ brokerId \in [Order -> BOOLEAN]
      /\ task \in [Worker -> Task]
  BY DEF TypeOK, DbTypeOK, TaskTypeOK
<1>a. ASSUME NEW p, NEW t, t \notin Working, UNCHANGED <<filled, brokerId>>,
             status' = [status EXCEPT ![p] = t]
      PROVE  Goal
  BY <1>0, <1>a
<1>b. ASSUME UNCHANGED <<status, filled, brokerId>> PROVE Goal
  BY <1>b
<1>2. ASSUME NEW p \in Order,
             \/ CreateOrder(p) \/ MarkRiskApproved(p) \/ QueueApproval(p) \/ Approve(p)
      PROVE  Goal
  BY <1>2, <1>a DEF CreateOrder, MarkRiskApproved, QueueApproval, Approve, Advance, Working
<1>3. ASSUME NEW w \in Worker, NEW p \in Order,
             Reject(w, p) \/ ExpireIfDue(w, p) \/ SubmitClaim(w, p)
      PROVE  Goal
  BY <1>3, <1>a DEF Reject, ExpireIfDue, Withdraw, SubmitClaim, Transition, Working
<1>4. ASSUME NEW w \in Worker, SubmitRecord(w) PROVE Goal
  <2> DEFINE p == task[w].ord
             target == SubmitTarget(task[w].reply)
  <2>1. target \in Working => task[w].reply = "accepted"
    BY DEF SubmitTarget, Working
  <2>2. CASE /\ status' = [status EXCEPT ![p] = target]
             /\ brokerId' = [brokerId EXCEPT ![p] = @ \/ task[w].reply = "accepted"]
    BY <1>0, <1>4, <2>1, <2>2 DEF SubmitRecord
  <2>3. CASE UNCHANGED <<status, brokerId>>
    BY <1>4, <2>3, <1>b DEF SubmitRecord
  <2> QED
    BY <1>4, <2>2, <2>3 DEF SubmitRecord, Transition
<1>5. ASSUME NEW w \in Worker, CancelClaim(w) PROVE Goal
  BY <1>5, <1>a, <1>b DEF CancelClaim, Transition, Working
<1>6. ASSUME NEW w \in Worker, CancelRecord(w) PROVE Goal
  <2> DEFINE target == CancelTarget(task[w].reply, task[w].local)
  <2>1. target \in Working => brokerId[task[w].ord]
    BY <1>6 DEF CancelRecord, CancelTarget, Working, BrokerIdInv
  <2>2. CASE status' = [status EXCEPT ![task[w].ord] = target]
    BY <1>0, <1>6, <2>1, <2>2 DEF CancelRecord
  <2> QED
    BY <1>6, <2>2, <1>b DEF CancelRecord, Transition
<1>7. ASSUME NEW w \in Worker, RecUnknown(w) PROVE Goal
  BY <1>7, <1>a, <1>b DEF RecUnknown, Working
<1>8. ASSUME NEW w \in Worker, ApplyFill(w) PROVE Goal
  <2>1. /\ task[w].cum > 0 /\ task[w].pc = "rec_apply"
        /\ filled \in [Order -> Nat]
    BY <1>8, <1>0 DEF ApplyFill, FillApplies, At, Task, TypeOK, DbTypeOK
  <2>2. brokerId[task[w].ord]
    BY <2>1 DEF BrokerIdInv, RecPc
  <2> QED
    BY <1>0, <1>8, <2>1, <2>2 DEF ApplyFill
<1>9. ASSUME NEW w \in Worker, RecSettle(w) PROVE Goal
  <2> DEFINE p == task[w].ord
             wanted == TargetStatus(task[w].obs, task[w].cum, Requested[p])
             target == IF CanMove(task[w].seen, wanted) THEN wanted ELSE "broker_unknown"
  <2>0. p \in Order /\ Requested[p] \in Nat \ {0} /\ task[w].pc = "rec_settle"
        /\ task[w].cum \in Nat
    BY <1>9, OrderAssumption DEF RecSettle, At, TypeOK, TaskTypeOK, Task
  <2>1. target \in Working => task[w].obs # "unknown" \/ task[w].cum > 0
    BY <2>0 DEF TargetStatus, NoTarget, Working
  <2>2. target \in Working => brokerId[p]
    BY <2>0, <2>1 DEF BrokerIdInv, RecPc
  <2>3. CASE status' = [status EXCEPT ![p] = target]
    BY <1>0, <1>9, <2>2, <2>3 DEF RecSettle
  <2> QED
    BY <1>9, <2>3, <1>b DEF RecSettle, Transition
<1>10. ASSUME NEW p \in Order, BrokerFill(p) \/ BrokerEnd(p) PROVE Goal
  BY <1>10, <1>b DEF BrokerFill, BrokerEnd, db
<1>11. ASSUME NEW w \in Worker, NEW p \in Order, CancelRead(w, p) \/ RecRead(w, p)
       PROVE  Goal
  BY <1>11, <1>b DEF CancelRead, RecRead, db
<1>12. ASSUME NEW w \in Worker,
              \/ SubmitCall(w) \/ CancelCall(w) \/ RecFetch(w) \/ DuplicateFill(w)
              \/ FillRefused(w) \/ ProtectOk(w) \/ ProtectFails(w) \/ Finalize(w)
       PROVE  Goal
  BY <1>12, <1>b DEF SubmitCall, CancelCall, RecFetch, RecFetchAnswer, RecFetchError,
     DuplicateFill, FillRefused, ProtectOk, ProtectFails, Finalize, db
<1>13. CASE Crash
  BY <1>13, <1>b DEF Crash, db
<1> QED
  BY <1>2, <1>3, <1>4, <1>5, <1>6, <1>7, <1>8, <1>9, <1>10, <1>11, <1>12, <1>13, NextCases
     DEF Worker

LEMMA BrokerIdNext == TypeOK /\ BrokerIdInv /\ [Next]_vars => BrokerIdInv'
<1> SUFFICES ASSUME TypeOK, BrokerIdInv, [Next]_vars PROVE BrokerIdInv'
  OBVIOUS
<1>1. CASE UNCHANGED vars
  BY <1>1 DEF vars, BrokerIdInv, WorkingHasBrokerId, At
<1> SUFFICES ASSUME Next PROVE BrokerIdInv'
  BY <1>1
<1>2. WorkingHasBrokerId'
  <2>1. ASSUME NEW o \in Order, status'[o] \in Working \/ filled'[o] > 0
        PROVE  brokerId'[o]
    BY <2>1, WorkingSteps DEF BrokerIdInv, WorkingHasBrokerId, Working
  <2> QED
    BY <2>1 DEF WorkingHasBrokerId, Working
<1>3. ASSUME NEW v \in Worker
      PROVE  /\ task'[v].pc \in RecPc \ {"rec_fetch"}
                  /\ (task'[v].obs # "unknown" \/ task'[v].cum > 0)
                  => brokerId'[task'[v].ord]
             /\ task'[v].pc = "cancel_record" /\ task'[v].reply # "unknown"
                  => brokerId'[task'[v].ord]
  <2>1. CASE task'[v].pc \notin (RecPc \ {"rec_fetch"}) \cup {"cancel_record"}
    BY <2>1
  <2>2. CASE task'[v].pc \in (RecPc \ {"rec_fetch"}) \cup {"cancel_record"}
    <3>1. task'[v].ord \in Order
      BY <2>2, TypeNext DEF TypeOK, TaskTypeOK, RecPc
    <3>2. brokerId[task'[v].ord] => brokerId'[task'[v].ord]
      BY <3>1, WorkingSteps
    <3> QED
      BY <2>2, <3>2, AnswerSteps DEF AnswerMove, BrokerIdInv, At, RecPc
  <2> QED
    BY <2>1, <2>2
<1> QED
  BY <1>2, <1>3 DEF BrokerIdInv, At

\* WorkingHasBrokerId, for any number of workers and crashes: an order the ledger
\* calls working, or has booked fills of, can be queried and canceled at the broker.
THEOREM WorkingIsNumbered == Spec => []WorkingHasBrokerId
<1>1. BrokerIdInv => WorkingHasBrokerId
  BY DEF BrokerIdInv
<1> QED
  BY TypeCorrect, BrokerIdInit, BrokerIdNext, <1>1, PTL DEF Spec

-----------------------------------------------------------------------------
(* The ledger stays within the broker's executions.                        *)

\* Reconciliation cycles do not overlap: one worker at most runs them.
OneReconciler == \A v, w \in Reconciler : v = w

\* The fill a reconciler is about to book is the difference between the ledger it
\* read, which nobody else has written since, and an answer the broker's quantity
\* still reaches: the number on record keeps the order from being placed again.
BookInv ==
  /\ FilledWithinBroker
  /\ \A w \in Worker : task[w].pc \in RecPc => w \in Reconciler
  /\ \A w \in Worker : task[w].pc \in {"rec_fetch", "rec_apply"} =>
       task[w].local = filled[task[w].ord]
  /\ \A w \in Worker : At(w, "rec_apply") =>
       brokerId[task[w].ord] /\ task[w].cum <= bkFilled[task[w].ord]

LEMMA BookInit == Init => BookInv
BY DEF Init, BookInv, FilledWithinBroker, At, IdleTask, RecPc

\* Quantities at the broker shrink only when an order is placed, which has no number.
LEMMA BrokerGrows ==
  ASSUME TypeOK, SubmitInv, Next, NEW o \in Order, brokerId[o]
  PROVE  bkFilled[o] <= bkFilled'[o]
<1>1. CASE Quiet
  BY <1>1 DEF Quiet
<1>2. ASSUME NEW w \in Worker, SubmitCall(w) PROVE bkFilled[o] <= bkFilled'[o]
  <2>1. task[w].pc \in SubmitPc /\ bkFilled \in [Order -> Nat]
    BY <1>2 DEF SubmitCall, At, SubmitPc, TypeOK, BrokerTypeOK
  <2>2. task[w].ord # o
    BY <2>1 DEF SubmitInv
  <2> QED
    BY <1>2, <2>1, <2>2 DEF SubmitCall, broker
<1> QED
  BY <1>1, <1>2, QuietSteps

LEMMA BookNext ==
  ASSUME OneReconciler, TypeOK, SubmitInv, BrokerIdInv, BookInv, [Next]_vars
  PROVE  BookInv'
<1>0. /\ task \in [Worker -> Task] /\ task' \in [Worker -> Task]
      /\ filled \in [Order -> Nat] /\ filled' \in [Order -> Nat]
      /\ bkFilled \in [Order -> Nat] /\ bkFilled' \in [Order -> Nat]
      /\ \A w \in Worker : task[w].pc \in RecPc => task[w].ord \in Order
      /\ \A w \in Worker : task'[w].pc \in RecPc => task'[w].ord \in Order
  BY TypeNext DEF TypeOK, DbTypeOK, BrokerTypeOK, TaskTypeOK, RecPc
<1>1. CASE UNCHANGED vars
  BY <1>1 DEF vars, BookInv, FilledWithinBroker, At
<1> SUFFICES ASSUME Next PROVE BookInv'
  BY <1>1
<1>2. ASSUME NEW w \in Worker, ApplyFill(w)
      PROVE  /\ w \in Reconciler /\ task'[w].pc = "rec_protect"
             /\ brokerId[task[w].ord] /\ task[w].cum <= bkFilled[task[w].ord]
             /\ task[w].ord \in Order
             /\ filled' = [filled EXCEPT ![task[w].ord] = task[w].cum]
  <2>1. task[w].pc = "rec_apply" /\ task'[w].pc = "rec_protect"
    BY <1>0, <1>2 DEF ApplyFill, At, Task
  <2>2. task[w].local = filled[task[w].ord] /\ task[w].ord \in Order
    BY <1>0, <2>1 DEF BookInv, RecPc
  <2>3. filled[task[w].ord] + (task[w].cum - task[w].local) = task[w].cum
    BY <1>0, <2>2 DEF Task
  <2> QED
    BY <1>2, <2>1, <2>2, <2>3, FillMoves DEF BookInv, RecPc, At
<1>3. filled' = filled \/ \E w \in Worker : ApplyFill(w)
  BY LedgerSteps DEF StatusMove
<1>4. ASSUME NEW o \in Order PROVE filled'[o] <= bkFilled'[o]
  <2>1. CASE brokerId[o]
    <3>1. bkFilled[o] <= bkFilled'[o]
      BY <2>1, BrokerGrows
    <3>2. filled'[o] <= bkFilled[o]
      BY <1>0, <1>2, <1>3 DEF BookInv, FilledWithinBroker
    <3> QED
      BY <1>0, <3>1, <3>2
  <2>2. CASE ~brokerId[o]
    <3>1. filled[o] = 0
      BY <1>0, <2>2 DEF BrokerIdInv, WorkingHasBrokerId
    <3>2. filled'[o] = 0
      BY <1>0, <1>2, <1>3, <2>2, <3>1
    <3> QED
      BY <1>0, <3>2
  <2> QED
    BY <2>1, <2>2
<1>5. ASSUME NEW v \in Worker, task'[v].pc \in RecPc
      PROVE  /\ v \in Reconciler
             /\ task'[v].pc \in {"rec_fetch", "rec_apply"} =>
                  task'[v].local = filled'[task'[v].ord]
             /\ task'[v].pc = "rec_apply" =>
                  /\ brokerId'[task'[v].ord]
                  /\ task'[v].cum <= bkFilled'[task'[v].ord]
  <2>1. v \in Reconciler
    BY <1>5, RecSteps DEF RecMove, BookInv
  <2>2. CASE task'[v].pc \in {"rec_fetch", "rec_apply"}
    <3>1. filled' = filled
      BY <1>2, <1>3, <2>1, <2>2 DEF OneReconciler
    <3>2. task'[v].local = filled[task'[v].ord]
      BY <1>5, <2>2, RecSteps DEF RecMove, BookInv, RecPc
    <3>3. ASSUME task'[v].pc = "rec_apply"
          PROVE  brokerId[task'[v].ord] /\ task'[v].cum <= bkFilled[task'[v].ord]
      BY <1>0, <1>5, <3>3, RecSteps DEF RecMove, BookInv, At
    <3>4. ASSUME task'[v].pc = "rec_apply"
          PROVE  brokerId'[task'[v].ord] /\ task'[v].cum <= bkFilled'[task'[v].ord]
      <4>1. /\ task'[v].ord \in Order /\ task'[v].cum \in Nat
            /\ brokerId[task'[v].ord] /\ task'[v].cum <= bkFilled[task'[v].ord]
        BY <1>0, <1>5, <3>3, <3>4 DEF Task
      <4>2. bkFilled[task'[v].ord] <= bkFilled'[task'[v].ord] /\ brokerId'[task'[v].ord]
        BY <4>1, BrokerGrows, WorkingSteps
      <4> QED
        BY <1>0, <4>1, <4>2
    <3> QED
      BY <2>1, <3>1, <3>2, <3>4
  <2> QED
    BY <2>1, <2>2
<1> QED
  BY <1>4, <1>5 DEF BookInv, FilledWithinBroker, At, RecPc

\* FilledWithinBroker, for any orders and quantities, any number of submitters and
\* cancelers, retried submissions and crashes, as long as cycles do not overlap.
THEOREM BookedWasExecuted == OneReconciler => (Spec => []FilledWithinBroker)
<1> SUFFICES ASSUME OneReconciler PROVE Spec => []FilledWithinBroker
  OBVIOUS
<1>1. TypeOK /\ SubmitInv /\ BrokerIdInv /\ BookInv /\ [Next]_vars => BookInv'
  BY BookNext
<1>2. BookInv => FilledWithinBroker
  BY DEF BookInv
<1> QED
  BY TypeCorrect, SubmitInit, SubmitNext, BrokerIdInit, BrokerIdNext, BookInit, <1>1, <1>2,
     PTL DEF Spec

-----------------------------------------------------------------------------
(* The reservation of a position.                                          *)

\* The reservation is closed after the order has ended, by the worker that ended it
\* or by the reconciler that booked its last unit, in a step of its own: what either
\* carries to that step is still true there, since an end is final.
ReservationInv ==
  /\ ReservationFollowsOrder
  /\ \A w \in Worker : At(w, "finalize") => status[task[w].ord] \in Terminal
  /\ \A w \in Worker : At(w, "rec_protect") /\ task[w].seen = "filled" =>
       status[task[w].ord] = "filled"

LEMMA ReservationInit == Init => ReservationInv
BY OrderAssumption DEF Init, ReservationInv, ReservationFollowsOrder, At, IdleTask, Status, Terminal,
   PreBroker, Unsettled

\* How a worker comes to the steps that close the reservation.
CloseMove(v) ==
  /\ task'[v].pc = "finalize" =>
       task'[v] = task[v] \/ status'[task'[v].ord] \in Terminal
  /\ task'[v].pc = "rec_protect" /\ task'[v].seen = "filled" =>
       task'[v] = task[v] \/ status'[task'[v].ord] = "filled"

\* What happens to the reservation: it is made for a new buy, or closed.
ResvMove ==
  \/ UNCHANGED resv
  \/ \E o \in Buy : /\ status[o] = "absent" /\ resv' = "active"
                   /\ status' = [status EXCEPT ![o] = "intent_created"]
  \/ \E w \in Worker : /\ \/ At(w, "finalize")
                          \/ At(w, "rec_protect") /\ task[w].seen = "filled"
                       /\ resv' = FinalReservation(task[w].ord)
                       /\ UNCHANGED <<status, filled>>

LEMMA CloseSteps ==
  ASSUME TypeOK, Next
  PROVE  /\ \A v \in Worker : CloseMove(v)
         /\ ResvMove
         /\ \A o \in Buy : status[o] = "absent" /\ status'[o] # "absent" => resv' = "active"
<1> DEFINE Pcs == {"finalize", "rec_protect"}
           Opens == \A o \in Buy :
                      status[o] = "absent" /\ status'[o] # "absent" => resv' = "active"
           Goal == (\A v \in Worker : CloseMove(v)) /\ ResvMove /\ Opens
<1>0. /\ task \in [Worker -> Task]
      /\ status \in [Order -> Status \cup {"absent"}]
      /\ \A w \in Worker : task[w].pc # "idle" => task[w].ord \in Order
      /\ IdleTask.pc \notin Pcs
      /\ "absent" \notin Status
  BY DEF TypeOK, TaskTypeOK, DbTypeOK, IdleTask, Status, PreBroker, Unsettled, Terminal
<1>x. ASSUME NEW p \in Order, NEW t, status' = [status EXCEPT ![p] = t], status[p] # "absent"
      PROVE  Opens
  BY <1>0, <1>x, OrderAssumption
<1>y. ASSUME UNCHANGED status PROVE Opens
  BY <1>y
<1>z. ASSUME NEW p, NEW e, NEW t, Cas(p, e, t) PROVE status[p] # "absent"
  BY <1>z, <1>0, GraphFacts DEF Cas
<1>a. ASSUME NEW w \in Worker, NEW t, task' = [task EXCEPT ![w] = t], t.pc \notin Pcs,
             Opens, UNCHANGED resv
      PROVE  Goal
  BY <1>a, <1>0 DEF CloseMove, ResvMove
<1>b. ASSUME NEW w \in Worker, Finish(w), Opens, UNCHANGED resv PROVE Goal
  BY <1>a, <1>b, <1>0 DEF Finish
<1>c. ASSUME NEW w \in Worker, NEW p \in Order, NEW s, Transition(w, p, s),
             status[p] # "absent", UNCHANGED resv
      PROVE  Goal
  <2>1. /\ [IdleTask EXCEPT !.pc = "finalize", !.ord = p].pc = "finalize"
        /\ [IdleTask EXCEPT !.pc = "finalize", !.ord = p].ord = p
    BY DEF IdleTask
  <2>2. status' = [status EXCEPT ![p] = s] /\ Opens
    BY <1>c, <1>x DEF Transition
  <2>3. CASE s \in Terminal
    <3>1. status'[p] \in Terminal
      BY <1>0, <2>2, <2>3
    <3>2. /\ task'[w].pc = "finalize" /\ task'[w].ord = p
          /\ \A u \in Worker \ {w} : task'[u] = task[u]
      BY <1>0, <1>c, <2>1, <2>3 DEF Transition
    <3> QED
      BY <1>c, <2>2, <3>1, <3>2 DEF CloseMove, ResvMove
  <2>4. CASE s \notin Terminal
    BY <1>b, <1>c, <2>2, <2>4 DEF Transition
  <2> QED
    BY <2>3, <2>4
<1>d. ASSUME UNCHANGED <<task, resv>>, Opens PROVE Goal
  BY <1>d DEF CloseMove, ResvMove
<1>1. ASSUME NEW o \in Order, CreateOrder(o) PROVE Goal
  <2>1. CASE o \in Buy
    BY <1>0, <1>1, <2>1, OrderAssumption DEF CreateOrder, CloseMove, ResvMove
  <2>2. CASE o \notin Buy
    <3>1. Opens
      BY <1>0, <1>1, <2>2, OrderAssumption DEF CreateOrder
    <3> QED
      BY <1>1, <1>d, <2>2, <3>1 DEF CreateOrder
  <2> QED
    BY <2>1, <2>2
<1>2. ASSUME NEW o \in Order, MarkRiskApproved(o) \/ QueueApproval(o) \/ Approve(o)
      PROVE  Goal
  BY <1>2, <1>d, <1>x, <1>z DEF MarkRiskApproved, QueueApproval, Approve, Advance
<1>3. ASSUME NEW o \in Order, BrokerFill(o) \/ BrokerEnd(o) PROVE Goal
  BY <1>3, <1>d, <1>y DEF BrokerFill, BrokerEnd, db
<1>4. ASSUME NEW w \in Worker, NEW o \in Order, Reject(w, o) \/ ExpireIfDue(w, o)
      PROVE  Goal
  BY <1>4, <1>c, <1>z DEF Reject, ExpireIfDue, Withdraw
<1>5. ASSUME NEW w \in Worker, NEW o \in Order,
             SubmitClaim(w, o) \/ CancelRead(w, o) \/ RecRead(w, o)
      PROVE  Goal
  <2>1. /\ [IdleTask EXCEPT !.pc = "submit_call", !.ord = o].pc \notin Pcs
        /\ [IdleTask EXCEPT !.pc = "cancel_claim", !.ord = o, !.seen = status[o]].pc
              \notin Pcs
        /\ [IdleTask EXCEPT !.pc = "rec_fetch", !.ord = o, !.seen = status[o],
                            !.local = filled[o]].pc \notin Pcs
    BY DEF IdleTask
  <2>2. CASE SubmitClaim(w, o)
    BY <2>1, <2>2, <1>a, <1>x, <1>z DEF SubmitClaim
  <2>3. CASE CancelRead(w, o)
    BY <2>1, <2>3, <1>a, <1>y DEF CancelRead, db
  <2>4. CASE RecRead(w, o)
    BY <2>1, <2>4, <1>a, <1>y DEF RecRead, db
  <2> QED
    BY <1>5, <2>2, <2>3, <2>4
<1>6. ASSUME NEW w \in Worker, SubmitCall(w) PROVE Goal
  <2>1. task[w] \in Task /\ task[w].pc = "submit_call" /\ UNCHANGED <<status, resv>>
    BY <1>6, <1>0 DEF SubmitCall, At, db
  <2>2. ASSUME NEW r \in Reply PROVE AttemptDone(task[w], r).pc \notin Pcs
    <3>1. AttemptDone(task[w], r).pc \in {task[w].pc, "submit_record"}
      BY <2>1 DEF AttemptDone, Task
    <3> QED
      BY <2>1, <3>1
  <2>3. [task[w] EXCEPT !.pc = "submit_record"].pc \notin Pcs
    BY <2>1 DEF Task
  <2> QED
    BY <1>6, <2>1, <2>2, <2>3, <1>a, <1>y DEF SubmitCall
<1>7. ASSUME NEW w \in Worker, SubmitRecord(w) \/ CancelRecord(w) PROVE Goal
  <2>1. task[w].ord \in Order /\ UNCHANGED resv
    BY <1>7, <1>0 DEF SubmitRecord, CancelRecord, At
  <2> QED
    BY <1>7, <2>1, <1>b, <1>c, <1>y, <1>z DEF SubmitRecord, CancelRecord
<1>8. ASSUME NEW w \in Worker, CancelClaim(w) PROVE Goal
  <2> DEFINE o == task[w].ord
  <2>1. o \in Order /\ UNCHANGED resv
    BY <1>8, <1>0 DEF CancelClaim, At
  <2>2. CASE /\ Cas(o, task[w].seen, "cancel_pending")
             /\ status' = [status EXCEPT ![o] = "cancel_pending"]
             /\ task' = [task EXCEPT ![w].pc = "cancel_call", ![w].local = filled[o]]
    <3>1. Opens
      BY <2>1, <2>2, <1>x, <1>z
    <3>2. task'[w].pc \notin Pcs /\ \A u \in Worker \ {w} : task'[u] = task[u]
      BY <2>2, <1>0 DEF Task
    <3> QED
      BY <2>1, <3>1, <3>2 DEF CloseMove, ResvMove
  <2> QED
    BY <1>8, <2>1, <2>2, <1>b, <1>c, <1>y, <1>z DEF CancelClaim
<1>9. ASSUME NEW w \in Worker, CancelCall(w) PROVE Goal
  <2>1. task'[w].pc = "cancel_record" /\ \A u \in Worker \ {w} : task'[u] = task[u]
    BY <1>9, <1>0 DEF CancelCall, Task
  <2> QED
    BY <1>9, <2>1, <1>y DEF CancelCall, CloseMove, ResvMove, db
<1>10. ASSUME NEW w \in Worker, RecFetch(w) PROVE Goal
  <2>1. ASSUME NEW a \in Answers(task[w].ord), RecFetchAnswer(w, a) PROVE Goal
    <3>1. a.cum \in Nat /\ task[w].local \in Nat
      BY <1>0, <1>10, <2>1 DEF Answers, NotFound, Snapshots, Shown, TypeOK, BrokerTypeOK, RecFetch,
         At, TaskTypeOK, Task
    <3>2. task'[w].pc \notin Pcs /\ \A u \in Worker \ {w} : task'[u] = task[u]
      BY <2>1, <3>1, <1>0 DEF RecFetchAnswer, Task
    <3> QED
      BY <2>1, <3>2, <1>y DEF RecFetchAnswer, CloseMove, ResvMove, db
  <2> QED
    BY <1>10, <2>1, <1>b, <1>y DEF RecFetch, RecFetchError, db
<1>11. ASSUME NEW w \in Worker, RecUnknown(w) PROVE Goal
  <2>1. task[w].ord \in Order /\ UNCHANGED resv
    BY <1>11, <1>0 DEF RecUnknown, At
  <2> QED
    BY <1>11, <2>1, <1>b, <1>x, <1>y, <1>z DEF RecUnknown
<1>12. ASSUME NEW w \in Worker, DuplicateFill(w) PROVE Goal
  <2>1. /\ task'[w].ord = task[w].ord /\ task'[w].seen = status[task[w].ord]
        /\ task'[w].pc = "rec_protect" /\ UNCHANGED <<status, resv>>
        /\ \A u \in Worker \ {w} : task'[u] = task[u]
    BY <1>12, <1>0 DEF DuplicateFill, Task, db
  <2> QED
    BY <2>1, <1>y DEF CloseMove, ResvMove
<1>13. ASSUME NEW w \in Worker, ApplyFill(w) PROVE Goal
  <2> DEFINE o == task[w].ord
             fs == FillStatus(o, filled[o] + (task[w].cum - task[w].local))
  <2>1. /\ o \in Order /\ status[o] # "absent" /\ UNCHANGED resv
        /\ status' = [status EXCEPT ![o] = fs]
    BY <1>13, FillMoves DEF ApplyFill, Unsettled
  <2>2. /\ task'[w].ord = o /\ task'[w].seen = fs /\ task'[w].pc = "rec_protect"
        /\ \A u \in Worker \ {w} : task'[u] = task[u]
    BY <1>13, <1>0 DEF ApplyFill, Task
  <2> HIDE DEF fs, o
  <2>3. status'[o] = fs
    BY <1>0, <2>1
  <2>4. Opens
    BY <2>1, <1>x
  <2> QED
    BY <2>1, <2>2, <2>3, <2>4 DEF CloseMove, ResvMove
<1>14. ASSUME NEW w \in Worker, ProtectOk(w) PROVE Goal
  <2>1. /\ task'[w].pc = "rec_settle" /\ \A u \in Worker \ {w} : task'[u] = task[u]
        /\ UNCHANGED <<status, filled>> /\ At(w, "rec_protect")
    BY <1>14, <1>0 DEF ProtectOk, Task
  <2> QED
    BY <1>14, <2>1, <1>y DEF ProtectOk, CloseMove, ResvMove
<1>15. ASSUME NEW w \in Worker, FillRefused(w) \/ ProtectFails(w) PROVE Goal
  BY <1>15, <1>b, <1>y DEF FillRefused, ProtectFails, db
<1>16. ASSUME NEW w \in Worker, RecSettle(w) PROVE Goal
  <2>1. task[w].ord \in Order /\ UNCHANGED resv
    BY <1>16, <1>0 DEF RecSettle, At
  <2> QED
    BY <1>16, <2>1, <1>b, <1>c, <1>y, <1>z DEF RecSettle
<1>17. ASSUME NEW w \in Worker, Finalize(w) PROVE Goal
  <2>1. /\ IdleTask = task'[w] /\ \A u \in Worker \ {w} : task'[u] = task[u]
        /\ UNCHANGED <<status, filled>>
    BY <1>17, <1>0 DEF Finalize, Finish
  <2> QED
    BY <1>17, <2>1, <1>0, <1>y DEF Finalize, CloseMove, ResvMove
<1>18. CASE Crash
  BY <1>18, <1>0, <1>y DEF Crash, CloseMove, ResvMove, db
<1> QED
  BY <1>1, <1>2, <1>3, <1>4, <1>5, <1>6, <1>7, <1>8, <1>9, <1>10, <1>11, <1>12, <1>13,
     <1>14, <1>15, <1>16, <1>17, <1>18, NextCases DEF Worker

LEMMA ReservationNext ==
  ASSUME TypeOK, FillInv, ReservationInv, [Next]_vars
  PROVE  ReservationInv'
<1>0. /\ status \in [Order -> Status \cup {"absent"}]
      /\ filled \in [Order -> Nat]
      /\ task \in [Worker -> Task] /\ task' \in [Worker -> Task]
      /\ \A w \in Worker : task[w].pc # "idle" => task[w].ord \in Order
      /\ \A w \in Worker : task'[w].pc # "idle" => task'[w].ord \in Order
  BY TypeNext DEF TypeOK, DbTypeOK, TaskTypeOK
<1>1. CASE UNCHANGED vars
  BY <1>1 DEF vars, ReservationInv, ReservationFollowsOrder, At
<1> SUFFICES ASSUME Next PROVE ReservationInv'
  BY <1>1
<1>2. ASSUME NEW o \in Order, status[o] \in Terminal
      PROVE  status'[o] = status[o] /\ filled'[o] = filled[o]
  <2>1. status'[o] = status[o]
    BY <1>2, LegalStep, GraphFacts DEF Terminal
  <2>2. filled'[o] = filled[o] \/ status[o] \in Unsettled
    BY <1>0, LedgerSteps, FillMoves DEF StatusMove
  <2> QED
    BY <1>2, <2>1, <2>2 DEF Unsettled, Terminal
<1>3. ReservationFollowsOrder'
  <2>1. CASE UNCHANGED resv
    <3>1. ASSUME resv = "none", NEW o \in Buy PROVE status'[o] = "absent"
      <4>1. status[o] = "absent"
        BY <3>1 DEF ReservationInv, ReservationFollowsOrder
      <4> QED
        BY <2>1, <3>1, <4>1, CloseSteps
    <3>2. resv = "expired" => \E o \in Order : status'[o] = "expired"
      BY <1>2 DEF ReservationInv, ReservationFollowsOrder, Terminal
    <3>3. /\ resv = "released" => \E o \in Order : status'[o] \in Terminal /\ filled'[o] = 0
          /\ resv = "consumed" => \E o \in Order : status'[o] \in Terminal /\ filled'[o] > 0
      BY <1>2 DEF ReservationInv, ReservationFollowsOrder
    <3> QED
      BY <2>1, <3>1, <3>2, <3>3 DEF ReservationFollowsOrder
  <2>2. CASE resv' = "active"
    BY <2>2 DEF ReservationFollowsOrder
  <2>3. ASSUME NEW w \in Worker,
               At(w, "finalize") \/ (At(w, "rec_protect") /\ task[w].seen = "filled"),
               resv' = FinalReservation(task[w].ord), resv = "active",
               UNCHANGED <<status, filled>>
        PROVE  ReservationFollowsOrder'
    <3> DEFINE o == task[w].ord
    <3>1. o \in Order /\ status[o] \in Terminal /\ filled[o] \in Nat
      BY <1>0, <2>3 DEF ReservationInv, At, Terminal
    <3>2. status[o] = "filled" => filled[o] > 0
      BY <1>0, <3>1, OrderAssumption DEF FillInv, FilledIffComplete
    <3>3. \/ resv' = "expired" /\ status[o] = "expired"
          \/ resv' = "released" /\ filled[o] = 0
          \/ resv' = "consumed" /\ filled[o] > 0
      BY <2>3, <3>1, <3>2 DEF FinalReservation
    <3> QED
      BY <2>3, <3>1, <3>3 DEF ReservationFollowsOrder
  <2>4. ASSUME NEW w \in Worker, resv' = FinalReservation(task[w].ord), resv # "active"
        PROVE  UNCHANGED resv
    BY <2>4 DEF FinalReservation
  <2> QED
    BY <2>1, <2>2, <2>3, <2>4, CloseSteps DEF ResvMove, Worker
<1>4. ASSUME NEW v \in Worker
      PROVE  /\ task'[v].pc = "finalize" => status'[task'[v].ord] \in Terminal
             /\ task'[v].pc = "rec_protect" /\ task'[v].seen = "filled" =>
                  status'[task'[v].ord] = "filled"
  <2>1. task'[v].pc = "finalize" => status'[task'[v].ord] \in Terminal
    BY <1>0, <1>2, CloseSteps DEF CloseMove, ReservationInv, At
  <2>2. task'[v].pc = "rec_protect" /\ task'[v].seen = "filled" =>
          status'[task'[v].ord] = "filled"
    BY <1>0, <1>2, CloseSteps DEF CloseMove, ReservationInv, At, Terminal
  <2> QED
    BY <2>1, <2>2
<1> QED
  BY <1>3, <1>4 DEF ReservationInv, At

\* ReservationFollowsOrder for positions with any number of orders, sells and further
\* buys included, and any number of overlapping workers and crashes: the budget is
\* closed only by the end of an order, as that order ended.
THEOREM BudgetFollowsOrder == Spec => []ReservationFollowsOrder
<1>1. ReservationInv => ReservationFollowsOrder
  BY DEF ReservationInv
<1> QED
  BY TypeCorrect, FillInit, FillNext, ReservationInit, ReservationNext, <1>1, PTL DEF Spec

-----------------------------------------------------------------------------
(* Totals.  A total is the number of the units that are added up, so what  *)
(* there is to know of it follows from the cardinalities of their sets.    *)

\* The units of one quantity.
LEMMA UnitsOfOne ==
  ASSUME NEW n \in Nat, NEW x
  PROVE  IsFiniteSet({x} \X (1 .. n)) /\ Cardinality({x} \X (1 .. n)) = n
  <1>1. IsFiniteSet(1 .. n) /\ Cardinality(1 .. n) = n
    BY FS_Interval
  <1>2. IsFiniteSet({x}) /\ Cardinality({x}) = 1
    BY FS_Singleton
  <1>3. Cardinality({x}) * Cardinality(1 .. n) = n
    BY <1>1, <1>2
  <1> QED BY <1>1, <1>2, <1>3, FS_Product

LEMMA TotalType ==
  ASSUME NEW S, IsFiniteSet(S), NEW f, \A x \in S : f[x] \in Nat
  PROVE  IsFiniteSet(Units(f, S)) /\ Total(f, S) \in Nat
  <1> DEFINE Blocks == {{x} \X (1 .. f[x]) : x \in S}
             b == [x \in S |-> {x} \X (1 .. f[x])]
  <1>1. b \in Surjection(S, Blocks)
    BY DEF Surjection
  <1>2. \A B \in Blocks : IsFiniteSet(B)
    BY UnitsOfOne
  <1> HIDE DEF Blocks, b
  <1>3. IsFiniteSet(Blocks)
    BY <1>1, FS_Surjection
  <1>4. IsFiniteSet(UNION Blocks)
    BY <1>2, <1>3, FS_UNION
  <1> QED BY <1>4, FS_CardinalityType DEF Units, Total, Blocks

\* A total is any of its quantities and the rest.
LEMMA TotalSplit ==
  ASSUME NEW S, IsFiniteSet(S), NEW f, \A x \in S : f[x] \in Nat, NEW y \in S
  PROVE  Total(f, S) = f[y] + Total(f, S \ {y})
  <1> DEFINE One == {y} \X (1 .. f[y])
  <1>1. Units(f, S) = One \cup Units(f, S \ {y}) /\ One \cap Units(f, S \ {y}) = {}
    BY DEF Units
  <1>2. IsFiniteSet(One) /\ Cardinality(One) = f[y] /\ f[y] \in Nat
    BY UnitsOfOne
  <1>3. IsFiniteSet(S \ {y})
    BY FS_Subset
  <1>4. IsFiniteSet(Units(f, S \ {y})) /\ Total(f, S \ {y}) \in Nat
    BY <1>3, TotalType
  <1> HIDE DEF One
  <1>5. Cardinality(One \cap Units(f, S \ {y})) = 0
    BY <1>1, FS_EmptySet
  <1>6. Cardinality(One \cup Units(f, S \ {y}))
          = Cardinality(One) + Cardinality(Units(f, S \ {y})) - Cardinality(One \cap Units(f, S \ {y}))
    BY <1>2, <1>4, FS_Union
  <1>7. Total(f, S) = Cardinality(One \cup Units(f, S \ {y})) /\ Total(f, S \ {y}) = Cardinality(Units(f, S \ {y}))
    BY <1>1 DEF Total
  <1> QED BY <1>2, <1>4, <1>5, <1>6, <1>7

LEMMA TotalSame ==
  ASSUME NEW S, NEW f, NEW g, \A x \in S : f[x] = g[x]
  PROVE  Total(f, S) = Total(g, S)
  <1>1. Units(f, S) = Units(g, S)
    BY DEF Units
  <1> QED BY <1>1 DEF Total

LEMMA TotalZero ==
  ASSUME NEW S, NEW f, \A x \in S : f[x] = 0
  PROVE  Total(f, S) = 0
  <1>1. Units(f, S) = {}
    BY DEF Units
  <1> QED BY <1>1, FS_EmptySet DEF Total

\* Where two functions differ in one place, so do their totals.
LEMMA TotalUpdate ==
  ASSUME NEW S, IsFiniteSet(S), NEW f, NEW g, NEW y \in S,
         \A x \in S : f[x] \in Nat /\ g[x] \in Nat,
         \A x \in S : x # y => f[x] = g[x]
  PROVE  Total(g, S) + f[y] = Total(f, S) + g[y]
  <1>1. Total(f, S) = f[y] + Total(f, S \ {y}) /\ Total(g, S) = g[y] + Total(g, S \ {y})
    BY TotalSplit
  <1>2. Total(f, S \ {y}) = Total(g, S \ {y})
    BY TotalSame
  <1>3. IsFiniteSet(S \ {y})
    BY FS_Subset
  <1>4. Total(f, S \ {y}) \in Nat
    BY <1>3, TotalType
  <1> QED BY <1>1, <1>2, <1>4

LEMMA TotalAdd ==
  ASSUME NEW S, IsFiniteSet(S), NEW f, NEW y, y \notin S,
         \A x \in S \cup {y} : f[x] \in Nat
  PROVE  Total(f, S \cup {y}) = f[y] + Total(f, S)
  <1>1. IsFiniteSet(S \cup {y}) /\ (S \cup {y}) \ {y} = S
    BY FS_AddElement
  <1> QED BY <1>1, TotalSplit

-----------------------------------------------------------------------------
(* The ledger's three places: order, fill rows, position.                  *)

LEMMA HeldSteps ==
  ASSUME TypeOK, Next
  PROVE  UNCHANGED <<filled, fills, held>> \/ \E w \in Reconciler : ApplyFill(w)
<1> DEFINE Goal == UNCHANGED <<filled, fills, held>> \/ \E w \in Reconciler : ApplyFill(w)
<1>1. ASSUME NEW o \in Order, OrderStep(o) PROVE Goal
  BY <1>1 DEF OrderStep, CreateOrder, MarkRiskApproved, QueueApproval, Approve, Advance,
    BrokerFill, BrokerEnd, db
<1>2. ASSUME NEW w \in Executor, ExecutorStep(w) PROVE Goal
  BY <1>2 DEF ExecutorStep, Reject, ExpireIfDue, Withdraw, SubmitClaim, SubmitCall,
    SubmitRecord, db
<1>3. ASSUME NEW w \in Canceler, CancelerStep(w) PROVE Goal
  BY <1>3 DEF CancelerStep, CancelRead, CancelClaim, CancelCall, CancelRecord, db
<1>4. ASSUME NEW w \in Reconciler, ReconcilerStep(w) PROVE Goal
  BY <1>4 DEF ReconcilerStep, RecRead, RecFetch, RecFetchAnswer, RecFetchError, RecUnknown,
    DuplicateFill, FillRefused, ProtectOk, ProtectFails, RecSettle, db
<1>5. ASSUME NEW w \in Worker, Finalize(w) PROVE Goal
  BY <1>5 DEF Finalize
<1>6. CASE Crash
  BY <1>6 DEF Crash, db
<1> QED BY <1>1, <1>2, <1>3, <1>4, <1>5, <1>6 DEF Next

LedgerInv == IsFiniteSet(fills) /\ LedgerAgrees

LEMMA LedgerInit == Init => LedgerInv
<1> SUFFICES ASSUME Init PROVE LedgerInv
  OBVIOUS
<1>1. IsFiniteSet(fills) /\ \A o \in Order : {f \in fills : f.order = o} = {}
  BY FS_EmptySet DEF Init
<1>2. \A o \in Order : Total([f \in fills |-> f.qty], {f \in fills : f.order = o}) = 0
  BY <1>1, FS_EmptySet, TotalZero
<1>3. IsFiniteSet(Buy) /\ IsFiniteSet(Order \ Buy)
  BY FS_Subset, OrderAssumption
<1>4. \A o \in Order : filled[o] = 0
  BY DEF Init
<1>5. Total(filled, Buy) = 0 /\ Total(filled, Order \ Buy) = 0
  BY <1>3, <1>4, TotalZero, OrderAssumption
<1> QED BY <1>1, <1>2, <1>4, <1>5 DEF Init, LedgerInv, LedgerAgrees

\* A new fill row adds its quantity to the rows of its order and to no others.
LEMMA RowAdded ==
  ASSUME TypeOK, LedgerInv, NEW r \in [order : Order, key : Nat, qty : Nat],
         r \notin fills, fills' = fills \cup {r}, NEW o \in Order
  PROVE  Total([f \in fills' |-> f.qty], {f \in fills' : f.order = o})
           = filled[o] + (IF r.order = o THEN r.qty ELSE 0)
<1> DEFINE G == fills \cup {r}
           S == {f \in fills : f.order = o}
           p == [f \in fills |-> f.qty]
           q == [f \in G |-> f.qty]
<1>0. /\ fills \subseteq [order : Order, key : Nat, qty : Nat]
      /\ filled[o] \in Nat
  BY DEF TypeOK, DbTypeOK
<1>1. IsFiniteSet(S)
  BY FS_Subset DEF LedgerInv
<1>2. \A f \in S : p[f] \in Nat /\ p[f] = q[f]
  BY <1>0
<1>3. q[r] = r.qty /\ r.qty \in Nat /\ r \notin S
  OBVIOUS
<1>4. {f \in G : f.order = o} = IF r.order = o THEN S \cup {r} ELSE S
  OBVIOUS
<1>5. filled[o] = Total(p, S)
  BY DEF LedgerInv, LedgerAgrees
<1> HIDE DEF p, q, S, G
<1>6. Total(p, S) = Total(q, S)
  BY <1>1, <1>2, TotalSame
<1>7. Total(q, S \cup {r}) = q[r] + Total(q, S)
  BY <1>1, <1>2, <1>3, TotalAdd
<1>8. Total(q, {f \in G : f.order = o})
        = filled[o] + (IF r.order = o THEN r.qty ELSE 0)
  <2>1. CASE r.order = o
    <3>1. {f \in G : f.order = o} = S \cup {r}
      BY <1>4, <2>1
    <3>2. Total(q, S \cup {r}) = filled[o] + r.qty
      BY <1>0, <1>3, <1>5, <1>6, <1>7
    <3> QED BY <2>1, <3>1, <3>2
  <2>2. CASE r.order # o
    <3>1. {f \in G : f.order = o} = S
      BY <1>4, <2>2
    <3>2. Total(q, S) = filled[o]
      BY <1>5, <1>6
    <3>3. filled[o] + 0 = filled[o]
      BY <1>0
    <3> QED BY <2>2, <3>1, <3>2, <3>3
  <2> QED BY <2>1, <2>2
<1> QED BY <1>8 DEF q, G

\* Booking d on an order adds d to the sum over its side of the position.
LEMMA BookedSum ==
  ASSUME NEW S \in SUBSET Order, NEW f, NEW g, NEW o \in Order, NEW d \in Nat,
         \A x \in Order : f[x] \in Nat /\ g[x] \in Nat,
         \A x \in Order : x # o => f[x] = g[x], g[o] = f[o] + d
  PROVE  /\ Total(f, S) \in Nat
         /\ Total(g, S)
              = IF o \in S THEN Total(f, S) + d ELSE Total(f, S)
<1>1. IsFiniteSet(S)
  BY FS_Subset, OrderAssumption
<1>2. /\ \A x \in S : f[x] \in Nat /\ g[x] \in Nat
      /\ \A x \in S : x # o => f[x] = g[x]
  OBVIOUS
<1>3. Total(f, S) \in Nat /\ Total(g, S) \in Nat
  BY <1>1, <1>2, TotalType
<1>4. CASE o \in S
  <2>1. Total(g, S) + f[o] = Total(f, S) + g[o]
    BY <1>1, <1>2, <1>4, TotalUpdate
  <2> QED BY <1>3, <1>4, <2>1
<1>5. CASE o \notin S
  <2>1. \A x \in S : f[x] \in Nat /\ f[x] = g[x]
    BY <1>2, <1>5
  <2>2. Total(f, S) = Total(g, S)
    BY <1>1, <2>1, TotalSame
  <2> QED BY <1>3, <1>5, <2>2
<1> QED BY <1>4, <1>5

LEMMA LedgerNext == TypeOK /\ LedgerInv /\ [Next]_vars => LedgerInv'
<1> SUFFICES ASSUME TypeOK, LedgerInv, [Next]_vars PROVE LedgerInv'
  OBVIOUS
<1>1. CASE UNCHANGED <<filled, fills, held>>
  BY <1>1 DEF LedgerInv, LedgerAgrees
<1>2. ASSUME NEW w \in Reconciler, ApplyFill(w) PROVE LedgerInv'
  <2> DEFINE o == task[w].ord
             d == task[w].cum - task[w].local
             r == [order |-> o, key |-> task[w].cum, qty |-> d]
  <2>0. w \in Worker
    BY DEF Worker
  <2>1. /\ o \in Order /\ d \in Nat /\ task[w].cum \in Nat
        /\ o \in Buy \/ d <= held
    <3>1. task[w].cum \in Nat /\ task[w].local \in Nat /\ o \in Order
      BY <1>2, <2>0 DEF ApplyFill, At, TypeOK, TaskTypeOK, Task
    <3>2. d > 0 /\ (o \in Buy \/ d <= held)
      BY <1>2 DEF ApplyFill, FillApplies
    <3> QED BY <3>1, <3>2
  <2>2. /\ filled' = [filled EXCEPT ![o] = filled[o] + d]
        /\ fills' = fills \cup {r}
        /\ held' = IF o \in Buy THEN held + d ELSE held - d
    BY <1>2 DEF ApplyFill, HeldAfter
  <2>3. r \notin fills /\ r \in [order : Order, key : Nat, qty : Nat]
    BY <1>2, <2>1 DEF ApplyFill, FillApplies, FillOf
  <2>4. /\ filled \in [Order -> Nat] /\ held \in Nat
        /\ fills \subseteq [order : Order, key : Nat, qty : Nat]
    BY DEF TypeOK, DbTypeOK
  <2>5. IsFiniteSet(fills')
    BY <2>2, FS_AddElement DEF LedgerInv
  <2>6. ASSUME NEW q \in Order
        PROVE  filled'[q] = Total([f \in fills' |-> f.qty],
                                             {f \in fills' : f.order = q})
    <3>1. Total([f \in fills' |-> f.qty], {f \in fills' : f.order = q})
            = filled[q] + (IF r.order = q THEN r.qty ELSE 0)
      <4> HIDE DEF r
      <4> QED BY <2>2, <2>3, RowAdded
    <3>2. r.order = o /\ r.qty = d
      OBVIOUS
    <3>3. filled'[q] = (IF o = q THEN filled[q] + d ELSE filled[q]) /\ filled[q] \in Nat
      BY <2>2, <2>4
    <3> HIDE DEF r, d
    <3> QED BY <2>1, <3>1, <3>2, <3>3
  <2>7. held' + Total(filled', Order \ Buy) = Total(filled', Buy)
    <3> DEFINE g == [filled EXCEPT ![o] = filled[o] + d]
    <3>1. ASSUME NEW S \in SUBSET Order
          PROVE  /\ Total(filled, S) \in Nat
                 /\ Total(g, S)
                      = IF o \in S THEN Total(filled, S) + d
                                   ELSE Total(filled, S)
      <4>1. /\ \A x \in Order : filled[x] \in Nat /\ g[x] \in Nat
            /\ \A x \in Order : x # o => filled[x] = g[x]
            /\ g[o] = filled[o] + d
        BY <2>1, <2>4
      <4> HIDE DEF g, o, d
      <4> QED BY <2>1, <4>1, BookedSum
    <3>2. held + Total(filled, Order \ Buy) = Total(filled, Buy)
      BY DEF LedgerInv, LedgerAgrees
    <3>3. Buy \in SUBSET Order /\ Order \ Buy \in SUBSET Order
      BY OrderAssumption
    <3> DEFINE sold == Total(filled, Order \ Buy)
               bought == Total(filled, Buy)
               soldNow == Total(g, Order \ Buy)
               boughtNow == Total(g, Buy)
    <3>4. sold \in Nat /\ bought \in Nat
      BY <3>1, <3>3
    <3>5. /\ soldNow = IF o \in Order \ Buy THEN sold + d ELSE sold
          /\ boughtNow = IF o \in Buy THEN bought + d ELSE bought
      BY <3>1, <3>3
    <3> HIDE DEF sold, bought, soldNow, boughtNow, o, d, g
    <3>6. held' + soldNow = boughtNow
      <4>1. held + sold = bought
        BY <3>2 DEF sold, bought
      <4>2. CASE o \in Buy
        BY <2>1, <2>2, <2>4, <3>4, <3>5, <4>1, <4>2
      <4>3. CASE o \notin Buy
        BY <2>1, <2>2, <2>4, <3>4, <3>5, <4>1, <4>3
      <4> QED BY <4>2, <4>3
    <3> QED BY <2>2, <3>6 DEF soldNow, boughtNow, g
  <2> QED BY <2>5, <2>6, <2>7 DEF LedgerInv, LedgerAgrees
<1> QED BY <1>1, <1>2, HeldSteps DEF vars

\* An order's cumulative quantity is the sum of its fill rows, and the position holds
\* what was bought less what was sold, however many reconcilers book fills at once: the
\* fill key and the three writes of a fill are one transaction.
THEOREM LedgerStaysInAgreement == Spec => []LedgerAgrees
<1>1. LedgerInv => LedgerAgrees
  BY DEF LedgerInv
<1> QED BY <1>1, TypeInit, TypeNext, LedgerInit, LedgerNext, PTL DEF Spec
=============================================================================
