------------------------- MODULE ApprovalQueueProof -------------------------
(***************************************************************************)
(* Theorems about ApprovalQueue.                                           *)
(***************************************************************************)
EXTENDS ApprovalQueue, FiniteSetTheorems, TLAPS

USE DEF At

-----------------------------------------------------------------------------
(* Type correctness.                                                       *)

LEMMA AllowedIsBoolean ==
  ASSUME NEW a, NEW S PROVE Allowed(a, S) \in BOOLEAN
BY DEF Allowed

\* Whatever the broker answers, a task remains a task.
LEMMA AttemptKeepsType ==
  ASSUME NEW tk \in Task, NEW reply
  PROVE  /\ AfterAttempt(tk, reply) \in Task
         /\ AfterAttempt(tk, reply).app = tk.app
         /\ AfterAttempt(tk, reply).pc # "idle" \/ tk.pc = "idle"
<1>1. CASE reply = "ok"
  BY <1>1 DEF AfterAttempt, Task, Pc
<1>2. CASE reply = "refused"
  BY <1>2 DEF AfterAttempt, Task, Pc
<1>3. CASE reply = "error"
  BY <1>3 DEF AfterAttempt, Task, Pc
<1>4. CASE reply = "tick"
  BY <1>4 DEF AfterAttempt, Task, Pc
<1>5. CASE reply \notin {"ok", "refused", "error", "tick"}
  <2>1. AfterAttempt(tk, reply) =
          IF tk.tries + 1 < MaxAttempts
            THEN [tk EXCEPT !.tries = tk.tries + 1]
            ELSE [tk EXCEPT !.pc = "record", !.outcome = "failed"]
    BY <1>5 DEF AfterAttempt
  <2>2. [tk EXCEPT !.tries = tk.tries + 1] \in Task
    BY DEF Task
  <2>3. [tk EXCEPT !.pc = "record", !.outcome = "failed"] \in Task
    BY DEF Task, Pc
  <2> QED BY <2>1, <2>2, <2>3 DEF Task
<1> QED BY <1>1, <1>2, <1>3, <1>4, <1>5

LEMMA InitTyped == Init => TypeOK
<1> SUFFICES ASSUME Init PROVE TypeOK
  OBVIOUS
<1>1. IdleTask \in Task /\ IdleTask.pc = "idle"
  BY DEF IdleTask, Task, Pc
<1>2. task \in [Thread -> Task] /\ \A t \in Thread : task[t].pc = "idle"
  BY <1>1 DEF Init
<1>3. /\ lock \in [Process -> Thread \cup {NoThread}]
      /\ cache \in (SUBSET Symbol) \cup {NoCache}
      /\ holdings \subseteq Symbol
  BY DEF Init
<1> QED BY <1>2, <1>3 DEF Init, TypeOK, ApprovalStatus, TradeStatus, BkState

\* The part of TypeOK that concerns the threads and the locks.
TasksOK == /\ lock \in [Process -> Thread \cup {NoThread}]
           /\ task \in [Thread -> Task]
           /\ \A t \in Thread : task[t].pc = "idle" \/ task[t].app \in Approval

LEMMA LeaveTyped == ASSUME TasksOK, NEW t \in Thread, Leave(t) PROVE TasksOK'
BY DEF TasksOK, Leave, IdleTask, Task, Pc

LEMMA GoToTyped ==
  ASSUME TasksOK, NEW t \in Thread, NEW pc \in Pc, task[t].pc # "idle",
         GoTo(t, pc), UNCHANGED lock
  PROVE  TasksOK'
BY DEF TasksOK, GoTo, Task

LEMMA StepTyped == TypeOK /\ [Next]_vars => TypeOK'
<1> SUFFICES ASSUME TypeOK, [Next]_vars PROVE TypeOK'
  OBVIOUS
<1> USE LimitAssumption, ApprovalAssumption
<1>tasks. TasksOK
  BY DEF TypeOK, TasksOK
<1>1. ASSUME NEW t \in Thread, NEW a \in Approval, Begin(t, a) PROVE TypeOK'
  <2>1. TasksOK'
    BY <1>1, <1>tasks DEF Begin, TasksOK, IdleTask, Task, Pc, Process
  <2> QED BY <1>1, <2>1 DEF Begin, TypeOK, TasksOK, rows, broker
<1>2. ASSUME NEW t \in Thread, Load(t) PROVE TypeOK'
  <2>1. TasksOK'
    BY <1>2, <1>tasks, LeaveTyped, GoToTyped DEF Load, Pc
  <2> QED BY <1>2, <2>1 DEF Load, TypeOK, TasksOK, rows, broker
<1>3. ASSUME NEW t \in Thread, GiveUp(t) PROVE TypeOK'
  <2>1. TasksOK'
    BY <1>3, <1>tasks, LeaveTyped DEF GiveUp
  <2> QED BY <1>3, <2>1 DEF GiveUp, TypeOK, TasksOK, rows, broker
<1>4. ASSUME NEW t \in Thread, ReadBalance(t) PROVE TypeOK'
  <2>1. PICK data \in BalanceData :
          /\ cache' = data
          /\ task' = [task EXCEPT ![t].held = data, ![t].pc = "trades"]
    BY <1>4 DEF ReadBalance
  <2>2. data \in SUBSET Symbol
    <3>1. CASE data = holdings
      BY <3>1 DEF TypeOK
    <3>2. CASE data = cache /\ cache # NoCache
      BY <3>2 DEF TypeOK
    <3> QED BY <3>1, <3>2, <2>1 DEF BalanceData
  <2>3. TasksOK'
    BY <1>4, <1>tasks, <2>1, <2>2 DEF ReadBalance, TasksOK, Task, Pc
  <2> QED BY <1>4, <2>1, <2>2, <2>3 DEF ReadBalance, TypeOK, TasksOK, rows, broker
<1>5. ASSUME NEW t \in Thread, ReadTrades(t) PROVE TypeOK'
  <2>1. ActiveBuys \in SUBSET Symbol
    BY DEF ActiveBuys, Symbol
  <2>2. TasksOK'
    BY <1>5, <1>tasks, <2>1 DEF ReadTrades, TasksOK, Task, Pc
  <2> QED BY <1>5, <2>2 DEF ReadTrades, TypeOK, TasksOK, rows, broker
<1>6. ASSUME NEW t \in Thread, ReadApprovals(t) PROVE TypeOK'
  <2>1. TasksOK'
    BY <1>6, <1>tasks, GoToTyped DEF ReadApprovals, Pc
  <2> QED BY <1>6, <2>1 DEF ReadApprovals, TypeOK, TasksOK, rows, broker
<1>7. ASSUME NEW t \in Thread, Refuse(t) PROVE TypeOK'
  <2>1. TasksOK'
    BY <1>7, <1>tasks, LeaveTyped DEF Refuse
  <2>2. approval' \in [Approval -> ApprovalStatus]
    BY <1>7 DEF Refuse, TypeOK, ApprovalStatus
  <2> QED BY <1>7, <2>1, <2>2 DEF Refuse, TypeOK, TasksOK, broker
<1>8. ASSUME NEW t \in Thread, Claim(t) PROVE TypeOK'
  <2>1. TasksOK'
    BY <1>8, <1>tasks, LeaveTyped, GoToTyped DEF Claim, Pc
  <2>2. approval' \in [Approval -> ApprovalStatus]
    BY <1>8 DEF Claim, TypeOK, ApprovalStatus
  <2> QED BY <1>8, <2>1, <2>2 DEF Claim, TypeOK, TasksOK, broker
<1>9. ASSUME NEW t \in Thread, PreOrder(t) PROVE TypeOK'
  <2>1. TasksOK'
    BY <1>9, <1>tasks, GoToTyped DEF PreOrder, Pc
  <2>2. cache' \in (SUBSET Symbol) \cup {NoCache}
    BY <1>9 DEF PreOrder, BalanceData, TypeOK
  <2> QED BY <1>9, <2>1, <2>2 DEF PreOrder, TypeOK, TasksOK, rows, broker
<1>10. ASSUME NEW t \in Thread, Place(t) PROVE TypeOK'
  <2>1. PICK reply \in {"ok", "refused", "error", "tick", "lost"}, accepted \in BOOLEAN :
          /\ IF accepted
               THEN /\ placed' = [placed EXCEPT ![task[t].app] = @ + 1]
                    /\ bkState' = [bkState EXCEPT ![task[t].app] = "working"]
               ELSE UNCHANGED <<placed, bkState>>
          /\ task' = [task EXCEPT ![t] = AfterAttempt(@, reply)]
    BY <1>10 DEF Place
  <2>2. /\ placed' \in [Approval -> Nat]
        /\ bkState' \in [Approval -> BkState]
    BY <2>1, <1>10 DEF TypeOK, BkState, Place
  <2>3. task[t] \in Task /\ task[t].app \in Approval
    BY <1>10, <1>tasks DEF Place, TasksOK
  <2>4. /\ AfterAttempt(task[t], reply) \in Task
        /\ AfterAttempt(task[t], reply).app = task[t].app
    BY <2>3, AttemptKeepsType
  <2>5. TasksOK'
    BY <1>10, <1>tasks, <2>1, <2>3, <2>4 DEF Place, TasksOK
  <2> QED BY <1>10, <2>2, <2>5 DEF Place, TypeOK, TasksOK, rows
<1>11. ASSUME NEW t \in Thread, SaveTrade(t) PROVE TypeOK'
  <2>1. TasksOK'
    <3>1. PICK outcome \in {task[t].outcome, "failed"} :
            task' = [task EXCEPT ![t].pc = "record", ![t].outcome = outcome]
      BY <1>11 DEF SaveTrade
    <3>2. task[t] \in Task /\ outcome \in {"executed", "failed"}
      BY <1>tasks, <3>1 DEF TasksOK, Task
    <3> QED BY <1>11, <1>tasks, <3>1, <3>2 DEF SaveTrade, TasksOK, Task, Pc
  <2>2. trade' \in [Approval -> TradeStatus]
    BY <1>11 DEF SaveTrade, SavedStatus, TypeOK, TradeStatus
  <2> QED BY <1>11, <2>1, <2>2 DEF SaveTrade, TypeOK, TasksOK, broker
<1>12. ASSUME NEW t \in Thread, Record(t) PROVE TypeOK'
  <2>1. TasksOK'
    BY <1>12, <1>tasks, LeaveTyped, GoToTyped DEF Record, Pc
  <2>2. task[t].outcome \in ApprovalStatus
    BY <1>tasks DEF TasksOK, Task, ApprovalStatus
  <2>3. approval' \in [Approval -> ApprovalStatus]
    BY <1>12, <2>2 DEF Record, Recorded, TypeOK
  <2> QED BY <1>12, <2>1, <2>3 DEF Record, TypeOK, TasksOK, broker
<1>13. ASSUME NEW t \in Thread, ClearCache(t) PROVE TypeOK'
  <2>1. TasksOK'
    BY <1>13, <1>tasks, LeaveTyped DEF ClearCache
  <2>2. cache' \in (SUBSET Symbol) \cup {NoCache}
    BY <1>13 DEF ClearCache
  <2> QED BY <1>13, <2>1, <2>2 DEF ClearCache, TypeOK, TasksOK, rows, broker
<1>14. ASSUME NEW a \in Approval, ApprovalStep(a) PROVE TypeOK'
  <2>1. CASE Queue(a) \/ Reject(a) \/ Reclaim(a)
    <3>1. approval' \in [Approval -> ApprovalStatus]
      BY <2>1 DEF Queue, Reject, Reclaim, Reclaimed, TypeOK, ApprovalStatus
    <3> QED BY <2>1, <3>1 DEF Queue, Reject, Reclaim, TypeOK, broker
  <2>2. CASE SyncTrade(a)
    <3>1. trade' \in [Approval -> TradeStatus]
      BY <2>2 DEF SyncTrade, TypeOK, TradeStatus
    <3> QED BY <2>2, <3>1 DEF SyncTrade, TypeOK, broker
  <2>3. CASE BrokerFill(a) \/ BrokerEnd(a)
    <3>1. bkState' \in [Approval -> BkState] /\ holdings' \subseteq Symbol
      BY <2>3 DEF BrokerFill, BrokerEnd, TypeOK, BkState, Symbol
    <3> QED BY <2>3, <3>1 DEF BrokerFill, BrokerEnd, TypeOK, rows
  <2> QED BY <1>14, <2>1, <2>2, <2>3 DEF ApprovalStep
<1>15. ASSUME NEW p \in Process, Crash(p) PROVE TypeOK'
  <2>1. TasksOK'
    BY <1>15, <1>tasks DEF Crash, TasksOK, IdleTask, Task, Pc
  <2> QED BY <1>15, <2>1 DEF Crash, TypeOK, TasksOK, rows, broker
<1>16. CASE UNCHANGED vars
  BY <1>16 DEF TypeOK, vars
<1> QED
  BY <1>1, <1>2, <1>3, <1>4, <1>5, <1>6, <1>7, <1>8, <1>9, <1>10, <1>11, <1>12,
     <1>13, <1>14, <1>15, <1>16 DEF Next, ThreadStep, EnforceLimit, Submit

\* Every variable keeps its type: statuses stay within the sets the code writes, and
\* a thread at work names an approval.
THEOREM QueueTypeCorrect == Spec => []TypeOK
<1>1. Init => TypeOK
  BY InitTyped
<1>2. TypeOK /\ [Next]_vars => TypeOK'
  BY StepTyped
<1> QED BY <1>1, <1>2, PTL DEF Spec

-----------------------------------------------------------------------------
(* One claim per approval.                                                 *)

\* A claimed approval is executing and has one claimer.
ClaimOK ==
  \A t \in Thread, a \in Approval :
    Claimer(t, a) => /\ approval[a] = "executing"
                     /\ \A u \in Thread : Claimer(u, a) => u = t

\* n orders may have been accepted for an approval when its submission has come to tk.
PlacedSoFar(tk, n) ==
  CASE tk.pc = "preorder" -> n = 0 /\ tk.tries = 0 /\ ~tk.adjusted
    [] tk.pc = "place"    -> /\ tk.tries < MaxAttempts
                             /\ IF tk.adjusted THEN n <= MaxAttempts - 1 + tk.tries
                                               ELSE n <= tk.tries
    [] OTHER              -> tk.outcome = "executed" => n > 0

PlacedOK ==
  /\ \A t \in Thread, a \in Approval : Claimer(t, a) => PlacedSoFar(task[t], placed[a])
  /\ \A t \in Thread : task[t].pc \in {"idle", "load", "balance", "trades", "approvals",
                                       "refuse", "claim"}
                        => task[t].tries = 0 /\ ~task[t].adjusted
  /\ \A a \in Approval :
       /\ approval[a] \in {"absent", "pending", "rejected"} => placed[a] = 0
       /\ approval[a] = "executed" => placed[a] > 0
       /\ placed[a] <= 2 * MaxAttempts - 1

\* The lock names the thread of the process that is at work.
LockOK == \A t \in Thread : task[t].pc # "idle" => lock[ProcessOf[t]] = t

QInv == TypeOK /\ ClaimOK /\ PlacedOK /\ LockOK

LEMMA InitQInv == Init => QInv
<1> SUFFICES ASSUME Init PROVE QInv
  OBVIOUS
<1> USE LimitAssumption
<1>1. TypeOK
  BY InitTyped
<1>2. \A t \in Thread : task[t] = IdleTask /\ IdleTask.pc = "idle" /\ IdleTask.tries = 0
                          /\ ~IdleTask.adjusted
  BY DEF Init, IdleTask
<1>3. ClaimOK /\ LockOK
  BY <1>2 DEF ClaimOK, LockOK, Claimer
<1>4. PlacedOK
  BY <1>2 DEF PlacedOK, Claimer, Init
<1> QED BY <1>1, <1>3, <1>4 DEF QInv

\* A step that changes only a task outside the submission, and not into it.
LEMMA StepAside ==
  ASSUME QInv, NEW t \in Thread, NEW tk,
         task' = [task EXCEPT ![t] = tk],
         tk.pc \in {"idle", "load", "balance", "trades", "approvals", "refuse", "claim",
                   "clear"},
         tk.pc = "clear" \/ (tk.tries = 0 /\ ~tk.adjusted),
         UNCHANGED <<approval, placed>>
  PROVE  ClaimOK' /\ PlacedOK'
<1>1. \A u \in Thread : u # t => task'[u] = task[u]
  BY DEF QInv, TypeOK
<1>2. task'[t] = tk
  BY DEF QInv, TypeOK
<1>3. \A u \in Thread, a \in Approval : Claimer(u, a)' => u # t /\ Claimer(u, a)
  BY <1>1, <1>2 DEF Claimer
<1>4. ClaimOK'
  BY <1>3 DEF QInv, ClaimOK
<1>5. \A u \in Thread, a \in Approval : Claimer(u, a)' => PlacedSoFar(task[u], placed[a])'
  BY <1>1, <1>3 DEF QInv, PlacedOK, PlacedSoFar
<1>6. PlacedOK'
  BY <1>1, <1>2, <1>5 DEF QInv, PlacedOK
<1> QED BY <1>4, <1>6

\* A thread that only changes its own task and keeps or frees its lock keeps LockOK.
LEMMA LockKept ==
  ASSUME QInv, NEW t \in Thread, NEW tk, task[t].pc # "idle",
         task' = [task EXCEPT ![t] = tk],
         \/ UNCHANGED lock
         \/ tk.pc = "idle" /\ lock' = [lock EXCEPT ![ProcessOf[t]] = NoThread]
  PROVE  LockOK'
<1>1. \A u \in Thread : u # t => task'[u] = task[u]
  BY DEF QInv, TypeOK
<1>2. task'[t] = tk
  BY DEF QInv, TypeOK
<1>3. CASE UNCHANGED lock
  BY <1>1, <1>3 DEF QInv, LockOK
<1>4. CASE tk.pc = "idle" /\ lock' = [lock EXCEPT ![ProcessOf[t]] = NoThread]
  <2>1. \A u \in Thread : u # t /\ task[u].pc # "idle" => ProcessOf[u] # ProcessOf[t]
    BY DEF QInv, LockOK
  <2>2. \A u \in Thread : lock'[ProcessOf[u]] = IF ProcessOf[u] = ProcessOf[t] THEN NoThread
                                                ELSE lock[ProcessOf[u]]
    BY <1>4 DEF QInv, TypeOK, Process
  <2> QED BY <1>1, <1>2, <1>4, <2>1, <2>2 DEF QInv, LockOK
<1> QED BY <1>3, <1>4

\* The steps of a thread before it claims, and after it has written the final status.
LEMMA AsideKeepsQInv ==
  ASSUME QInv, TypeOK', NEW t \in Thread,
         \/ Load(t) \/ GiveUp(t) \/ ReadBalance(t) \/ ReadTrades(t) \/ ReadApprovals(t)
         \/ ClearCache(t)
  PROVE  QInv'
<1>1. UNCHANGED <<approval, placed>>
  BY DEF Load, GiveUp, ReadBalance, ReadTrades, ReadApprovals, ClearCache, rows, broker
<1>2. /\ task[t].pc # "idle"
      /\ task[t].pc # "clear" => task[t].tries = 0 /\ ~task[t].adjusted
  BY DEF Load, GiveUp, ReadBalance, ReadTrades, ReadApprovals, ClearCache, QInv, PlacedOK
<1>3. task[t] \in Task /\ task \in [Thread -> Task]
  BY DEF QInv, TypeOK
<1>4. SUFFICES ASSUME NEW tk,
                      task' = [task EXCEPT ![t] = tk],
                      tk.pc \in {"idle", "load", "balance", "trades", "approvals", "refuse",
                                "claim"},
                      tk.tries = 0 /\ ~tk.adjusted,
                      \/ UNCHANGED lock
                      \/ tk.pc = "idle" /\ lock' = [lock EXCEPT ![ProcessOf[t]] = NoThread]
               PROVE  QInv'
  <2>1. CASE Leave(t)
    <3>1. IdleTask.pc = "idle" /\ IdleTask.tries = 0 /\ ~IdleTask.adjusted
      BY DEF IdleTask
    <3> QED BY <2>1, <3>1 DEF Leave
  <2>2. ASSUME NEW pc \in {"balance", "claim", "approvals", "refuse"}, GoTo(t, pc),
               UNCHANGED lock, task[t].pc # "clear"
        PROVE  QInv'
    <3>1. task' = [task EXCEPT ![t] = [task[t] EXCEPT !.pc = pc]]
      BY <2>2, <1>3 DEF GoTo
    <3> DEFINE tk == [task[t] EXCEPT !.pc = pc]
    <3>2. tk.pc = pc /\ tk.tries = 0 /\ ~tk.adjusted
      BY <1>2, <1>3, <2>2 DEF Task
    <3> QED BY <2>2, <3>1, <3>2
  <2>3. CASE Load(t)
    BY <2>1, <2>2, <2>3 DEF Load
  <2>4. CASE GiveUp(t) \/ ClearCache(t)
    BY <2>1, <2>4 DEF GiveUp, ClearCache
  <2>5. CASE ReadBalance(t)
    <3>1. PICK data \in BalanceData :
            task' = [task EXCEPT ![t].held = data, ![t].pc = "trades"]
      BY <2>5 DEF ReadBalance
    <3> DEFINE tk == [task[t] EXCEPT !.held = data, !.pc = "trades"]
    <3>2. task' = [task EXCEPT ![t] = tk]
      BY <3>1, <1>3
    <3>3. tk.pc = "trades" /\ tk.tries = 0 /\ ~tk.adjusted
      BY <1>2, <1>3, <2>5 DEF Task, ReadBalance
    <3> QED BY <2>5, <3>2, <3>3 DEF ReadBalance
  <2>6. CASE ReadTrades(t)
    <3> DEFINE tk == [task[t] EXCEPT !.active = ActiveBuys, !.pc = "approvals"]
    <3>1. task' = [task EXCEPT ![t] = tk]
      BY <2>6, <1>3 DEF ReadTrades
    <3>2. tk.pc = "approvals" /\ tk.tries = 0 /\ ~tk.adjusted
      BY <1>2, <1>3, <2>6 DEF Task, ReadTrades
    <3> QED BY <2>6, <3>1, <3>2 DEF ReadTrades
  <2>7. CASE ReadApprovals(t)
    BY <2>2, <2>7 DEF ReadApprovals
  <2> QED BY <2>3, <2>4, <2>5, <2>6, <2>7
<1>5. ClaimOK' /\ PlacedOK'
  BY <1>1, <1>4, StepAside
<1>6. LockOK'
  BY <1>2, <1>4, LockKept
<1> QED BY <1>5, <1>6 DEF QInv

LEMMA BeginKeepsQInv ==
  ASSUME QInv, TypeOK', NEW t \in Thread, NEW a \in Approval, Begin(t, a)
  PROVE  QInv'
<1> DEFINE tk == [IdleTask EXCEPT !.pc = "load", !.app = a]
<1>1. /\ task' = [task EXCEPT ![t] = tk]
      /\ tk.pc = "load" /\ tk.tries = 0 /\ ~tk.adjusted
      /\ UNCHANGED <<approval, placed>>
  BY DEF Begin, IdleTask, rows, broker
<1>2. ClaimOK' /\ PlacedOK'
  BY <1>1, StepAside
<1>3. \A u \in Thread : task[u].pc # "idle" => ProcessOf[u] # ProcessOf[t]
  BY ThreadAssumption DEF QInv, LockOK, Begin, LockFree
<1>4. LockOK'
  BY <1>3 DEF QInv, LockOK, Begin, TypeOK, Process
<1> QED BY <1>2, <1>4 DEF QInv

LEMMA RefuseKeepsQInv ==
  ASSUME QInv, TypeOK', NEW t \in Thread, Refuse(t) PROVE QInv'
<1> DEFINE a == task[t].app
<1>1. /\ a \in Approval /\ task[t].pc = "refuse"
      /\ task' = [task EXCEPT ![t] = IdleTask]
      /\ lock' = [lock EXCEPT ![ProcessOf[t]] = NoThread]
      /\ approval' = [approval EXCEPT ![a] = IF @ = "pending" THEN "rejected" ELSE @]
      /\ UNCHANGED placed
  BY DEF QInv, TypeOK, Refuse, Leave, broker
<1>2. IdleTask.pc = "idle" /\ IdleTask.tries = 0 /\ ~IdleTask.adjusted
  BY DEF IdleTask
<1>3. LockOK'
  BY <1>1, <1>2, LockKept
<1>4. \A u \in Thread, b \in Approval :
        Claimer(u, b)' => /\ u # t /\ Claimer(u, b) /\ task'[u] = task[u]
                          /\ approval'[b] = approval[b]
  BY <1>1, <1>2 DEF QInv, TypeOK, Claimer, ClaimOK
<1>5. ClaimOK'
  BY <1>4 DEF QInv, ClaimOK
<1>6. \A u \in Thread, b \in Approval : Claimer(u, b)' => PlacedSoFar(task[u], placed[b])'
  BY <1>1, <1>4 DEF QInv, PlacedOK, PlacedSoFar
<1>7. \A b \in Approval :
        \/ approval'[b] = approval[b]
        \/ approval[b] = "pending" /\ approval'[b] = "rejected"
  <2>1. approval \in [Approval -> ApprovalStatus]
    BY DEF QInv, TypeOK
  <2> QED BY <1>1, <2>1
<1>8. \A u \in Thread : u # t => task'[u] = task[u]
  BY <1>1 DEF QInv, TypeOK
<1>9. PlacedOK'
  BY <1>1, <1>2, <1>6, <1>7, <1>8 DEF QInv, PlacedOK, TypeOK
<1> QED BY <1>3, <1>5, <1>9 DEF QInv

\* By the step, t's task becomes tk, the status of a becomes st and its orders n.
Moves(t, a, tk, st, n) ==
  /\ task' = [task EXCEPT ![t] = tk]
  /\ approval' = [approval EXCEPT ![a] = st]
  /\ placed' = [placed EXCEPT ![a] = n]

\* tk, st and n go together.
Coherent(tk, st, n) ==
  /\ tk.pc \in {"preorder", "place", "save", "record"}
       => st = "executing" /\ PlacedSoFar(tk, n)
  /\ tk.pc \in {"idle", "load", "balance", "trades", "approvals", "refuse", "claim"}
       => tk.tries = 0 /\ ~tk.adjusted
  /\ st \in {"absent", "pending", "rejected"} => n = 0
  /\ st = "executed" => n > 0
  /\ n <= 2 * MaxAttempts - 1

LEMMA OthersKept ==
  ASSUME QInv, TypeOK', NEW t \in Thread, NEW a \in Approval, NEW tk, NEW st, NEW n,
         tk.app = a \/ tk.pc = "idle",
         \A u \in Thread : Claimer(u, a) => u = t,
         Moves(t, a, tk, st, n), Coherent(tk, st, n)
  PROVE  ClaimOK' /\ PlacedOK'
<1>1. \A u \in Thread : u # t => task'[u] = task[u]
  BY DEF QInv, TypeOK, Moves
<1>2. task'[t] = tk
  BY DEF QInv, TypeOK, Moves
<1>3. \A b \in Approval : b # a => approval'[b] = approval[b] /\ placed'[b] = placed[b]
  BY DEF QInv, TypeOK, Moves
<1>4. approval'[a] = st /\ placed'[a] = n
  BY DEF QInv, TypeOK, Moves
<1>5. \A u \in Thread, b \in Approval :
        Claimer(u, b)' => \/ u = t /\ b = a
                          \/ u # t /\ b # a /\ Claimer(u, b)
  BY <1>1, <1>2 DEF Claimer
<1>6. ClaimOK'
  BY <1>2, <1>3, <1>4, <1>5 DEF ClaimOK, QInv, Claimer, Coherent
<1>7. ASSUME NEW u \in Thread, NEW b \in Approval, Claimer(u, b)'
      PROVE  PlacedSoFar(task[u], placed[b])'
  <2>1. CASE u = t /\ b = a
    BY <1>2, <1>4, <1>7, <2>1 DEF Claimer, Coherent
  <2>2. CASE u # t /\ b # a /\ Claimer(u, b)
    BY <1>1, <1>3, <2>2 DEF QInv, PlacedOK, PlacedSoFar
  <2> QED BY <1>5, <1>7, <2>1, <2>2
<1>8. PlacedOK'
  BY <1>1, <1>2, <1>3, <1>4, <1>7 DEF QInv, PlacedOK, Coherent
<1> QED BY <1>6, <1>8

LEMMA ClaimKeepsQInv ==
  ASSUME QInv, TypeOK', NEW t \in Thread, Claim(t) PROVE QInv'
<1> DEFINE a == task[t].app
<1>1. a \in Approval /\ task[t].pc = "claim" /\ task[t].tries = 0 /\ ~task[t].adjusted
  BY DEF QInv, TypeOK, PlacedOK, Claim
<1>2. task[t] \in Task /\ task \in [Thread -> Task]
  BY DEF QInv, TypeOK
<1>3. CASE Claimable(a)
  <2> DEFINE tk == [task[t] EXCEPT !.pc = "preorder"]
  <2>1. /\ task' = [task EXCEPT ![t] = tk]
        /\ tk.pc = "preorder" /\ tk.tries = 0 /\ ~tk.adjusted /\ tk.app = a
        /\ UNCHANGED <<placed, lock>>
        /\ approval' = [approval EXCEPT ![a] = "executing"]
    BY <1>1, <1>2, <1>3 DEF Claim, GoTo, Task, broker
  <2>2. /\ \A u \in Thread : ~Claimer(u, a)
        /\ placed[a] = 0
    BY <1>1, <1>3 DEF Claimable, QInv, ClaimOK, PlacedOK
  <2>3. placed' = [placed EXCEPT ![a] = 0]
    BY <1>1, <2>1, <2>2 DEF QInv, TypeOK
  <2>4. Moves(t, a, tk, "executing", 0)
    BY <2>1, <2>3 DEF Moves
  <2>5. Coherent(tk, "executing", 0)
    BY <2>1, LimitAssumption DEF Coherent, PlacedSoFar
  <2> HIDE DEF tk
  <2>6. ClaimOK' /\ PlacedOK'
    BY <1>1, <2>1, <2>2, <2>4, <2>5, OthersKept
  <2>7. LockOK'
    BY <1>1, <2>1, LockKept
  <2> QED BY <2>6, <2>7 DEF QInv
<1>4. CASE ~Claimable(a)
  <2>1. /\ task' = [task EXCEPT ![t] = IdleTask]
        /\ lock' = [lock EXCEPT ![ProcessOf[t]] = NoThread]
        /\ UNCHANGED <<approval, placed>>
    BY <1>4 DEF Claim, Leave, broker
  <2>2. IdleTask.pc = "idle" /\ IdleTask.tries = 0 /\ ~IdleTask.adjusted
    BY DEF IdleTask
  <2> QED BY <1>1, <2>1, <2>2, StepAside, LockKept DEF QInv
<1> QED BY <1>3, <1>4

\* The steps between the claim and the final status, but for the submission itself.
LEMMA AroundPlaceKeepsQInv ==
  ASSUME QInv, TypeOK', NEW t \in Thread, PreOrder(t) \/ SaveTrade(t) PROVE QInv'
<1> DEFINE a == task[t].app
           next == IF PreOrder(t) THEN "place" ELSE "record"
<1>1. /\ a \in Approval /\ Claimer(t, a)
      /\ task[t].pc = IF PreOrder(t) THEN "preorder" ELSE "save"
  BY DEF QInv, TypeOK, PreOrder, SaveTrade, Claimer
<1>2. task[t] \in Task /\ task \in [Thread -> Task]
  BY DEF QInv, TypeOK
<1>3. PICK outcome \in {task[t].outcome, "failed"} :
        /\ task' = [task EXCEPT ![t] = [task[t] EXCEPT !.pc = next, !.outcome = outcome]]
        /\ UNCHANGED <<approval, placed, lock>>
  <2>1. CASE PreOrder(t)
    <3>1. [task[t] EXCEPT !.pc = next] = [task[t] EXCEPT !.pc = next, !.outcome = task[t].outcome]
      BY <1>2 DEF Task
    <3> QED BY <1>2, <2>1, <3>1 DEF PreOrder, GoTo, rows, broker
  <2>2. CASE SaveTrade(t)
    BY <1>1, <1>2, <2>2 DEF SaveTrade, PreOrder, broker
  <2> QED BY <2>1, <2>2
<1> DEFINE tk == [task[t] EXCEPT !.pc = next, !.outcome = outcome]
<1>4. /\ tk.pc = next /\ tk.app = a
      /\ tk.outcome = "executed" => task[t].outcome = "executed"
      /\ tk.tries = task[t].tries /\ tk.adjusted = task[t].adjusted
  BY <1>2 DEF Task
<1>5. approval[a] = "executing" /\ \A u \in Thread : Claimer(u, a) => u = t
  BY <1>1 DEF QInv, ClaimOK
<1>6. PlacedSoFar(task[t], placed[a]) /\ placed[a] <= 2 * MaxAttempts - 1
  BY <1>1 DEF QInv, PlacedOK
<1>7. Coherent(tk, "executing", placed[a])
  BY <1>1, <1>4, <1>6, LimitAssumption DEF PlacedSoFar, Coherent
<1>8. Moves(t, a, tk, "executing", placed[a])
  BY <1>1, <1>3, <1>5 DEF QInv, TypeOK, Moves
<1> HIDE DEF tk
<1>9. ClaimOK' /\ PlacedOK'
  BY <1>1, <1>4, <1>5, <1>7, <1>8, OthersKept
<1>10. LockOK'
  BY <1>1, <1>3, LockKept
<1> QED BY <1>9, <1>10 DEF QInv

\* An attempt adds at most the order it may have led to.
LEMMA AttemptCoherent ==
  ASSUME NEW tk \in Task, tk.pc = "place", NEW n \in Nat, PlacedSoFar(tk, n),
         NEW reply \in {"ok", "refused", "error", "tick", "lost"}, NEW accepted \in BOOLEAN,
         reply = "ok" => accepted,
         reply \in {"refused", "error", "tick"} => ~accepted
  PROVE  Coherent(AfterAttempt(tk, reply), "executing", IF accepted THEN n + 1 ELSE n)
<1> DEFINE m == IF accepted THEN n + 1 ELSE n
<1>1. /\ tk.tries < MaxAttempts /\ tk.tries \in Nat
      /\ n <= IF tk.adjusted THEN MaxAttempts - 1 + tk.tries ELSE tk.tries
      /\ tk.adjusted \in BOOLEAN
  BY LimitAssumption DEF PlacedSoFar, Task
<1>2. /\ m \in Nat /\ m <= n + 1
      /\ m <= 2 * MaxAttempts - 1
  BY <1>1, LimitAssumption
<1>3. CASE reply = "ok"
  <2>1. AfterAttempt(tk, reply).pc = "save"
    BY <1>3 DEF AfterAttempt, Task
  <2>2. m > 0
    BY <1>3
  <2> QED BY <1>2, <2>1, <2>2 DEF Coherent, PlacedSoFar
<1>4. CASE reply \in {"refused", "error"} \/ (reply = "tick" /\ tk.adjusted)
  <2>1. /\ AfterAttempt(tk, reply).pc \in {"save", "record"}
        /\ AfterAttempt(tk, reply).outcome = "failed"
    BY <1>4 DEF AfterAttempt, Task
  <2> QED BY <1>2, <2>1 DEF Coherent, PlacedSoFar
<1>5. CASE reply = "tick" /\ ~tk.adjusted
  <2>1. /\ AfterAttempt(tk, reply).pc = "place"
        /\ AfterAttempt(tk, reply).tries = 0
        /\ AfterAttempt(tk, reply).adjusted
    BY <1>5 DEF AfterAttempt, Task
  <2>2. m = n /\ n <= MaxAttempts - 1
    BY <1>1, <1>5, LimitAssumption
  <2> QED BY <1>2, <2>1, <2>2, LimitAssumption DEF Coherent, PlacedSoFar
<1>6. CASE reply = "lost" /\ tk.tries + 1 < MaxAttempts
  <2>1. /\ AfterAttempt(tk, reply).pc = "place"
        /\ AfterAttempt(tk, reply).tries = tk.tries + 1
        /\ AfterAttempt(tk, reply).adjusted = tk.adjusted
    BY <1>6 DEF AfterAttempt, Task
  <2> QED BY <1>1, <1>2, <1>6, <2>1, LimitAssumption DEF Coherent, PlacedSoFar
<1>7. CASE reply = "lost" /\ ~(tk.tries + 1 < MaxAttempts)
  <2>1. /\ AfterAttempt(tk, reply).pc = "record"
        /\ AfterAttempt(tk, reply).outcome = "failed"
    BY <1>7 DEF AfterAttempt, Task
  <2> QED BY <1>2, <2>1 DEF Coherent, PlacedSoFar
<1> QED BY <1>3, <1>4, <1>5, <1>6, <1>7

LEMMA PlaceKeepsQInv ==
  ASSUME QInv, TypeOK', NEW t \in Thread, Place(t) PROVE QInv'
<1> DEFINE a == task[t].app
<1>1. PICK reply \in {"ok", "refused", "error", "tick", "lost"}, accepted \in BOOLEAN :
        /\ reply = "ok" => accepted
        /\ reply \in {"refused", "error", "tick"} => ~accepted
        /\ IF accepted THEN placed' = [placed EXCEPT ![a] = @ + 1] ELSE UNCHANGED placed
        /\ task' = [task EXCEPT ![t] = AfterAttempt(@, reply)]
  BY DEF Place
<1>2. a \in Approval /\ Claimer(t, a) /\ task[t].pc = "place"
  BY DEF QInv, TypeOK, Place, Claimer
<1>3. task[t] \in Task /\ task \in [Thread -> Task] /\ placed[a] \in Nat
  BY <1>2 DEF QInv, TypeOK
<1>4. approval[a] = "executing" /\ \A u \in Thread : Claimer(u, a) => u = t
  BY <1>2 DEF QInv, ClaimOK
<1> DEFINE tk == AfterAttempt(task[t], reply)
           n == IF accepted THEN placed[a] + 1 ELSE placed[a]
<1>5. Coherent(tk, "executing", n)
  <2>1. PlacedSoFar(task[t], placed[a])
    BY <1>2 DEF QInv, PlacedOK
  <2> QED BY <1>1, <1>2, <1>3, <2>1, AttemptCoherent
<1>6. /\ task' = [task EXCEPT ![t] = tk]
      /\ UNCHANGED <<approval, lock>>
  BY <1>1, <1>3 DEF Place, rows
<1>7. placed' = [placed EXCEPT ![a] = n]
  BY <1>1, <1>2 DEF QInv, TypeOK
<1>8. Moves(t, a, tk, "executing", n)
  BY <1>2, <1>4, <1>6, <1>7 DEF QInv, TypeOK, Moves
<1>9. tk.app = a
  BY <1>3, AttemptKeepsType
<1> HIDE DEF tk, n
<1>10. ClaimOK' /\ PlacedOK'
  BY <1>2, <1>4, <1>5, <1>8, <1>9, OthersKept
<1>11. LockOK'
  BY <1>2, <1>6, LockKept
<1> QED BY <1>10, <1>11 DEF QInv

LEMMA RecordKeepsQInv ==
  ASSUME QInv, TypeOK', NEW t \in Thread, Record(t) PROVE QInv'
<1> DEFINE a == task[t].app
           st == task[t].outcome
           tk == IF st = "executed" THEN [task[t] EXCEPT !.pc = "clear"] ELSE IdleTask
<1>1. a \in Approval /\ Claimer(t, a) /\ task[t].pc = "record"
  BY DEF QInv, TypeOK, Record, Claimer
<1>2. /\ task[t] \in Task /\ task \in [Thread -> Task]
      /\ placed[a] \in Nat /\ st \in {"executed", "failed"}
  BY <1>1 DEF QInv, TypeOK, Task
<1>3. \A u \in Thread : Claimer(u, a) => u = t
  BY <1>1 DEF QInv, ClaimOK
<1>4. /\ task' = [task EXCEPT ![t] = tk]
      /\ approval' = [approval EXCEPT ![a] = st]
      /\ UNCHANGED placed
      /\ UNCHANGED lock \/ (tk.pc = "idle" /\ lock' = [lock EXCEPT ![ProcessOf[t]] = NoThread])
  BY <1>2 DEF Record, Recorded, Leave, GoTo, broker, IdleTask
<1>5. /\ tk.pc \in {"idle", "clear"}
      /\ tk.app = a \/ tk.pc = "idle"
      /\ tk.pc = "idle" => tk.tries = 0 /\ ~tk.adjusted
  BY <1>2 DEF IdleTask, Task
<1>6. PlacedSoFar(task[t], placed[a]) /\ placed[a] <= 2 * MaxAttempts - 1
  BY <1>1 DEF QInv, PlacedOK
<1>7. Coherent(tk, st, placed[a])
  BY <1>1, <1>2, <1>5, <1>6 DEF Coherent, PlacedSoFar
<1>8. Moves(t, a, tk, st, placed[a])
  BY <1>1, <1>4 DEF QInv, TypeOK, Moves
<1> HIDE DEF tk, st
<1>9. ClaimOK' /\ PlacedOK'
  BY <1>1, <1>3, <1>5, <1>7, <1>8, OthersKept
<1>10. LockOK'
  BY <1>1, <1>4, LockKept
<1> QED BY <1>9, <1>10 DEF QInv

\* Queueing, rejecting, reclaiming and synchronising leave every claimed approval alone.
LEMMA ApprovalStepKeepsQInv ==
  ASSUME QInv, TypeOK', NEW a \in Approval, ApprovalStep(a) PROVE QInv'
<1>1. UNCHANGED <<task, lock, placed>>
  BY DEF ApprovalStep, Queue, Reject, Reclaim, SyncTrade, BrokerFill, BrokerEnd, rows, broker
<1>2. \A b \in Approval :
        \/ approval'[b] = approval[b]
        \/ /\ \/ approval[b] = "absent" /\ approval'[b] = "pending"
              \/ approval[b] = "pending" /\ approval'[b] = "rejected"
              \/ approval[b] = "executing" /\ approval'[b] = "failed"
           /\ \A t \in Thread : ~Claimer(t, b)
  <2>1. approval \in [Approval -> ApprovalStatus]
    BY DEF QInv, TypeOK
  <2>2. approval[a] # "executing" => \A t \in Thread : ~Claimer(t, a)
    BY DEF QInv, ClaimOK
  <2> QED
    BY <2>1, <2>2 DEF ApprovalStep, Queue, Reject, Rejectable, Reclaim, Reclaimed, Abandoned,
      SyncTrade, BrokerFill, BrokerEnd, rows
<1>3. \A t \in Thread, b \in Approval :
        Claimer(t, b)' => Claimer(t, b) /\ approval'[b] = approval[b]
  BY <1>1, <1>2 DEF Claimer
<1>4. ClaimOK'
  BY <1>1, <1>3 DEF QInv, ClaimOK, Claimer
<1>5. \A t \in Thread, b \in Approval : Claimer(t, b)' => PlacedSoFar(task[t], placed[b])'
  BY <1>1, <1>3 DEF QInv, PlacedOK, PlacedSoFar
<1>6. PlacedOK'
  BY <1>1, <1>2, <1>5 DEF QInv, PlacedOK
<1>7. LockOK'
  BY <1>1 DEF QInv, LockOK
<1> QED BY <1>4, <1>6, <1>7 DEF QInv

LEMMA CrashKeepsQInv ==
  ASSUME QInv, TypeOK', NEW p \in Process, Crash(p) PROVE QInv'
<1>1. /\ UNCHANGED <<approval, placed>>
      /\ lock' = [lock EXCEPT ![p] = NoThread]
  BY DEF Crash, rows, broker
<1>2. \A t \in Thread : task'[t] = IF ProcessOf[t] = p THEN IdleTask ELSE task[t]
  BY DEF Crash
<1>3. IdleTask.pc = "idle" /\ IdleTask.tries = 0 /\ ~IdleTask.adjusted
  BY DEF IdleTask
<1>4. \A t \in Thread, a \in Approval : Claimer(t, a)' => Claimer(t, a) /\ task'[t] = task[t]
  BY <1>2, <1>3 DEF Claimer
<1>5. ClaimOK'
  BY <1>1, <1>4 DEF QInv, ClaimOK
<1>6. \A t \in Thread, a \in Approval : Claimer(t, a)' => PlacedSoFar(task[t], placed[a])'
  BY <1>1, <1>4 DEF QInv, PlacedOK, PlacedSoFar
<1>7. PlacedOK'
  BY <1>1, <1>2, <1>3, <1>6 DEF QInv, PlacedOK
<1>8. LockOK'
  BY <1>1, <1>2, <1>3 DEF QInv, LockOK, TypeOK, Process
<1> QED BY <1>5, <1>7, <1>8 DEF QInv

LEMMA StepKeepsQInv == QInv /\ [Next]_vars => QInv'
<1> SUFFICES ASSUME QInv, [Next]_vars PROVE QInv'
  OBVIOUS
<1>1. TypeOK'
  BY StepTyped DEF QInv
<1>2. ASSUME NEW t \in Thread, ThreadStep(t) PROVE QInv'
  BY <1>1, <1>2, AsideKeepsQInv, RefuseKeepsQInv, ClaimKeepsQInv, AroundPlaceKeepsQInv,
     PlaceKeepsQInv, RecordKeepsQInv DEF ThreadStep, EnforceLimit, Submit
<1>3. ASSUME NEW t \in Thread, NEW a \in Approval, Begin(t, a) PROVE QInv'
  BY <1>1, <1>3, BeginKeepsQInv
<1>4. ASSUME NEW a \in Approval, ApprovalStep(a) PROVE QInv'
  BY <1>1, <1>4, ApprovalStepKeepsQInv
<1>5. ASSUME NEW p \in Process, Crash(p) PROVE QInv'
  BY <1>1, <1>5, CrashKeepsQInv
<1>6. CASE UNCHANGED vars
  BY <1>6 DEF QInv, TypeOK, ClaimOK, PlacedOK, PlacedSoFar, LockOK, Claimer, vars
<1> QED BY <1>2, <1>3, <1>4, <1>5, <1>6 DEF Next

LEMMA QInvHolds == Spec => []QInv
<1>1. Init => QInv
  BY InitQInv
<1>2. QInv /\ [Next]_vars => QInv'
  BY StepKeepsQInv
<1> QED BY <1>1, <1>2, PTL DEF Spec

-----------------------------------------------------------------------------
(* Theorems.                                                               *)

\* However many threads, processes and crashes there are, the broker accepts for an
\* approval no more than the attempts of one place_order call and of its repetition with
\* an adjusted price.
THEOREM ApprovalSubmittedOnce == Spec => []SubmittedOnce
<1>1. QInv => SubmittedOnce
  BY DEF QInv, PlacedOK, SubmittedOnce
<1> QED BY <1>1, QInvHolds, PTL

\* An approval that was rejected has never reached the broker, and one that is executed
\* has an order there.
THEOREM DecisionsAreTrue == Spec => []PlacedAsDecided
<1>1. QInv => PlacedAsDecided
  BY DEF QInv, PlacedOK, PlacedAsDecided
<1> QED BY <1>1, QInvHolds, PTL

\* A call that the broker accepts is within the contract: its approval is executing, and
\* the attempts are not used up.
LEMMA PlaceKeepsContract ==
  ASSUME QInv, QInv', NEW t \in Thread, Place(t)
  PROVE  [Contract!Next]_(Contract!contract)
<1> DEFINE a == task[t].app
<1>1. a \in Approval /\ approval[a] = "executing"
  BY DEF QInv, TypeOK, ClaimOK, Claimer, Place
<1>2. UNCHANGED approval
  BY DEF Place, rows
<1>3. CASE placed' = [placed EXCEPT ![a] = @ + 1]
  <2>1. placed[a] \in Nat /\ placed'[a] = placed[a] + 1
    BY <1>1, <1>3 DEF QInv, TypeOK
  <2>2. placed'[a] <= 2 * MaxAttempts - 1
    BY <1>1 DEF QInv, PlacedOK
  <2>3. placed[a] < 2 * MaxAttempts - 1
    BY <2>1, <2>2, LimitAssumption
  <2>4. Contract!Order(a)
    BY <1>1, <1>2, <1>3, <2>3 DEF Contract!Order
  <2> QED BY <1>1, <2>4 DEF Contract!Next
<1>4. CASE UNCHANGED placed
  BY <1>2, <1>4 DEF Contract!contract
<1> QED BY <1>3, <1>4 DEF Place

\* The unconditional UPDATE at the end is within it too: nobody else has touched the row,
\* and an outcome of "executed" comes from an order the broker accepted.
LEMMA RecordKeepsContract ==
  ASSUME QInv, NEW t \in Thread, Record(t)
  PROVE  [Contract!Next]_(Contract!contract)
<1> DEFINE a == task[t].app
<1>1. /\ a \in Approval /\ Claimer(t, a) /\ At(t, "record")
      /\ task[t].outcome \in {"executed", "failed"}
  BY DEF QInv, TypeOK, Task, Claimer, Record
<1>2. approval[a] = "executing"
  BY <1>1 DEF QInv, ClaimOK
<1>3. task[t].outcome = "executed" => placed[a] > 0
  BY <1>1 DEF QInv, PlacedOK, PlacedSoFar
<1>4. approval' = [approval EXCEPT ![a] = task[t].outcome] /\ UNCHANGED placed
  BY DEF Record, Recorded, broker
<1>5. Contract!Fail(a) \/ Contract!Execute(a)
  BY <1>1, <1>2, <1>3, <1>4 DEF Contract!Fail, Contract!Execute, Contract!Becomes
<1> QED BY <1>1, <1>5 DEF Contract!Next

\* The queue implements ApprovalContract: whatever threads, processes, the sweeper and
\* crashes do, an approval is decided once, orders reach the broker only under its claim
\* and no more of them than the attempts of one submission, and it ends executed only if
\* there is one.
THEOREM QueueKeepsContract == Spec => ImplementsContract
<1>1. Init => Contract!Init
  BY DEF Init, Contract!Init
<1>2. ASSUME QInv, QInv', [Next]_vars PROVE [Contract!Next]_(Contract!contract)
  <2> DEFINE Goal == [Contract!Next]_(Contract!contract)
  <2>0. approval \in [Approval -> ApprovalStatus]
    BY <1>2 DEF QInv, TypeOK
  <2>1. CASE UNCHANGED <<approval, placed>>
    BY <2>1 DEF Contract!contract
  <2>2. ASSUME NEW a \in Approval, NEW from, NEW to, Contract!Becomes(a, from, to),
               <<from, to>> \in {<<"absent", "pending">>, <<"pending", "rejected">>,
                                 <<"pending", "executing">>, <<"executing", "failed">>}
        PROVE  Goal
    <3>1. Contract!Queue(a) \/ Contract!Reject(a) \/ Contract!Claim(a) \/ Contract!Fail(a)
      BY <2>2 DEF Contract!Queue, Contract!Reject, Contract!Claim, Contract!Fail
    <3> QED BY <3>1 DEF Contract!Next
  <2>3. ASSUME NEW a \in Approval, ApprovalStep(a) PROVE Goal
    <3>1. CASE Queue(a)
      <4>1. Contract!Becomes(a, "absent", "pending")
        BY <3>1 DEF Queue, Contract!Becomes, broker
      <4> QED BY <4>1, <2>2
    <3>2. CASE Reject(a)
      <4>1. Contract!Becomes(a, "pending", "rejected")
        BY <3>2 DEF Reject, Rejectable, Contract!Becomes, broker
      <4> QED BY <4>1, <2>2
    <3>3. CASE Reclaim(a)
      <4>1. Contract!Becomes(a, "executing", "failed")
        BY <3>3 DEF Reclaim, Reclaimed, Abandoned, Contract!Becomes, broker
      <4> QED BY <4>1, <2>2
    <3>4. CASE SyncTrade(a) \/ BrokerFill(a) \/ BrokerEnd(a)
      BY <2>1, <3>4 DEF SyncTrade, BrokerFill, BrokerEnd, rows, broker
    <3> QED BY <2>3, <3>1, <3>2, <3>3, <3>4 DEF ApprovalStep
  <2>4. ASSUME NEW t \in Thread, Claim(t) PROVE Goal
    <3>1. task[t].app \in Approval
      BY <1>2, <2>4 DEF QInv, TypeOK, Claim
    <3>2. CASE Claimable(task[t].app)
      <4>1. Contract!Becomes(task[t].app, "pending", "executing")
        BY <2>4, <3>2 DEF Claim, Claimable, Contract!Becomes, broker
      <4> QED BY <3>1, <4>1, <2>2
    <3>3. CASE ~Claimable(task[t].app)
      BY <2>1, <2>4, <3>3 DEF Claim, broker
    <3> QED BY <3>2, <3>3
  <2>5. ASSUME NEW t \in Thread, Refuse(t) PROVE Goal
    <3>1. task[t].app \in Approval
      BY <1>2, <2>5 DEF QInv, TypeOK, Refuse
    <3>2. CASE approval[task[t].app] = "pending"
      <4>1. Contract!Becomes(task[t].app, "pending", "rejected")
        BY <2>5, <3>2 DEF Refuse, Contract!Becomes, broker
      <4> QED BY <3>1, <4>1, <2>2
    <3>3. CASE approval[task[t].app] # "pending"
      BY <2>0, <2>1, <2>5, <3>1, <3>3 DEF Refuse, broker
    <3> QED BY <3>2, <3>3
  <2>6. ASSUME NEW t \in Thread, Place(t) \/ Record(t) PROVE Goal
    BY <1>2, <2>6, PlaceKeepsContract, RecordKeepsContract
  <2>7. ASSUME NEW t \in Thread,
               \/ Load(t) \/ GiveUp(t) \/ ReadBalance(t) \/ ReadTrades(t)
               \/ ReadApprovals(t) \/ PreOrder(t) \/ SaveTrade(t)
               \/ ClearCache(t) \/ (\E a \in Approval : Begin(t, a))
        PROVE  Goal
    BY <2>1, <2>7 DEF Load, GiveUp, ReadBalance, ReadTrades, ReadApprovals, PreOrder,
      SaveTrade, ClearCache, Begin, rows, broker
  <2>8. CASE \E p \in Process : Crash(p)
    BY <2>1, <2>8 DEF Crash, rows, broker
  <2>9. CASE UNCHANGED vars
    BY <2>1, <2>9 DEF vars
  <2> QED
    BY <1>2, <2>3, <2>4, <2>5, <2>6, <2>7, <2>8, <2>9
       DEF Next, ThreadStep, EnforceLimit, Submit
<1> QED BY <1>1, <1>2, QInvHolds, PTL DEF Spec, ImplementsContract, Contract!Spec

\* The dashboard runs in one process, whose threads share the lock.
OneProcess == \A t, u \in Thread : ProcessOf[t] = ProcessOf[u]

\* With a single process, the lock lets one approval order at a time reach the broker.
THEOREM OneProcessSerialises ==
  ASSUME OneProcess
  PROVE  Spec => []OneOrderAtATime
<1>1. QInv => OneOrderAtATime
  BY DEF QInv, LockOK, OneOrderAtATime, OneProcess
<1> QED BY <1>1, QInvHolds, PTL
-----------------------------------------------------------------------------
(* The position limit, with one process.                                   *)

Working == {a \in Buy : trade[a] = "submitted"}

\* The symbols a thread counted as occupied when it passed the limit.
Occupied(t) == task[t].held \cup task[t].active

\* A buy that passed the limit fits beside every order still on the books.
Fits(t) == /\ SymbolOf[task[t].app] \notin Occupied(t)
           /\ Cardinality(Occupied(t)) < MaxPositions

LimitInv ==
  /\ WorkingBuysWithinLimit
  /\ \A t \in Thread : task[t].app \in Buy =>
       /\ At(t, "approvals") => ActiveBuys \subseteq task[t].active
       /\ task[t].pc \in {"claim", "preorder", "place", "save"}
            => ActiveBuys \subseteq task[t].active /\ Fits(t)

LEMMA SymbolsFinite == IsFiniteSet(Symbol)
<1> DEFINE f == [a \in Approval |-> SymbolOf[a]]
<1>1. f \in Surjection(Approval, Symbol)
  BY DEF Surjection, Symbol
<1> QED BY <1>1, FS_Surjection, ApprovalAssumption

\* Orders of different symbols are no more than the symbols they are among.
LEMMA ApartWithin ==
  ASSUME NEW W \in SUBSET Approval,
         \A a, b \in W : SymbolOf[a] = SymbolOf[b] => a = b,
         NEW S \in SUBSET Symbol, \A a \in W : SymbolOf[a] \in S
  PROVE  /\ Cardinality(W) \in Nat /\ Cardinality(S) \in Nat
         /\ Cardinality(W) <= Cardinality(S)
<1> DEFINE f == [a \in W |-> SymbolOf[a]]
<1>1. f \in Injection(W, S)
  BY DEF Injection, IsInjective
<1>2. IsFiniteSet(S)
  BY SymbolsFinite, FS_Subset
<1>3. IsFiniteSet(W) /\ Cardinality(W) <= Cardinality(S)
  BY <1>1, <1>2, FS_Injection
<1> QED BY <1>2, <1>3, FS_CardinalityType

LEMMA WithinLimit ==
  WorkingBuysWithinLimit <=>
    /\ Cardinality(Working) <= MaxPositions
    /\ \A a, b \in Working : SymbolOf[a] = SymbolOf[b] => a = b
BY DEF WorkingBuysWithinLimit, Working

LEMMA ActiveOfWorking == ActiveBuys = {SymbolOf[a] : a \in Working}
BY DEF ActiveBuys, Working

\* The program points between passing the limit and saving the trade row.
Passed == {"claim", "preorder", "place", "save"}

\* A thread's part of LimitInv carries over: it is not concerned, or has only moved on.
Carries(u) ==
  \/ task'[u].app \notin Buy
  \/ task'[u].pc \notin Passed \cup {"approvals"}
  \/ /\ task'[u].app = task[u].app
     /\ task'[u].held = task[u].held /\ task'[u].active = task[u].active
     /\ task'[u].pc = task[u].pc \/ (task[u].pc \in Passed /\ task'[u].pc \in Passed)

\* As long as no order is added to the books, what the threads have counted stands.
LEMMA LimitKept ==
  ASSUME LimitInv, Working' \subseteq Working, \A u \in Thread : Carries(u)
  PROVE  LimitInv'
<1>1. WorkingBuysWithinLimit'
  <2>1. IsFiniteSet(Working)
    BY FS_Subset, ApprovalAssumption DEF Working
  <2>2. /\ Cardinality(Working') <= Cardinality(Working)
        /\ Cardinality(Working') \in Nat /\ Cardinality(Working) \in Nat
    BY <2>1, FS_Subset, FS_CardinalityType
  <2>3. /\ Cardinality(Working) <= MaxPositions
        /\ \A a, b \in Working : SymbolOf[a] = SymbolOf[b] => a = b
    BY WithinLimit DEF LimitInv
  <2>4. /\ Cardinality(Working') <= MaxPositions
        /\ \A a, b \in Working' : SymbolOf[a] = SymbolOf[b] => a = b
    BY <2>2, <2>3, LimitAssumption
  <2> QED BY <2>4 DEF WorkingBuysWithinLimit, Working
<1>2. ActiveBuys' \subseteq ActiveBuys
  BY DEF ActiveBuys, Working
<1>3. ASSUME NEW u \in Thread, task'[u].app \in Buy
      PROVE  /\ At(u, "approvals")' => ActiveBuys' \subseteq task'[u].active
             /\ task'[u].pc \in Passed => ActiveBuys' \subseteq task'[u].active /\ Fits(u)'
  BY <1>2, <1>3 DEF LimitInv, Carries, Passed, Fits, Occupied
<1> QED BY <1>1, <1>3 DEF LimitInv, Passed

\* With one process, no two threads are past the lock.
LEMMA Alone ==
  ASSUME OneProcess, LockOK, NEW t \in Thread, NEW u \in Thread,
         task[t].pc # "idle", task[u].pc # "idle"
  PROVE  t = u
BY DEF OneProcess, LockOK

\* What the limit allows has room among the positions.
LEMMA AllowedFits ==
  ASSUME NEW a \in Approval, NEW S \in SUBSET Symbol, Allowed(a, S)
  PROVE  SymbolOf[a] \notin S /\ Cardinality(S) < MaxPositions
<1> DEFINE before == {b \in Candidates(S) : b < a}
<1>1. IsFiniteSet(before) /\ IsFiniteSet(S)
  BY FS_Subset, SymbolsFinite, ApprovalAssumption DEF Candidates, PendingBuys
<1>2. Cardinality(before) \in Nat /\ Cardinality(S) \in Nat
  BY <1>1, FS_CardinalityType
<1>3. Cardinality(before) + Cardinality(S) < MaxPositions /\ SymbolOf[a] \notin S
  BY DEF Allowed, Candidates
<1> QED BY <1>2, <1>3, LimitAssumption

\* It keeps what was counted against the position limit.
LEMMA AttemptKeepsCounts ==
  ASSUME NEW tk \in Task, NEW reply, tk.pc = "place"
  PROVE  /\ AfterAttempt(tk, reply).app = tk.app
         /\ AfterAttempt(tk, reply).held = tk.held
         /\ AfterAttempt(tk, reply).active = tk.active
         /\ AfterAttempt(tk, reply).pc \in {"place", "save", "record"}
<1>1. CASE reply \in {"ok", "refused", "error"}
  BY <1>1 DEF AfterAttempt, Task
<1>2. CASE reply = "tick"
  BY <1>2 DEF AfterAttempt, Task
<1>3. CASE reply \notin {"ok", "refused", "error", "tick"}
  <2>1. AfterAttempt(tk, reply) =
          IF tk.tries + 1 < MaxAttempts
            THEN [tk EXCEPT !.tries = tk.tries + 1]
            ELSE [tk EXCEPT !.pc = "record", !.outcome = "failed"]
    BY <1>3 DEF AfterAttempt
  <2> QED BY <2>1 DEF Task
<1> QED BY <1>1, <1>2, <1>3

LEMMA InitLimit == Init => LimitInv
<1> SUFFICES ASSUME Init PROVE LimitInv
  OBVIOUS
<1>1. Working = {}
  BY ApprovalAssumption DEF Init, Working
<1>2. WorkingBuysWithinLimit
  BY <1>1, WithinLimit, FS_EmptySet, LimitAssumption
<1> QED BY <1>2 DEF Init, LimitInv, IdleTask

\* The thread that saves the trade row of a buy adds one symbol to those it counted.
LEMMA SaveKeepsLimit ==
  ASSUME OneProcess, QInv, LimitInv, NEW t \in Thread, SaveTrade(t)
  PROVE  LimitInv'
<1> DEFINE a == task[t].app
<1>1. /\ a \in Approval /\ task[t] \in Task /\ task \in [Thread -> Task]
      /\ trade \in [Approval -> TradeStatus]
      /\ task[t].pc = "save"
  BY DEF QInv, TypeOK, SaveTrade
<1>2. /\ task'[t].pc = "record"
      /\ \A u \in Thread \ {t} : task'[u] = task[u] /\ task[u].pc = "idle"
  <2>1. \A u \in Thread \ {t} : task[u].pc = "idle"
    BY <1>1, Alone DEF QInv
  <2> QED BY <1>1, <2>1 DEF SaveTrade
<1>3. \A u \in Thread : Carries(u)
  BY <1>2 DEF Carries, Passed
<1>4. Working' \subseteq Working \/ (a \in Buy /\ Working' = Working \cup {a})
  BY <1>1, ApprovalAssumption DEF SaveTrade, Working, SavedStatus
<1>5. CASE a \in Buy /\ Working' = Working \cup {a}
  <2>1. ActiveBuys \subseteq Occupied(t) /\ Fits(t)
    BY <1>1, <1>5 DEF LimitInv, Occupied
  <2>2. Occupied(t) \in SUBSET Symbol
    BY <1>1 DEF Task, Occupied
  <2>3. \A b \in Working : SymbolOf[b] \in Occupied(t)
    BY <2>1, ActiveOfWorking
  <2>4. \A b, c \in Working : SymbolOf[b] = SymbolOf[c] => b = c
    BY WithinLimit DEF LimitInv
  <2>5. /\ Cardinality(Working) \in Nat /\ Cardinality(Occupied(t)) \in Nat
        /\ Cardinality(Working) <= Cardinality(Occupied(t))
    BY <2>2, <2>3, <2>4, ApartWithin, ApprovalAssumption, Working \in SUBSET Approval
       DEF Working
  <2>6. IsFiniteSet(Working)
    BY FS_Subset, ApprovalAssumption DEF Working
  <2>7. Cardinality(Working \cup {a}) =
          IF a \in Working THEN Cardinality(Working) ELSE Cardinality(Working) + 1
    <3> HIDE DEF a
    <3> QED BY <2>6, FS_AddElement
  <2>8. Cardinality(Working') <= MaxPositions
    <3>1. Cardinality(Occupied(t)) < MaxPositions
      BY <2>1 DEF Fits
    <3>2. Cardinality(Working \cup {a}) <= MaxPositions
      BY <2>5, <2>7, <3>1, LimitAssumption
    <3> QED BY <1>5, <3>2
  <2>9. \A b, c \in Working' : SymbolOf[b] = SymbolOf[c] => b = c
    BY <1>5, <2>1, <2>3, <2>4 DEF Fits
  <2>10. WorkingBuysWithinLimit'
    BY <2>8, <2>9 DEF WorkingBuysWithinLimit, Working
  <2> QED BY <1>2, <2>10 DEF LimitInv
<1> QED BY <1>3, <1>4, <1>5, LimitKept

LEMMA StepKeepsLimit ==
  ASSUME OneProcess PROVE QInv /\ LimitInv /\ [Next]_vars => LimitInv'
<1> SUFFICES ASSUME QInv, LimitInv, [Next]_vars PROVE LimitInv'
  OBVIOUS
<1>types. task \in [Thread -> Task] /\ trade \in [Approval -> TradeStatus]
  BY DEF QInv, TypeOK
<1>idle. IdleTask.pc \notin Passed \cup {"approvals"}
  BY DEF IdleTask, Passed
<1>1. ASSUME NEW t \in Thread, SaveTrade(t) PROVE LimitInv'
  BY <1>1, SaveKeepsLimit
<1>2. ASSUME NEW t \in Thread, ReadTrades(t) PROVE LimitInv'
  <2>1. /\ UNCHANGED trade
        /\ \A u \in Thread \ {t} : Carries(u)
        /\ task'[t].active = ActiveBuys /\ task'[t].pc = "approvals"
    BY <1>2, <1>types DEF ReadTrades, rows, Carries
  <2>2. WorkingBuysWithinLimit' /\ ActiveBuys' = ActiveBuys
    BY <2>1 DEF LimitInv, WorkingBuysWithinLimit, ActiveBuys
  <2> QED BY <2>1, <2>2 DEF LimitInv, Carries, Passed, Fits, Occupied
<1>3. ASSUME NEW t \in Thread, ReadApprovals(t) PROVE LimitInv'
  <2> DEFINE a == task[t].app
  <2>1. /\ UNCHANGED trade
        /\ \A u \in Thread \ {t} : Carries(u)
        /\ task'[t].app = a /\ task'[t].held = task[t].held
        /\ task'[t].active = task[t].active
        /\ task'[t].pc = IF Allowed(a, Occupied(t)) THEN "claim" ELSE "refuse"
        /\ task[t].pc = "approvals"
    BY <1>3, <1>types DEF ReadApprovals, GoTo, rows, Carries, Occupied
  <2>2. WorkingBuysWithinLimit' /\ ActiveBuys' = ActiveBuys
    BY <2>1 DEF LimitInv, WorkingBuysWithinLimit, ActiveBuys
  <2>3. a \in Approval /\ Occupied(t) \in SUBSET Symbol
    BY <2>1, <1>types DEF QInv, TypeOK, Occupied, Task
  <2>4. Allowed(a, Occupied(t)) => Fits(t)
    BY <2>3, AllowedFits DEF Fits
  <2>5. a \in Buy => ActiveBuys \subseteq task[t].active
    BY <2>1 DEF LimitInv
  <2> QED BY <2>1, <2>2, <2>4, <2>5 DEF LimitInv, Carries, Passed, Fits, Occupied
<1>4. ASSUME NEW t \in Thread,
             \/ Claim(t) \/ PreOrder(t) \/ Place(t)
      PROVE  LimitInv'
  <2>1. UNCHANGED trade
    BY <1>4 DEF Claim, PreOrder, Place, rows
  <2>2. \A u \in Thread \ {t} : task'[u] = task[u]
    BY <1>4, <1>types DEF Claim, PreOrder, Place, GoTo, Leave
  <2>3. Carries(t)
    <3>1. CASE Claim(t) \/ PreOrder(t)
      BY <3>1, <1>types, <1>idle DEF Claim, PreOrder, GoTo, Leave, Carries, Passed, Task
    <3>2. CASE Place(t)
      <4>1. PICK reply \in {"ok", "refused", "error", "tick", "lost"} :
              task' = [task EXCEPT ![t] = AfterAttempt(@, reply)]
        BY <3>2 DEF Place
      <4>2. /\ task[t].pc = "place" /\ task[t] \in Task
            /\ task'[t] = AfterAttempt(task[t], reply)
        BY <3>2, <4>1, <1>types DEF Place
      <4>3. /\ AfterAttempt(task[t], reply).app = task[t].app
            /\ AfterAttempt(task[t], reply).held = task[t].held
            /\ AfterAttempt(task[t], reply).active = task[t].active
            /\ AfterAttempt(task[t], reply).pc \in {"place", "save", "record"}
        BY <4>2, AttemptKeepsCounts
      <4> QED BY <4>2, <4>3 DEF Carries, Passed
    <3> QED BY <1>4, <3>1, <3>2
  <2>4. Working' \subseteq Working
    BY <2>1 DEF Working
  <2>5. \A u \in Thread : Carries(u)
    BY <2>2, <2>3 DEF Carries
  <2> QED BY <2>4, <2>5, LimitKept
<1>5. ASSUME NEW t \in Thread,
             \/ Load(t) \/ GiveUp(t) \/ ReadBalance(t) \/ Refuse(t) \/ Record(t)
             \/ ClearCache(t) \/ (\E a \in Approval : Begin(t, a))
      PROVE  LimitInv'
  <2>1. UNCHANGED trade
    BY <1>5 DEF Load, GiveUp, ReadBalance, Refuse, Record, ClearCache, Begin, rows
  <2>2. \A u \in Thread \ {t} : task'[u] = task[u]
    BY <1>5, <1>types DEF Load, GiveUp, ReadBalance, Refuse, Record, ClearCache, Begin,
      GoTo, Leave
  <2>3. Carries(t)
    <3>1. CASE Load(t)
      BY <3>1, <1>types, <1>idle DEF Load, GoTo, Leave, Carries, Passed, Task
    <3>2. CASE ReadBalance(t)
      BY <3>2, <1>types DEF ReadBalance, Carries, Passed, Task
    <3>3. CASE \E a \in Approval : Begin(t, a)
      BY <3>3, <1>types DEF Begin, IdleTask, Carries, Passed
    <3>4. CASE GiveUp(t) \/ Refuse(t) \/ Record(t) \/ ClearCache(t)
      BY <3>4, <1>types, <1>idle DEF GiveUp, Refuse, Record, ClearCache, GoTo, Leave, Carries,
        Passed, Task
    <3> QED BY <1>5, <3>1, <3>2, <3>3, <3>4
  <2>4. Working' \subseteq Working
    BY <2>1 DEF Working
  <2>5. \A u \in Thread : Carries(u)
    BY <2>2, <2>3 DEF Carries
  <2> QED BY <2>4, <2>5, LimitKept
<1>6. ASSUME NEW a \in Approval, ApprovalStep(a) PROVE LimitInv'
  <2>1. UNCHANGED task
    BY <1>6 DEF ApprovalStep, Queue, Reject, Reclaim, SyncTrade, BrokerFill, BrokerEnd
  <2>2. trade' = trade \/ \E st \in {"filled", "canceled"} : trade' = [trade EXCEPT ![a] = st]
    BY <1>6 DEF ApprovalStep, Queue, Reject, Reclaim, SyncTrade, BrokerFill, BrokerEnd, rows
  <2>3. Working' \subseteq Working
    BY <2>2, <1>types, ApprovalAssumption DEF Working
  <2> QED BY <2>1, <2>3, LimitKept DEF Carries
<1>7. ASSUME NEW p \in Process, Crash(p) PROVE LimitInv'
  <2>1. UNCHANGED trade /\ \A u \in Thread : Carries(u)
    BY <1>7, <1>idle DEF Crash, rows, Carries
  <2>2. Working' \subseteq Working
    BY <2>1 DEF Working
  <2> QED BY <2>1, <2>2, LimitKept
<1>8. CASE UNCHANGED vars
  <2>1. Working' \subseteq Working /\ UNCHANGED task
    BY <1>8 DEF vars, Working
  <2> QED BY <2>1, LimitKept DEF Carries
<1> QED
  BY <1>1, <1>2, <1>3, <1>4, <1>5, <1>6, <1>7, <1>8
     DEF Next, ThreadStep, EnforceLimit, Submit

\* With a single process, the buy orders on the books never exceed MAX_POSITIONS and are
\* of different symbols: the thread that holds the lock read them, counted them, and no
\* other thread can add one until it has saved its own.
THEOREM PositionLimitHolds == OneProcess => (Spec => []WorkingBuysWithinLimit)
<1> SUFFICES ASSUME OneProcess PROVE Spec => []WorkingBuysWithinLimit
  OBVIOUS
<1>1. Init => LimitInv
  BY InitLimit
<1>2. QInv /\ LimitInv /\ [Next]_vars => LimitInv'
  BY StepKeepsLimit
<1>3. LimitInv => WorkingBuysWithinLimit
  BY DEF LimitInv
<1> QED BY <1>1, <1>2, <1>3, QInvHolds, PTL DEF Spec
=============================================================================
