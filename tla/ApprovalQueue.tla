---------------------------- MODULE ApprovalQueue ----------------------------
(***************************************************************************)
(* The dashboard's approval queue, from a pending approval to the order at *)
(* the broker: dashboard routes, the periodic sweeper and scheduler jobs   *)
(* approve, the dashboard rejects, the sweeper reclaims what a stopped     *)
(* process left behind, and order synchronisation updates the trade rows.  *)
(*                                                                         *)
(* The threads of one process share its submission lock; threads of other  *)
(* processes share only the database, the balance cache file and the       *)
(* broker.  Every SELECT, UPDATE and broker call is one step.  Order       *)
(* submission is enabled (a dry run does not reach the broker), and the    *)
(* approvals are not those of managed orders, which ManagedOrders models.  *)
(***************************************************************************)
EXTENDS Naturals, FiniteSets

CONSTANTS
  Approval,      \* ids of the approvals of one day, in the order of insertion
  Buy,           \* the approvals whose action is "buy"; the others are "sell"
  SymbolOf,      \* the symbol of each approval
  Thread,        \* threads that approve
  ProcessOf,     \* the process of each thread
  NoThread,      \* the value of a lock that is free
  NoCache,       \* the balance cache is empty
  MaxPositions,  \* setting MAX_POSITIONS
  MaxAttempts,   \* attempts of one place_order call
  MaxCrashes     \* bound: process crashes in a behaviour

Process == {ProcessOf[t] : t \in Thread}
Symbol  == {SymbolOf[a] : a \in Approval}

ASSUME ApprovalAssumption == /\ Approval \subseteq Nat \ {0}
                             /\ IsFiniteSet(Approval)
                             /\ Buy \subseteq Approval
ASSUME ThreadAssumption == NoThread \notin Thread
ASSUME LimitAssumption == /\ MaxPositions \in Nat
                          /\ MaxAttempts \in Nat \ {0}
                          /\ MaxCrashes \in Nat

VARIABLES
  approval,   \* approval[a]: status of the row, or "absent"
  trade,      \* trade[a]: order_status of the trade row saved for a, or "none"
  placed,     \* placed[a]: orders the broker has accepted for a
  bkState,    \* bkState[a]: state, at the broker, of the latest of them
  holdings,   \* symbols the account holds
  cache,      \* the balance cache file: the holdings when it was written
  lock,       \* lock[p]: the thread that holds p's _approval_submission_lock
  task,       \* task[t]: local variables of the approval t is working on
  crashes

rows == <<approval, trade>>
broker == <<placed, bkState, holdings>>
vars == <<approval, trade, placed, bkState, holdings, cache, lock, task, crashes>>

ApprovalStatus == {"absent", "pending", "executing", "executed", "failed", "rejected"}
TradeStatus    == {"none", "submitted", "filled", "canceled", "failed"}
BkState        == {"none", "working", "filled", "canceled"}
Pc == {"idle", "load", "balance", "trades", "approvals", "refuse", "claim",
       "preorder", "place", "save", "record", "clear"}

IdleTask == [pc |-> "idle", app |-> 0, held |-> {}, active |-> {}, tries |-> 0,
             adjusted |-> FALSE, outcome |-> "failed"]

Task == [pc : Pc, app : Approval \cup {0}, held : SUBSET Symbol, active : SUBSET Symbol,
         tries : Nat, adjusted : BOOLEAN, outcome : {"executed", "failed"}]

At(t, pc) == task[t].pc = pc

TypeOK ==
  /\ approval \in [Approval -> ApprovalStatus]
  /\ trade \in [Approval -> TradeStatus]
  /\ placed \in [Approval -> Nat]
  /\ bkState \in [Approval -> BkState]
  /\ holdings \subseteq Symbol
  /\ cache \in (SUBSET Symbol) \cup {NoCache}
  /\ lock \in [Process -> Thread \cup {NoThread}]
  /\ task \in [Thread -> Task]
  /\ \A t \in Thread : task[t].pc = "idle" \/ task[t].app \in Approval
  /\ crashes \in Nat

Init ==
  /\ approval = [a \in Approval |-> "absent"]
  /\ trade = [a \in Approval |-> "none"]
  /\ placed = [a \in Approval |-> 0]
  /\ bkState = [a \in Approval |-> "none"]
  /\ holdings = {}
  /\ cache = NoCache
  /\ lock = [p \in Process |-> NoThread]
  /\ task = [t \in Thread |-> IdleTask]
  /\ crashes = 0

-----------------------------------------------------------------------------
(* Entering and leaving the serialised path.                               *)

GoTo(t, pc) == task' = [task EXCEPT ![t].pc = pc]

Leave(t) == /\ task' = [task EXCEPT ![t] = IdleTask]
            /\ lock' = [lock EXCEPT ![ProcessOf[t]] = NoThread]

\* (mutant) the wrapper calls the serialised function without the lock
LockIgnored(t) == TRUE

LockFree(t) == lock[ProcessOf[t]] = NoThread

\* A route, the sweeper or a scheduler job picks an approval and takes the lock.
Begin(t, a) ==
  /\ At(t, "idle")
  /\ approval[a] # "absent"
  /\ LockFree(t)
  /\ lock' = [lock EXCEPT ![ProcessOf[t]] = t]
  /\ task' = [task EXCEPT ![t] = [IdleTask EXCEPT !.pc = "load", !.app = a]]
  /\ UNCHANGED <<rows, broker, cache, crashes>>

\* Only a pending approval goes on; a buy goes through the position limit first.
Load(t) ==
  LET a == task[t].app IN
  /\ At(t, "load")
  /\ IF approval[a] = "pending"
       THEN GoTo(t, IF a \in Buy THEN "balance" ELSE "claim") /\ UNCHANGED lock
       ELSE Leave(t)
  /\ UNCHANGED <<rows, broker, cache, crashes>>

\* Online access is blocked, the kill switch is on, or the balance query fails:
\* the approval stays pending.
GiveUp(t) ==
  /\ task[t].pc \in {"load", "balance"}
  /\ Leave(t)
  /\ UNCHANGED <<rows, broker, cache, crashes>>

-----------------------------------------------------------------------------
(* _enforce_buy_position_limit(): balance, trade rows, approvals.          *)

\* A cached balance serves while it is young, or whatever its age when the query
\* fails; otherwise the answer is fetched and cached.
BalanceData == {holdings} \cup ({cache} \ {NoCache})

ReadBalance(t) ==
  /\ At(t, "balance")
  /\ \E data \in BalanceData :
       /\ cache' = data
       /\ task' = [task EXCEPT ![t].held = data, ![t].pc = "trades"]
  /\ UNCHANGED <<rows, broker, lock, crashes>>

\* "submitted" stands for the statuses of an order on the books (submitted, open,
\* partial).
ActiveBuys == {SymbolOf[a] : a \in {b \in Buy : trade[b] = "submitted"}}

ReadTrades(t) ==
  /\ At(t, "trades")
  /\ task' = [task EXCEPT ![t].active = ActiveBuys, ![t].pc = "approvals"]
  /\ UNCHANGED <<rows, broker, cache, lock, crashes>>

PendingBuys == {a \in Buy : approval[a] \in {"pending", "executing"}}

\* The approvals that may take a position, at most one per symbol.
Candidates(occupied) ==
  {a \in PendingBuys :
     /\ SymbolOf[a] \notin occupied
     /\ \A b \in PendingBuys : b < a => SymbolOf[b] # SymbolOf[a]}

\* Free positions go to the candidates in the order of their ids.
Allowed(a, occupied) ==
  /\ a \in Candidates(occupied)
  /\ Cardinality({b \in Candidates(occupied) : b < a}) + Cardinality(occupied)
       < MaxPositions

ReadApprovals(t) ==
  /\ At(t, "approvals")
  /\ GoTo(t, IF Allowed(task[t].app, task[t].held \cup task[t].active)
               THEN "claim" ELSE "refuse")
  /\ UNCHANGED <<rows, broker, cache, lock, crashes>>

Refuse(t) ==
  LET a == task[t].app IN
  /\ At(t, "refuse")
  /\ approval' = [approval EXCEPT ![a] = IF @ = "pending" THEN "rejected" ELSE @]
  /\ Leave(t)
  /\ UNCHANGED <<trade, broker, cache, crashes>>

-----------------------------------------------------------------------------
(* Claim, submission, trade row, final status.                             *)

\* (mutant) the claim has lost its "AND status = 'pending'"
ClaimableBlind(a) == approval[a] # "absent"

Claimable(a) == approval[a] = "pending"

Claim(t) ==
  LET a == task[t].app IN
  /\ At(t, "claim")
  /\ IF Claimable(a)
       THEN /\ approval' = [approval EXCEPT ![a] = "executing"]
            /\ GoTo(t, "preorder")
            /\ UNCHANGED lock
       ELSE Leave(t) /\ UNCHANGED approval
  /\ UNCHANGED <<trade, broker, cache, crashes>>

\* The quantity held before the order is read for the trade row.
PreOrder(t) ==
  /\ At(t, "preorder")
  /\ cache' \in BalanceData \cup {cache}
  /\ GoTo(t, "place")
  /\ UNCHANGED <<rows, broker, lock, crashes>>

\* What an attempt leads to.  A lost answer is an exception, which the HTTP client
\* retries; a price off the tick grid is adjusted once and ordered again.
AfterAttempt(tk, reply) ==
  CASE reply = "ok"      -> [tk EXCEPT !.pc = "save", !.outcome = "executed"]
    [] reply = "refused" -> [tk EXCEPT !.pc = "save", !.outcome = "failed"]
    [] reply = "error"   -> [tk EXCEPT !.pc = "record", !.outcome = "failed"]
    [] reply = "tick"    -> IF tk.adjusted
                              THEN [tk EXCEPT !.pc = "save", !.outcome = "failed"]
                              ELSE [tk EXCEPT !.tries = 0, !.adjusted = TRUE]
    [] OTHER             -> IF tk.tries + 1 < MaxAttempts
                              THEN [tk EXCEPT !.tries = tk.tries + 1]
                              ELSE [tk EXCEPT !.pc = "record", !.outcome = "failed"]

Place(t) ==
  LET a == task[t].app IN
  /\ At(t, "place")
  /\ \E reply \in {"ok", "refused", "error", "tick", "lost"}, accepted \in BOOLEAN :
       /\ reply = "ok" => accepted
       /\ reply \in {"refused", "error", "tick"} => ~accepted
       /\ IF accepted
            THEN /\ placed' = [placed EXCEPT ![a] = @ + 1]
                 /\ bkState' = [bkState EXCEPT ![a] = "working"]
            ELSE UNCHANGED <<placed, bkState>>
       /\ task' = [task EXCEPT ![t] = AfterAttempt(@, reply)]
  /\ UNCHANGED <<rows, holdings, cache, lock, crashes>>

\* (mutant) the approval's status goes into the trade row
SavedAsApproval(outcome) == outcome

SavedStatus(outcome) == IF outcome = "executed" THEN "submitted" ELSE "failed"

\* save_trade() logs a database error and returns, without a row or with one; any
\* other exception makes the approval failed.
SaveTrade(t) ==
  LET a == task[t].app IN
  /\ At(t, "save")
  /\ trade' \in {trade, [trade EXCEPT ![a] = SavedStatus(task[t].outcome)]}
  /\ \E outcome \in {task[t].outcome, "failed"} :
       task' = [task EXCEPT ![t].pc = "record", ![t].outcome = outcome]
  /\ UNCHANGED <<approval, broker, cache, lock, crashes>>

\* (mutant) an exception is taken for a success
RecordedHopeful(outcome) == "executed"

Recorded(outcome) == outcome

\* The final status is written whatever the row's status is by now.
Record(t) ==
  LET a == task[t].app IN
  /\ At(t, "record")
  /\ approval' = [approval EXCEPT ![a] = Recorded(task[t].outcome)]
  /\ IF task[t].outcome = "executed" THEN GoTo(t, "clear") /\ UNCHANGED lock
                                     ELSE Leave(t)
  /\ UNCHANGED <<trade, broker, cache, crashes>>

ClearCache(t) ==
  /\ At(t, "clear")
  /\ cache' = NoCache
  /\ Leave(t)
  /\ UNCHANGED <<rows, broker, crashes>>

-----------------------------------------------------------------------------
(* What else moves approvals, trade rows and orders.                       *)

\* A strategy run queues an order for approval.
Queue(a) ==
  /\ approval[a] = "absent"
  /\ \A b \in Approval : b < a => approval[b] # "absent"
  /\ approval' = [approval EXCEPT ![a] = "pending"]
  /\ UNCHANGED <<trade, broker, cache, lock, task, crashes>>

\* (mutant) the dashboard rejects whatever it has loaded
RejectableBlind(a) == approval[a] \in {"pending", "executing"}

Rejectable(a) == approval[a] = "pending"

Reject(a) ==
  /\ Rejectable(a)
  /\ approval' = [approval EXCEPT ![a] = "rejected"]
  /\ UNCHANGED <<trade, broker, cache, lock, task, crashes>>

\* (mutant) what was interrupted is tried again
ReclaimedAgain == "pending"

Reclaimed == "failed"

\* The thread that has claimed an approval and not yet written its final status.
Claimer(t, a) == /\ task[t].pc \in {"preorder", "place", "save", "record"}
                 /\ task[t].app = a

\* (mutant) the sweeper looks for a status that no claim writes
AbandonedPending(a) == approval[a] = "failed"

\* "executing" for 600 seconds, longer than a live thread takes (three attempts of
\* 15 seconds, twice): its thread is gone.
Abandoned(a) == approval[a] = "executing" /\ \A t \in Thread : ~Claimer(t, a)

\* The sweeper gives up what was abandoned.
Reclaim(a) ==
  /\ Abandoned(a)
  /\ approval' = [approval EXCEPT ![a] = Reclaimed]
  /\ UNCHANGED <<trade, broker, cache, lock, task, crashes>>

\* Order synchronisation copies the end of an order from the trade history.
SyncTrade(a) ==
  /\ trade[a] = "submitted"
  /\ bkState[a] \in {"filled", "canceled"}
  /\ trade' = [trade EXCEPT ![a] = bkState[a]]
  /\ UNCHANGED <<approval, broker, cache, lock, task, crashes>>

BrokerFill(a) ==
  /\ bkState[a] = "working"
  /\ bkState' = [bkState EXCEPT ![a] = "filled"]
  /\ holdings' = IF a \in Buy THEN holdings \cup {SymbolOf[a]}
                              ELSE holdings \ {SymbolOf[a]}
  /\ UNCHANGED <<rows, placed, cache, lock, task, crashes>>

BrokerEnd(a) ==
  /\ bkState[a] = "working"
  /\ bkState' = [bkState EXCEPT ![a] = "canceled"]
  /\ UNCHANGED <<rows, placed, holdings, cache, lock, task, crashes>>

\* A process stops: its threads and its lock are gone.
Crash(p) ==
  /\ crashes < MaxCrashes
  /\ crashes' = crashes + 1
  /\ task' = [t \in Thread |-> IF ProcessOf[t] = p THEN IdleTask ELSE task[t]]
  /\ lock' = [lock EXCEPT ![p] = NoThread]
  /\ UNCHANGED <<rows, broker, cache>>

-----------------------------------------------------------------------------
EnforceLimit(t) == ReadBalance(t) \/ ReadTrades(t) \/ ReadApprovals(t) \/ Refuse(t)

Submit(t) == \/ Claim(t) \/ PreOrder(t) \/ Place(t) \/ SaveTrade(t)
             \/ Record(t) \/ ClearCache(t)

ThreadStep(t) == Load(t) \/ GiveUp(t) \/ EnforceLimit(t) \/ Submit(t)

ApprovalStep(a) == \/ Queue(a) \/ Reject(a) \/ Reclaim(a) \/ SyncTrade(a)
                   \/ BrokerFill(a) \/ BrokerEnd(a)

Next ==
  \/ \E t \in Thread : ThreadStep(t) \/ (\E a \in Approval : Begin(t, a))
  \/ \E a \in Approval : ApprovalStep(a)
  \/ \E p \in Process : Crash(p)

Spec == Init /\ [][Next]_vars

\* A thread that has begun goes on, and the sweeper comes by every 15 seconds.
Fairness == /\ \A t \in Thread : WF_vars(ThreadStep(t))
            /\ \A a \in Approval : WF_vars(Reclaim(a))

FairSpec == Spec /\ Fairness

-----------------------------------------------------------------------------
(* Properties.                                                             *)

\* An approval is submitted at most once: whatever several threads, processes, the
\* sweeper and crashes do, the broker accepts for it only what the retries of the one
\* place_order call, and of its repetition with an adjusted price, can amount to.
\* (The first call ends in a tick-size answer, so not all its attempts count.)
SubmittedOnce == \A a \in Approval : placed[a] <= 2 * MaxAttempts - 1

\* What the row says is what happened at the broker: an approval that was rejected, by
\* the operator or by the position limit, has never reached it, whoever was approving it
\* meanwhile; and for an "executed" one the broker has accepted an order, although the
\* final status is written without a condition on the one it replaces.
PlacedAsDecided ==
  \A a \in Approval : /\ approval[a] = "rejected" => placed[a] = 0
                      /\ approval[a] = "executed" => placed[a] > 0

\* The queue keeps the contract of ApprovalContract: one decision per approval, orders
\* at the broker only between the claim and the end, although the final status is
\* written without a condition and other processes sweep, reject and approve meanwhile.
Contract == INSTANCE ApprovalContract
              WITH MaxOrders <- 2 * MaxAttempts - 1, status <- approval, orders <- placed

ImplementsContract == Contract!Spec

\* The buy orders on the books (trade rows still submitted) never exceed
\* MAX_POSITIONS, and no symbol has two of them.  This takes the lock: a thread reads
\* trade rows and approvals one after the other and acts on both later.
WorkingBuysWithinLimit ==
  LET working == {a \in Buy : trade[a] = "submitted"} IN
  /\ Cardinality(working) <= MaxPositions
  /\ \A a, b \in working : SymbolOf[a] = SymbolOf[b] => a = b

\* KIS sees one approval order at a time.
OneOrderAtATime == \A t, u \in Thread : At(t, "place") /\ At(u, "place") => t = u

\* An approval does not stay "executing" for ever, even if its process stops.
ClaimEnds == \A a \in Approval : approval[a] = "executing" ~> approval[a] # "executing"
=============================================================================
