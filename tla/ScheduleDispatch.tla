-------------------------- MODULE ScheduleDispatch --------------------------
(***************************************************************************)
(* The dispatcher of the domestic strategy schedules.                      *)
(*                                                                         *)
(* cron starts strategy-dispatch.sh every ten minutes.  Under a lock file  *)
(* it shares with the daily full cycle it reads the enabled rows of        *)
(* strategy_schedules, replaces the AI slot by the strategies applied in   *)
(* the AI screen, runs what is due one strategy after the other and marks  *)
(* the row of each one that did not fail.  The dashboard saves rows from   *)
(* copies it loaded, and changes the strategies applied to the AI slot.    *)
(*                                                                         *)
(* Time is kept as ages: a row's last_run_at is so many ticks ago, and an  *)
(* age that has reached the longest interval stands for all older ones and *)
(* for a row that never ran.  A tick is longer than the two minutes by     *)
(* which is_schedule_due anticipates an interval.  Rows are those whose    *)
(* weekdays and hours include the present.                                 *)
(***************************************************************************)
EXTENDS Naturals

CONSTANTS
  Fixed,        \* schedules that run the strategy they are named for
  Slot,         \* the schedule of the AI strategies
  Applicable,   \* strategies that can be applied to it
  Priority,     \* the fixed strategies that are dispatched before all others
  Clerks,       \* dashboard requests that save a schedule
  Dispatchers,  \* processes of strategy-dispatch.sh
  MaxInterval,  \* the longest interval, in ticks
  MaxFaults,    \* crashes of a job and errors of the database
  None

Schedules  == Fixed \cup {Slot}
Strategies == Fixed \cup Applicable

ASSUME ScheduleAssumption ==
  /\ Slot \notin Fixed /\ Priority \subseteq Fixed
  /\ Fixed \cap Applicable = {} /\ Slot \notin Applicable
  /\ None \notin Strategies \cup Dispatchers \cup {"daily"}
  /\ None \notin [enabled : BOOLEAN, interval : 1 .. MaxInterval, age : 0 .. MaxInterval,
                  schedule : Schedules]
  /\ "daily" \notin Dispatchers
  /\ MaxInterval \in Nat \ {0} /\ MaxFaults \in Nat

VARIABLES
  row,      \* strategy_schedules
  applied,  \* the selected strategies that are not halted
  lock,     \* who holds domestic-scheduler.lock
  pc,       \* where each dispatcher is
  todo,     \* what each dispatcher has yet to run
  on,       \* the strategy it runs
  edit,     \* the copy each dashboard request has loaded
  faults,   \* faults left
  wait      \* history: ticks a strategy that was marked is to rest

vars == <<row, applied, lock, pc, todo, on, edit, faults, wait>>

Row  == [enabled : BOOLEAN, interval : 1 .. MaxInterval, age : 0 .. MaxInterval]
Copy == [enabled : BOOLEAN, interval : 1 .. MaxInterval, age : 0 .. MaxInterval,
         schedule : Schedules]

Owner(s) == IF s \in Fixed THEN s ELSE Slot   \* _schedule_strategy_id

\* rows as an operator has enabled them, none of which ever ran
Init ==
  /\ row = [c \in Schedules |-> [enabled |-> TRUE, interval |-> MaxInterval, age |-> MaxInterval]]
  /\ applied = Applicable
  /\ lock = None
  /\ pc = [d \in Dispatchers |-> "off"]
  /\ todo = [d \in Dispatchers |-> {}]
  /\ on = [d \in Dispatchers |-> None]
  /\ edit = [k \in Clerks |-> None]
  /\ faults = MaxFaults
  /\ wait = [s \in Strategies |-> 0]

Spend == faults > 0 /\ faults' = faults - 1

-----------------------------------------------------------------------------
(* strategy-dispatch.sh and dispatch_due_schedules *)

TakeLockOfItsOwn(d) ==
  /\ pc[d] = "off"
  /\ lock' = d
  /\ pc' = [pc EXCEPT ![d] = "planning"]
  /\ UNCHANGED <<row, applied, todo, on, edit, faults, wait>>

\* flock -n: a dispatcher that does not get the lock ends at once
TakeLock(d) ==
  /\ pc[d] = "off"
  /\ lock = None
  /\ lock' = d
  /\ pc' = [pc EXCEPT ![d] = "planning"]
  /\ UNCHANGED <<row, applied, todo, on, edit, faults, wait>>

Due(c) == row[c].enabled /\ row[c].age >= row[c].interval

\* The schedules that are due are fixed here, from the rows as they are now.
Plan(d) ==
  /\ pc[d] = "planning"
  /\ todo' = [todo EXCEPT ![d] = {c \in Fixed : Due(c)}]
  /\ pc' = [pc EXCEPT ![d] = IF Due(Slot) THEN "resolving" ELSE "choosing"]
  /\ UNCHANGED <<row, applied, lock, on, edit, faults, wait>>

\* The slot stands for the strategies that are applied when it is looked up, and for
\* none if the catalog cannot be read.
Resolve(d) ==
  /\ pc[d] = "resolving"
  /\ \/ /\ todo' = [todo EXCEPT ![d] = @ \cup applied]
        /\ UNCHANGED faults
     \/ Spend /\ UNCHANGED todo
  /\ pc' = [pc EXCEPT ![d] = "choosing"]
  /\ UNCHANGED <<row, applied, lock, on, edit, wait>>

\* the strategies with a priority first
RunStarts(d, s) ==
  /\ pc[d] = "choosing"
  /\ s \in todo[d]
  /\ todo[d] \cap Priority # {} => s \in Priority
  /\ todo' = [todo EXCEPT ![d] = @ \ {s}]
  /\ on' = [on EXCEPT ![d] = s]
  /\ pc' = [pc EXCEPT ![d] = "running"]
  /\ UNCHANGED <<row, applied, lock, edit, faults, wait>>

\* A run that reports a failure, or raises, leaves the row as it is.
RunFails(d) ==
  /\ pc[d] = "running"
  /\ on' = [on EXCEPT ![d] = None]
  /\ pc' = [pc EXCEPT ![d] = "choosing"]
  /\ UNCHANGED <<row, applied, lock, todo, edit, faults, wait>>

RunDone(d) ==
  /\ pc[d] = "running"
  /\ pc' = [pc EXCEPT ![d] = "marking"]
  /\ UNCHANGED <<row, applied, lock, todo, on, edit, faults, wait>>

MarkedRowOfItsOwn(s) == s   \* an applied strategy has no row

MarkedRow(s) == Owner(s)

\* mark_strategy_schedule_run touches last_run_at alone; an error of the database
\* makes it a failed run.
Mark(d) ==
  LET s == on[d] IN
  /\ pc[d] = "marking"
  /\ \/ /\ row' = [c \in Schedules |-> IF c = MarkedRow(s) THEN [row[c] EXCEPT !.age = 0]
                                       ELSE row[c]]
        /\ wait' = [wait EXCEPT ![s] = row[Owner(s)].interval]
        /\ UNCHANGED faults
     \/ /\ Spend
        /\ UNCHANGED <<row, wait>>
  /\ on' = [on EXCEPT ![d] = None]
  /\ pc' = [pc EXCEPT ![d] = "choosing"]
  /\ UNCHANGED <<applied, lock, todo, edit>>

Finish(d) ==
  /\ pc[d] = "choosing"
  /\ todo[d] = {}
  /\ lock' = None
  /\ pc' = [pc EXCEPT ![d] = "off"]
  /\ UNCHANGED <<row, applied, todo, on, edit, faults, wait>>

\* without flock the lock is a directory, which a killed script leaves behind
CrashLeavesLock(d) ==
  /\ pc[d] # "off"
  /\ Spend
  /\ pc' = [pc EXCEPT ![d] = "off"]
  /\ todo' = [todo EXCEPT ![d] = {}]
  /\ on' = [on EXCEPT ![d] = None]
  /\ UNCHANGED <<row, applied, lock, edit, wait>>

\* The kernel drops the lock of a job that dies.
Crash(d) ==
  /\ pc[d] # "off"
  /\ Spend
  /\ lock' = None
  /\ pc' = [pc EXCEPT ![d] = "off"]
  /\ todo' = [todo EXCEPT ![d] = {}]
  /\ on' = [on EXCEPT ![d] = None]
  /\ UNCHANGED <<row, applied, edit, wait>>

Dispatch(d) == \/ Plan(d) \/ Resolve(d) \/ RunFails(d) \/ RunDone(d) \/ Mark(d) \/ Finish(d)
               \/ \E s \in Strategies : RunStarts(d, s)

-----------------------------------------------------------------------------
(* daily-auto.sh, the other holder of the lock *)

DailyStarts == /\ lock = None
               /\ lock' = "daily"
               /\ UNCHANGED <<row, applied, pc, todo, on, edit, faults, wait>>

DailyEnds == /\ lock = "daily"
             /\ lock' = None
             /\ UNCHANGED <<row, applied, pc, todo, on, edit, faults, wait>>

-----------------------------------------------------------------------------
(* The dashboard *)

EditLoads(k, c) ==
  /\ edit[k] = None
  /\ edit' = [edit EXCEPT ![k] = [enabled |-> row[c].enabled, interval |-> row[c].interval,
                                  age |-> row[c].age, schedule |-> c]]
  /\ UNCHANGED <<row, applied, lock, pc, todo, on, faults, wait>>

\* save_strategy_schedule replaces the row by the copy with the new fields,
\* last_run_at as it was loaded.
EditSaves(k) ==
  LET copy == edit[k] IN
  /\ copy # None
  /\ \E enabled \in BOOLEAN, interval \in 1 .. MaxInterval :
       row' = [row EXCEPT ![copy.schedule] = [enabled |-> enabled, interval |-> interval,
                                              age |-> copy.age]]
  /\ edit' = [edit EXCEPT ![k] = None]
  /\ wait' = [s \in Strategies |-> IF Owner(s) = copy.schedule THEN 0 ELSE wait[s]]
  /\ UNCHANGED <<applied, lock, pc, todo, on, faults>>

\* strategies are applied to the slot, taken from it, halted
Apply == /\ applied' \in SUBSET Applicable
         /\ UNCHANGED <<row, lock, pc, todo, on, edit, faults, wait>>

-----------------------------------------------------------------------------
Older(age) == IF age < MaxInterval THEN age + 1 ELSE age

Tick ==
  /\ row' = [c \in Schedules |-> [row[c] EXCEPT !.age = Older(@)]]
  /\ edit' = [k \in Clerks |-> IF edit[k] = None THEN None ELSE [edit[k] EXCEPT !.age = Older(@)]]
  /\ wait' = [s \in Strategies |-> IF wait[s] > 0 THEN wait[s] - 1 ELSE 0]
  /\ UNCHANGED <<applied, lock, pc, todo, on, faults>>

Next ==
  \/ \E d \in Dispatchers : TakeLock(d) \/ Dispatch(d) \/ Crash(d)
  \/ DailyStarts \/ DailyEnds
  \/ \E k \in Clerks : EditSaves(k) \/ \E c \in Schedules : EditLoads(k, c)
  \/ Apply
  \/ Tick

Spec == Init /\ [][Next]_vars

\* A job runs until it ends; cron tries the dispatcher every ten minutes, the full
\* cycle twice a day; time passes.
FairSpec == /\ Spec
            /\ \A d \in Dispatchers : WF_vars(Dispatch(d))
            /\ SF_vars(\E d \in Dispatchers : TakeLock(d))
            /\ WF_vars(DailyEnds)
            /\ WF_vars(Tick)

-----------------------------------------------------------------------------
(* Properties *)

\* Every variable has a value of its kind, and a job that is at work holds the lock
\* (strategy-dispatch.sh).
TypeOK ==
  /\ row \in [Schedules -> Row]
  /\ applied \subseteq Applicable
  /\ pc \in [Dispatchers -> {"off", "planning", "resolving", "choosing", "running",
                           "marking"}]
  /\ lock \in {None, "daily"} \cup Dispatchers
  /\ \A d \in Dispatchers : pc[d] # "off" <=> lock = d
  /\ todo \in [Dispatchers -> SUBSET Strategies]
  /\ on \in [Dispatchers -> {None} \cup Strategies]
  /\ \A d \in Dispatchers : on[d] # None <=> pc[d] \in {"running", "marking"}
  /\ edit \in [Clerks -> {None} \cup Copy]
  /\ faults \in Nat
  /\ wait \in [Strategies -> 0 .. MaxInterval]

\* A strategy whose run was marked is not started again before the interval its row
\* had then has passed, unless the dashboard saved the row: not by another dispatcher,
\* a plan made before, or another strategy of the slot (is_schedule_due and
\* mark_strategy_schedule_run).
RestsItsInterval ==
  [][\A d \in Dispatchers, s \in Strategies : RunStarts(d, s) => wait[s] = 0]_vars

\* A strategy that stays scheduled is run again and again, although its own runs and
\* those of others fail, jobs die, rows are edited and the slot is marked for another
\* strategy (dispatch_due_schedules isolates failures).
KeepsRunning ==
  \A s \in Strategies :
    <>[](row[Owner(s)].enabled /\ (s \in Applicable => s \in applied))
      => []<>(\E d \in Dispatchers : on[d] = s)
=============================================================================
