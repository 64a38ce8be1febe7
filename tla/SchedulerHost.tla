---------------------------- MODULE SchedulerHost ----------------------------
(***************************************************************************)
(* The record that says whether the domestic scheduler is running.         *)
(*                                                                         *)
(* The dashboard starts a scheduler run in a thread and keeps one row of   *)
(* runtime_state.sqlite about it, with a copy in its memory                *)
(* (src/runtime_state.py, src/dashboard/services/scheduler_service.py).    *)
(* /api/scheduler/run claims the row in a transaction; the plunge-bounce   *)
(* and Heikin-Ashi routes look at the copy and write it field by field.    *)
(* Status requests refresh the copy without the lock and end a run that    *)
(* passed its limit.  Every process that imports the dashboard package,    *)
(* the cron jobs among them, constructs the state and resets a row whose   *)
(* owner it cannot find.                                                   *)
(***************************************************************************)
EXTENDS Integers

CONSTANTS
  Claimed,      \* runs started by /api/scheduler/run: they have a run id
  Direct,       \* runs started by the strategy pages: they have none
  Pollers,      \* status requests served at the same time
  Visitors,     \* other processes that import the dashboard package
  MaxRestarts,  \* restarts of the dashboard that are modelled
  None          \* the JSON null of a field

ASSUME HostAssumption == /\ Claimed \cap Direct = {}
                         /\ None \notin Claimed \cup Direct \cup Pollers
                         /\ (Claimed \cup Direct) \cap Pollers = {}
                         /\ MaxRestarts \in Nat

Runs == Claimed \cup Direct

VARIABLES
  row,        \* the persisted record
  mem,        \* the dashboard's copy of it
  lock,       \* who holds DashboardSchedulerService.lock
  thread,     \* where each run is
  poll,       \* the status requests, with what they read
  visit,      \* the constructors of other processes, with what they read
  process,    \* the dashboard process that is alive, or minus the one that died
  overdue,    \* the runs that started longer ago than the limit
  trampled    \* somebody wrote the record unclaimed or on an older reading of it

vars == <<row, mem, lock, thread, poll, visit, process, overdue, trampled>>

Processes == 1 .. (MaxRestarts + 1)
Steps == {"idle", "marked", "stamped", "going", "ending", "checking", "saving", "over"}

PollSteps == {"idle", "read", "look", "found", "late", "checking", "saving"}

Record == [running : BOOLEAN, run : Claimed \cup {None}, started : Runs \cup {None},
           owner : Processes \cup {None}]

Default == [running |-> FALSE, run |-> None, started |-> None, owner |-> None]

\* the claim's payload without started_at
StartedUntimed(r) == [running |-> TRUE, run |-> r, started |-> None, owner |-> process]

Started(r) == [running |-> TRUE, run |-> r, started |-> r, owner |-> process]

\* where a status request is, the row it has read, the run id it has taken
Asking(pc, seen, run) == [pc |-> pc, seen |-> seen, run |-> run]

Unread == Asking("idle", Default, None)

\* with completed_at, and the result or the error, which nothing here reads
Ended(record) == [record EXCEPT !.running = FALSE, !.owner = None]

Orphan(record, alive) == record.running /\ record.owner # alive

Init ==
  /\ row = Default /\ mem = Default /\ lock = None
  /\ thread = [r \in Runs |-> "idle"]
  /\ poll = [p \in Pollers |-> Unread]
  /\ visit = [v \in Visitors |-> [pc |-> "idle", seen |-> Default]]
  /\ process = 1 /\ overdue = {} /\ trampled = FALSE

(***************************************************************************)
(* Starting a run.                                                         *)
(***************************************************************************)
\* a new uuid: which of the unused ones makes no difference
Fresh(r) == process > 0 /\ thread[r] = "idle" /\ r = CHOOSE c \in Claimed : thread[c] = "idle"

Claim(r) ==
  /\ Fresh(r) /\ lock = None /\ ~row.running
  /\ row' = Started(r) /\ mem' = Started(r)
  /\ thread' = [thread EXCEPT ![r] = "going"]
  /\ UNCHANGED <<lock, poll, visit, process, overdue, trampled>>

ClaimRefused(r) ==
  /\ Fresh(r) /\ lock = None /\ row.running
  /\ mem' = row
  /\ UNCHANGED <<row, lock, thread, poll, visit, process, overdue, trampled>>

\* one assignment to the dictionary: the copy changes and all of it is saved
Assign(record) == mem' = record /\ row' = record

DirectMark(r) ==
  /\ process > 0 /\ thread[r] = "idle" /\ lock = None /\ ~mem.running
  /\ Assign([mem EXCEPT !.running = TRUE])
  /\ lock' = r /\ thread' = [thread EXCEPT ![r] = "marked"]
  /\ trampled' = TRUE
  /\ UNCHANGED <<poll, visit, process, overdue>>

DirectStamp(r) ==
  /\ thread[r] = "marked"
  /\ Assign([mem EXCEPT !.started = r])
  /\ thread' = [thread EXCEPT ![r] = "stamped"]
  /\ UNCHANGED <<lock, poll, visit, process, overdue, trampled>>

DirectGo(r) ==
  /\ thread[r] = "stamped"
  /\ Assign(mem)
  /\ lock' = None /\ thread' = [thread EXCEPT ![r] = "going"]
  /\ UNCHANGED <<poll, visit, process, overdue, trampled>>

(***************************************************************************)
(* Ending a run: run() calls complete() or fail(); an exception outside    *)
(* SchedulerExecutionError ends the thread and leaves the record.          *)
(***************************************************************************)
RunnerEnds(r) ==
  /\ thread[r] = "going"
  /\ \E next \in {"ending", "over"} : thread' = [thread EXCEPT ![r] = next]
  /\ UNCHANGED <<row, mem, lock, poll, visit, process, overdue, trampled>>

\* complete() and fail() take the lock; with a run id they refresh the copy and
\* return early when it is about another run, or about none working
RunLock(r) ==
  /\ thread[r] = "ending" /\ lock = None
  /\ lock' = r
  /\ \/ /\ r \in Direct /\ mem' = Ended(mem)
        /\ thread' = [thread EXCEPT ![r] = "saving"]
     \/ /\ r \in Claimed /\ mem' = row
        /\ thread' = [thread EXCEPT ![r] = "checking"]
  /\ UNCHANGED <<row, poll, visit, process, overdue, trampled>>

\* without the comparison of the run ids
StillOnAny(id) == mem.running

StillOn(id) == mem.running /\ mem.run = id

RunCheck(r) ==
  /\ thread[r] = "checking"
  /\ \/ /\ StillOn(r) /\ mem' = Ended(mem) /\ UNCHANGED lock
        /\ thread' = [thread EXCEPT ![r] = "saving"]
     \/ /\ ~StillOn(r) /\ lock' = None /\ UNCHANGED mem
        /\ thread' = [thread EXCEPT ![r] = "over"]
  /\ UNCHANGED <<row, poll, visit, process, overdue, trampled>>

\* replace() changed the copy; it saves whatever the copy is by now
RunSave(r) ==
  /\ thread[r] = "saving"
  /\ row' = mem /\ lock' = None
  /\ thread' = [thread EXCEPT ![r] = "over"]
  /\ UNCHANGED <<mem, poll, visit, process, overdue, trampled>>

(***************************************************************************)
(* A status request: refresh() without the lock, then fail() when late.    *)
(* It puts the row it read into the copy, and then takes is_running, the   *)
(* start and the limit, and at last the run id from the copy, whatever the *)
(* copy has become in between.                                             *)
(***************************************************************************)
PollRead(p) ==
  /\ process > 0 /\ poll[p].pc = "idle"
  /\ poll' = [poll EXCEPT ![p] = Asking("read", row, None)]
  /\ UNCHANGED <<row, mem, lock, thread, visit, process, overdue, trampled>>

\* an older row goes into the copy while somebody holding the lock relies on it
PollRefresh(p) ==
  /\ poll[p].pc = "read"
  /\ mem' = poll[p].seen
  /\ trampled' = (trampled \/ (lock # None /\ row # poll[p].seen))
  /\ poll' = [poll EXCEPT ![p] = Asking("look", Default, None)]
  /\ UNCHANGED <<row, lock, thread, visit, process, overdue>>

\* a record with a run id has a limit, one without has none
PollLook(p) ==
  /\ poll[p].pc = "look"
  /\ poll' = [poll EXCEPT ![p] = IF mem.running /\ mem.run # None
                                 THEN Asking("found", Default, mem.run)
                                 ELSE Unread]
  /\ UNCHANGED <<row, mem, lock, thread, visit, process, overdue, trampled>>

\* only a record without an owner is late
LateUnowned(record) == record.owner = None /\ record.started \in overdue

Late(record) == record.started \in overdue

\* when the copy is about another run by now, the start may be of one and the limit
\* of the other; a refresh that has emptied the copy to fill it gives the run id None
PollJudge(p) ==
  /\ poll[p].pc = "found"
  /\ \/ /\ Late(mem) \/ mem.run # poll[p].run
        /\ \E run \in {mem.run, None} :
             /\ poll' = [poll EXCEPT ![p] = Asking("late", Default, run)]
             /\ trampled' = (trampled \/ run # poll[p].run)
     \/ /\ ~Late(mem) \/ mem.run # poll[p].run
        /\ poll' = [poll EXCEPT ![p] = Unread] /\ UNCHANGED trampled
  /\ UNCHANGED <<row, mem, lock, thread, visit, process, overdue>>

\* fail() takes the lock; without a run id it neither refreshes nor checks
PollLock(p) ==
  /\ poll[p].pc = "late" /\ lock = None
  /\ lock' = p
  /\ \/ /\ poll[p].run = None /\ mem' = Ended(mem)
        /\ poll' = [poll EXCEPT ![p] = Asking("saving", Default, None)]
     \/ /\ poll[p].run # None /\ mem' = row
        /\ poll' = [poll EXCEPT ![p].pc = "checking"]
  /\ UNCHANGED <<row, thread, visit, process, overdue, trampled>>

PollCheck(p) ==
  /\ poll[p].pc = "checking"
  /\ \/ /\ StillOn(poll[p].run) /\ mem' = Ended(mem) /\ UNCHANGED lock
        /\ poll' = [poll EXCEPT ![p] = Asking("saving", Default, None)]
     \/ /\ ~StillOn(poll[p].run) /\ lock' = None /\ UNCHANGED mem
        /\ poll' = [poll EXCEPT ![p] = Unread]
  /\ UNCHANGED <<row, thread, visit, process, overdue, trampled>>

PollSave(p) ==
  /\ poll[p].pc = "saving"
  /\ row' = mem /\ lock' = None
  /\ poll' = [poll EXCEPT ![p] = Unread]
  /\ UNCHANGED <<mem, thread, visit, process, overdue, trampled>>

(***************************************************************************)
(* The constructor, in another process and after a restart.                *)
(***************************************************************************)
VisitRead(v) ==
  /\ visit[v].pc = "idle" /\ Orphan(row, process)
  /\ visit' = [visit EXCEPT ![v] = [pc |-> "read", seen |-> row]]
  /\ UNCHANGED <<row, mem, lock, thread, poll, process, overdue, trampled>>

VisitReset(v) ==
  /\ visit[v].pc = "read"
  /\ row' = Ended(visit[v].seen)
  /\ trampled' = (trampled \/ row # visit[v].seen)
  /\ visit' = [visit EXCEPT ![v] = [pc |-> "idle", seen |-> Default]]
  /\ UNCHANGED <<mem, lock, thread, poll, process, overdue>>

Crash ==
  /\ process \in 1 .. MaxRestarts
  /\ process' = -process
  /\ mem' = Default /\ lock' = None
  /\ thread' = [r \in Runs |-> IF thread[r] = "idle" THEN "idle" ELSE "over"]
  /\ poll' = [p \in Pollers |-> Unread]
  /\ UNCHANGED <<row, visit, overdue, trampled>>

Restart ==
  /\ process < 0
  /\ process' = 1 - process
  /\ row' = IF Orphan(row, process') THEN Ended(row) ELSE row
  /\ mem' = row'
  /\ UNCHANGED <<lock, thread, poll, visit, overdue, trampled>>

\* time: a run recorded as working comes to exceed the limit, if the record has one
TimePasses(r) ==
  /\ row.running /\ row.run # None /\ row.started = r /\ r \notin overdue
  /\ overdue' = overdue \cup {r}
  /\ UNCHANGED <<row, mem, lock, thread, poll, visit, process, trampled>>

RunStep(r) == RunLock(r) \/ RunCheck(r) \/ RunSave(r)
DirectStep(r) == DirectStamp(r) \/ DirectGo(r)
PollStep(p) ==
  \/ PollRead(p) \/ PollRefresh(p) \/ PollLook(p) \/ PollJudge(p)
  \/ PollLock(p) \/ PollCheck(p) \/ PollSave(p)

Next ==
  \/ \E r \in Claimed : Claim(r) \/ ClaimRefused(r)
  \/ \E r \in Direct : DirectMark(r) \/ DirectStep(r)
  \/ \E r \in Runs : RunnerEnds(r) \/ RunStep(r) \/ TimePasses(r)
  \/ \E p \in Pollers : PollStep(p)
  \/ \E v \in Visitors : VisitRead(v) \/ VisitReset(v)
  \/ Crash \/ Restart

UnderLock(r) == RunCheck(r) \/ RunSave(r) \/ (r \in Direct /\ DirectStep(r))

Spec == Init /\ [][Next]_vars

\* a dashboard that died is started again, whoever holds the lock gets on, the clock
\* advances, and the status page keeps asking; a run need never end
FairSpec ==
  /\ Spec
  /\ WF_vars(\E r \in Runs : UnderLock(r))
  /\ WF_vars(\E r \in Runs : TimePasses(r))
  /\ \A p \in Pollers : WF_vars(PollStep(p))
  /\ WF_vars(Restart)

-----------------------------------------------------------------------------
(***************************************************************************)
(* Every field has one of the values the code writes, and a record that    *)
(* says running says when the run started: refresh() takes a record        *)
(* without a start as zero seconds old and would never end it.             *)
(***************************************************************************)
TypeOK ==
  /\ row \in Record /\ mem \in Record
  /\ lock \in Runs \cup Pollers \cup {None}
  /\ thread \in [Runs -> Steps]
  /\ poll \in [Pollers -> [pc : PollSteps, seen : Record, run : Claimed \cup {None}]]
  /\ visit \in [Visitors -> [pc : {"idle", "read"}, seen : Record]]
  /\ process \in (-MaxRestarts .. -1) \cup Processes /\ overdue \subseteq Runs /\ trampled \in BOOLEAN
  /\ (row.running /\ row.run # None) => row.started # None

(***************************************************************************)
(* While a claimed run works within its limit the record says so, unless   *)
(* the record was trampled on: a strategy page wrote it without a claim, a *)
(* status request found one run late and took the run id of another        *)
(* (scheduler_service.py 57) or put an older row into the copy under       *)
(* somebody's lock (runtime_state.py 152), or a constructor reset a row    *)
(* that had changed (141).  There is no fifth way: a run that ends after   *)
(* its record was given to another, and status requests that end late runs *)
(* and refresh the copy without the lock, leave the record of another run  *)
(* alone, so two claimed runs work at the same time only when one of them  *)
(* passed its limit (scheduler_service.py 45-114).                         *)
(***************************************************************************)
WorkIsRecorded ==
  ~trampled => \A r \in Claimed \ overdue :
                 thread[r] = "going" => row.running /\ row.run = r

(***************************************************************************)
(* A record that says a claimed run is working does not say so for ever,   *)
(* even when the run's thread died of an exception run() does not catch,   *)
(* or a stale refresh undid the completion before it was saved             *)
(* (scheduler_service.py 45-59).                                           *)
(***************************************************************************)
RecordEnds ==
  \A r \in Claimed : (row.running /\ row.run = r) ~> ~(row.running /\ row.run = r)
=============================================================================
