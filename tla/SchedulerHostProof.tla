-------------------------- MODULE SchedulerHostProof --------------------------
(***************************************************************************)
(* The record of the scheduler's run, for any runs, pages, visitors and    *)
(* restarts: its type, and that work within the limit is recorded unless   *)
(* the record was trampled on.                                             *)
(***************************************************************************)
EXTENDS SchedulerHost, TLAPS

(***************************************************************************)
(* A record that names a run says when that run started, whether it is     *)
(* running or not, because a page marks the record a claimed run has left. *)
(***************************************************************************)
Timed(record) == record.run # None => record.started # None

Typed ==
  /\ row \in Record /\ mem \in Record
  /\ lock \in Runs \cup Pollers \cup {None}
  /\ thread \in [Runs -> Steps]
  /\ poll \in [Pollers -> [pc : PollSteps, seen : Record, run : Claimed \cup {None}]]
  /\ visit \in [Visitors -> [pc : {"idle", "read"}, seen : Record]]
  /\ process \in (-MaxRestarts .. -1) \cup Processes
  /\ overdue \subseteq Runs /\ trampled \in BOOLEAN

AllTimed ==
  /\ Timed(row) /\ Timed(mem)
  /\ \A p \in Pollers : Timed(poll[p].seen)
  /\ \A v \in Visitors : Timed(visit[v].seen)

(***************************************************************************)
(* What holds while the record has not been trampled on.                   *)
(***************************************************************************)
Mine(record, r) == record.running /\ record.run = r
AtWork(r) == thread[r] \in {"going", "ending", "checking", "saving"}
Quiet == \A r \in Claimed \ overdue : thread[r] # "going"
Last == IF process > 0 THEN process ELSE -process

Locks ==
  /\ \A r \in Runs : thread[r] \in {"checking", "saving"} => lock = r
  /\ \A p \in Pollers : poll[p].pc \in {"checking", "saving"} => lock = p

\* no page was used, and a dashboard that died left no thread
Threads ==
  /\ \A r \in Direct : thread[r] = "idle"
  /\ process < 0 => \A r \in Runs : ~AtWork(r)

\* what a record says is about a claim of this process or of an earlier one
Good(record) ==
  /\ record.run # None => record.started = record.run /\ thread[record.run] # "idle"
  /\ record.running => record.run # None /\ record.owner \in 1 .. Last
  /\ \A r \in Claimed : AtWork(r) /\ Mine(record, r) => record.owner = process

AllGood ==
  /\ Good(row) /\ Good(mem)
  /\ \A p \in Pollers : Good(poll[p].seen)
  /\ \A v \in Visitors : visit[v].pc = "read" =>
       visit[v].seen.running /\ visit[v].seen.owner \in 1 .. Last /\ visit[v].seen.owner # process

\* the row names whoever works within the limit and whoever is about to save, and
\* whoever checks the copy under the lock checks what the row says
Recorded ==
  /\ \A r \in Claimed \ overdue : thread[r] = "going" => Mine(row, r)
  /\ \A r \in Claimed : thread[r] = "saving" => Mine(row, r)
  /\ \A r \in Claimed : thread[r] = "checking" /\ Mine(mem, r) => Mine(row, r)

\* a status request ends only what passed its limit
Timeouts ==
  \A p \in Pollers :
    /\ poll[p].pc = "found" => poll[p].run # None
    /\ poll[p].pc \in {"late", "checking"} => poll[p].run \in overdue
    /\ poll[p].pc = "checking" => mem = row \/ ~row.running
    /\ poll[p].pc = "saving" => Quiet

Core == Locks /\ Threads /\ AllGood /\ Recorded /\ Timeouts
HostInv == Typed /\ AllTimed /\ (~trampled => Core)

-----------------------------------------------------------------------------
(* Types.                                                                  *)

LEMMA RecordsTyped ==
  /\ Default \in Record /\ Timed(Default)
  /\ Unread = [pc |-> "idle", seen |-> Default, run |-> None]
  /\ \A r \in Claimed : process \in Processes => Started(r) \in Record /\ Timed(Started(r))
  /\ \A record \in Record :
       /\ Ended(record) \in Record /\ Ended(record).running = FALSE
       /\ Ended(record).run = record.run /\ (Timed(record) <=> Timed(Ended(record)))
  BY HostAssumption DEF Default, Unread, Asking, Record, Started, Ended, Timed, Runs

LEMMA TypedInit == Init => Typed /\ AllTimed
  <1> SUFFICES ASSUME Init PROVE Typed /\ AllTimed OBVIOUS
  <1>1. process \in Processes BY HostAssumption DEF Init, Processes
  <1>2. thread \in [Runs -> Steps] BY DEF Init, Steps
  <1> QED BY <1>1, <1>2, RecordsTyped DEF Init, Typed, AllTimed, PollSteps

LEMMA ThreadsTyped ==
  ASSUME Typed, AllTimed,
         \E r \in Runs : RunnerEnds(r) \/ RunStep(r) \/ TimePasses(r)
  PROVE  Typed' /\ AllTimed'
  <1>1. PICK r \in Runs : RunnerEnds(r) \/ RunStep(r) \/ TimePasses(r) OBVIOUS
  <1>2. CASE RunnerEnds(r)
    BY <1>2 DEF RunnerEnds, Typed, AllTimed, Steps
  <1>3. CASE RunLock(r)
    BY <1>3, RecordsTyped DEF RunLock, Typed, AllTimed, Steps
  <1>4. CASE RunCheck(r)
    BY <1>4, RecordsTyped DEF RunCheck, Typed, AllTimed, Steps
  <1>5. CASE RunSave(r)
    BY <1>5 DEF RunSave, Typed, AllTimed, Steps
  <1>6. CASE TimePasses(r)
    BY <1>6 DEF TimePasses, Typed, AllTimed
  <1> QED BY <1>1, <1>2, <1>3, <1>4, <1>5, <1>6 DEF RunStep

LEMMA StartsTyped ==
  ASSUME Typed, AllTimed,
         \/ \E r \in Claimed : Claim(r) \/ ClaimRefused(r)
         \/ \E r \in Direct : DirectMark(r) \/ DirectStep(r)
  PROVE  Typed' /\ AllTimed'
  <1>1. CASE \E r \in Claimed : Claim(r) \/ ClaimRefused(r)
    <2>1. PICK r \in Claimed : Claim(r) \/ ClaimRefused(r) BY <1>1
    <2>2. r \in Runs BY DEF Runs
    <2>3. CASE Claim(r)
      BY <2>2, <2>3, RecordsTyped, HostAssumption DEF Claim, Fresh, Typed, AllTimed, Steps, Processes
    <2>4. CASE ClaimRefused(r)
      BY <2>4 DEF ClaimRefused, Typed, AllTimed
    <2> QED BY <2>1, <2>3, <2>4
  <1>2. CASE \E r \in Direct : DirectMark(r) \/ DirectStep(r)
    <2>1. PICK r \in Direct : DirectMark(r) \/ DirectStep(r) BY <1>2
    <2>2. r \in Runs /\ r # None BY HostAssumption DEF Runs
    <2>3. CASE DirectMark(r)
      BY <2>2, <2>3 DEF DirectMark, Assign, Typed, AllTimed, Steps, Record, Timed
    <2>4. CASE DirectStamp(r)
      BY <2>2, <2>4 DEF DirectStamp, Assign, Typed, AllTimed, Steps, Record, Timed
    <2>5. CASE DirectGo(r)
      BY <2>2, <2>5 DEF DirectGo, Assign, Typed, AllTimed, Steps
    <2> QED BY <2>1, <2>3, <2>4, <2>5 DEF DirectStep
  <1> QED BY <1>1, <1>2

LEMMA PollsTyped ==
  ASSUME Typed, AllTimed, NEW p \in Pollers, PollStep(p)
  PROVE  Typed' /\ AllTimed'
  <1>1. CASE PollRead(p)
    <2>1. poll' = [poll EXCEPT ![p] = [pc |-> "read", seen |-> row, run |-> None]]
      BY <1>1 DEF PollRead, Asking
    <2> QED BY <1>1, <2>1 DEF PollRead, Typed, AllTimed, PollSteps
  <1>2. CASE PollRefresh(p)
    BY <1>2, RecordsTyped DEF PollRefresh, Asking, Typed, AllTimed, PollSteps
  <1>3. CASE PollLook(p)
    <2>1. PICK next \in {Unread, [pc |-> "found", seen |-> Default, run |-> mem.run]} :
            poll' = [poll EXCEPT ![p] = next]
      BY <1>3 DEF PollLook, Asking
    <2>2. mem.run \in Claimed \cup {None} BY DEF Typed, Record
    <2>3. /\ next \in [pc : PollSteps, seen : Record, run : Claimed \cup {None}]
          /\ next.seen = Default
      BY <2>2, RecordsTyped DEF PollSteps
    <2> QED BY <1>3, <2>1, <2>3, RecordsTyped DEF PollLook, Typed, AllTimed
  <1>4. CASE PollJudge(p)
    <2>1. PICK next : /\ poll' = [poll EXCEPT ![p] = next]
                      /\ \/ next = Unread
                         \/ \E run \in {mem.run, None} :
                              next = [pc |-> "late", seen |-> Default, run |-> run]
      BY <1>4 DEF PollJudge, Asking
    <2>2. mem.run \in Claimed \cup {None} BY DEF Typed, Record
    <2>3. /\ next \in [pc : PollSteps, seen : Record, run : Claimed \cup {None}]
          /\ next.seen = Default
      BY <2>1, <2>2, RecordsTyped DEF PollSteps
    <2>4. trampled' \in BOOLEAN BY <1>4 DEF PollJudge, Typed
    <2> QED BY <1>4, <2>1, <2>3, <2>4, RecordsTyped DEF PollJudge, Typed, AllTimed
  <1>5. CASE PollLock(p)
    <2>1. CASE poll[p].run = None
      <3>1. poll' = [poll EXCEPT ![p] = [pc |-> "saving", seen |-> Default, run |-> None]]
        BY <1>5, <2>1, RecordsTyped DEF PollLock, Asking
      <3> QED BY <1>5, <2>1, <3>1, RecordsTyped DEF PollLock, Typed, AllTimed, PollSteps
    <2>2. CASE poll[p].run # None
      BY <1>5, <2>2 DEF PollLock, Typed, AllTimed, PollSteps
    <2> QED BY <2>1, <2>2
  <1>6. CASE PollCheck(p)
    BY <1>6, RecordsTyped DEF PollCheck, Asking, Typed, AllTimed, PollSteps
  <1>7. CASE PollSave(p)
    BY <1>7, RecordsTyped DEF PollSave, Typed, AllTimed, PollSteps
  <1> QED BY <1>1, <1>2, <1>3, <1>4, <1>5, <1>6, <1>7 DEF PollStep

LEMMA VisitsTyped ==
  ASSUME Typed, AllTimed,
         (\E v \in Visitors : VisitRead(v) \/ VisitReset(v)) \/ Crash \/ Restart
  PROVE  Typed' /\ AllTimed'
  <1>1. CASE \E v \in Visitors : VisitRead(v)
    BY <1>1 DEF VisitRead, Typed, AllTimed
  <1>2. CASE \E v \in Visitors : VisitReset(v)
    BY <1>2, RecordsTyped DEF VisitReset, Typed, AllTimed
  <1>3. CASE Crash
    BY <1>3, RecordsTyped, HostAssumption
    DEF Crash, Typed, AllTimed, Steps, Processes, PollSteps
  <1>4. CASE Restart
    BY <1>4, RecordsTyped, HostAssumption DEF Restart, Typed, AllTimed, Processes
  <1> QED BY <1>1, <1>2, <1>3, <1>4

LEMMA TypedNext == Typed /\ AllTimed /\ [Next]_vars => Typed' /\ AllTimed'
  <1> SUFFICES ASSUME Typed, AllTimed, [Next]_vars PROVE Typed' /\ AllTimed' OBVIOUS
  <1>1. CASE UNCHANGED vars BY <1>1 DEF vars, Typed, AllTimed
  <1> QED BY <1>1, ThreadsTyped, StartsTyped, PollsTyped, VisitsTyped DEF Next

(***************************************************************************)
(* Every value is one the code writes, and a record of a running claimed   *)
(* run says when it started (DashboardSchedulerState, refresh()).          *)
(***************************************************************************)
THEOREM HostTypeCorrect == Spec => []TypeOK
  <1>1. Typed /\ AllTimed => TypeOK BY DEF Typed, AllTimed, Timed, TypeOK
  <1> QED BY <1>1, TypedInit, TypedNext, PTL DEF Spec

-----------------------------------------------------------------------------
(* Work within its limit is recorded.                                      *)

LEMMA CoreInit == Init => Core
  BY HostAssumption DEF Init, Core, Locks, Threads, AllGood, Recorded, Timeouts, Default,
     Unread, Asking, Mine, AtWork, Good, Last, Runs

LEMMA GoodLater ==
  ASSUME Typed, NEW record \in Record, Good(record), process' = process,
         \A r \in Claimed : /\ thread[r] # "idle" => thread'[r] # "idle"
                            /\ AtWork(r)' => AtWork(r)
  PROVE  Good(record)'
  BY DEF Good, Last, Mine, Record

LEMMA GoodEnded ==
  ASSUME NEW record \in Record, Good(record)
  PROVE  Ended(record) \in Record /\ Good(Ended(record))
  BY HostAssumption DEF Good, Ended, Mine, Record

LEMMA DefaultGood == Default \in Record /\ Good(Default)
  BY HostAssumption DEF Good, Default, Mine, Record

LEMMA ClaimKeeps ==
  ASSUME Typed, ~trampled, Core, NEW r \in Claimed, Claim(r)
  PROVE  Core'
  <1> USE HostAssumption DEF Typed, Core, Claim, Fresh, Started, Mine, AtWork, Quiet, Good, Last, Runs,
                             Processes, Steps
  <1>1. Locks' BY DEF Locks
  <1>2. Threads' BY DEF Locks, Threads
  <1>3. AllGood' BY DEF Locks, Threads, AllGood
  <1>4. Recorded' BY DEF Locks, Threads, AllGood, Recorded, Timeouts
  <1>5. Timeouts' BY DEF Locks, Threads, AllGood, Recorded, Timeouts
  <1> QED BY <1>1, <1>2, <1>3, <1>4, <1>5

LEMMA RefusalKeeps ==
  ASSUME Typed, ~trampled, Core, NEW r \in Claimed, ClaimRefused(r)
  PROVE  Core'
  <1> USE HostAssumption DEF Typed, Core, ClaimRefused, Fresh, Mine, AtWork, Quiet, Good, Last, Runs,
                             Processes, Steps
  <1>1. Locks' BY DEF Locks
  <1>2. Threads' BY DEF Locks, Threads
  <1>3. AllGood' BY DEF Locks, Threads, AllGood
  <1>4. Recorded' BY DEF Locks, Threads, AllGood, Recorded, Timeouts
  <1>5. Timeouts' BY DEF Locks, Threads, AllGood, Recorded, Timeouts
  <1> QED BY <1>1, <1>2, <1>3, <1>4, <1>5

LEMMA EndKeeps ==
  ASSUME Typed, ~trampled, Core, NEW r \in Runs, RunnerEnds(r)
  PROVE  Core'
  <1> USE HostAssumption DEF Typed, Core, RunnerEnds, Mine, AtWork, Quiet, Good, Last, Runs,
                             Processes, Steps
  <1>1. Locks' BY DEF Locks
  <1>2. Threads' BY DEF Locks, Threads
  <1>3. AllGood' BY DEF Locks, Threads, AllGood
  <1>4. Recorded' BY DEF Locks, Threads, AllGood, Recorded, Timeouts
  <1>5. Timeouts' BY DEF Locks, Threads, AllGood, Recorded, Timeouts
  <1> QED BY <1>1, <1>2, <1>3, <1>4, <1>5

LEMMA LockKeeps ==
  ASSUME Typed, ~trampled, Core, NEW r \in Runs, RunLock(r)
  PROVE  Core'
  <1> USE HostAssumption
  <1>1. Locks' BY DEF Typed, Core, Locks, RunLock, Ended, Runs
  <1>2. Threads' BY DEF Typed, Core, Locks, Threads, RunLock, AtWork, Runs
  <1>3. AllGood'
    <2>0. /\ process' = process
          /\ \A q \in Claimed : (thread[q] # "idle" => thread'[q] # "idle") /\ (AtWork(q)' => AtWork(q))
      BY DEF Typed, RunLock, AtWork, Runs
    <2>1. \A record \in Record : Good(record) => Good(record)'
      BY <2>0, GoodLater
    <2>2. row' \in Record /\ Good(row') /\ mem' \in Record /\ Good(mem')
      BY GoodEnded DEF Typed, Core, AllGood, RunLock
    <2>3. \A q \in Pollers : poll'[q].seen \in Record /\ Good(poll'[q].seen)
      BY DefaultGood DEF Typed, Core, AllGood, RunLock
    <2>4. \A w \in Visitors : visit'[w].pc = "read" =>
            /\ visit'[w].seen.running /\ visit'[w].seen.owner \in 1 .. Last'
            /\ visit'[w].seen.owner # process'
      BY DEF Core, AllGood, Last, RunLock
    <2> QED BY <2>1, <2>2, <2>3, <2>4 DEF AllGood
  <1>4. Recorded'
    BY DEF Typed, Core, Locks, Threads, AllGood, Good, Recorded, RunLock, Ended, Mine, AtWork, Runs
  <1>5. Timeouts'
    BY DEF Typed, Core, Locks, Threads, Recorded, Timeouts, RunLock, Ended, Quiet, Mine, Runs
  <1> QED BY <1>1, <1>2, <1>3, <1>4, <1>5 DEF Core

LEMMA CheckKeeps ==
  ASSUME Typed, ~trampled, Core, NEW r \in Runs, RunCheck(r)
  PROVE  Core'
  <1> USE HostAssumption
  <1>1. Locks' BY DEF Typed, Core, Locks, RunCheck, StillOn, Ended, Runs
  <1>2. Threads' BY DEF Typed, Core, Locks, Threads, RunCheck, AtWork, Runs
  <1>3. AllGood'
    <2>0. /\ process' = process
          /\ \A q \in Claimed : (thread[q] # "idle" => thread'[q] # "idle") /\ (AtWork(q)' => AtWork(q))
      BY DEF Typed, RunCheck, AtWork, Runs
    <2>1. \A record \in Record : Good(record) => Good(record)'
      BY <2>0, GoodLater
    <2>2. row' \in Record /\ Good(row') /\ mem' \in Record /\ Good(mem')
      BY GoodEnded DEF Typed, Core, AllGood, RunCheck
    <2>3. \A q \in Pollers : poll'[q].seen \in Record /\ Good(poll'[q].seen)
      BY DefaultGood DEF Typed, Core, AllGood, RunCheck
    <2>4. \A w \in Visitors : visit'[w].pc = "read" =>
            /\ visit'[w].seen.running /\ visit'[w].seen.owner \in 1 .. Last'
            /\ visit'[w].seen.owner # process'
      BY DEF Core, AllGood, Last, RunCheck
    <2> QED BY <2>1, <2>2, <2>3, <2>4 DEF AllGood
  <1>4. Recorded'
    BY DEF Typed, Core, Locks, Threads, AllGood, Good, Recorded, RunCheck, StillOn, Ended, Mine, AtWork, Runs
  <1>5. Timeouts'
    BY DEF Typed, Core, Locks, Threads, Recorded, Timeouts, RunCheck, StillOn, Ended, Quiet, Mine, Runs
  <1> QED BY <1>1, <1>2, <1>3, <1>4, <1>5 DEF Core

LEMMA SaveKeeps ==
  ASSUME Typed, ~trampled, Core, NEW r \in Runs, RunSave(r)
  PROVE  Core'
  <1> USE HostAssumption DEF Typed, Core, RunSave, Mine, AtWork, Quiet, Good, Last, Runs,
                             Processes, Steps
  <1>1. Locks' BY DEF Locks
  <1>2. Threads' BY DEF Locks, Threads
  <1>3. AllGood' BY DEF Locks, Threads, AllGood
  <1>4. Recorded' BY DEF Locks, Threads, AllGood, Recorded, Timeouts
  <1>5. Timeouts' BY DEF Locks, Threads, AllGood, Recorded, Timeouts
  <1> QED BY <1>1, <1>2, <1>3, <1>4, <1>5

LEMMA TimeKeeps ==
  ASSUME Typed, ~trampled, Core, NEW r \in Runs, TimePasses(r)
  PROVE  Core'
  <1> USE HostAssumption DEF Typed, Core, TimePasses, Mine, AtWork, Quiet, Good, Last, Runs,
                             Processes, Steps
  <1>1. Locks' BY DEF Locks
  <1>2. Threads' BY DEF Locks, Threads
  <1>3. AllGood' BY DEF Locks, Threads, AllGood
  <1>4. Recorded' BY DEF Locks, Threads, AllGood, Recorded, Timeouts
  <1>5. Timeouts' BY DEF Locks, Threads, AllGood, Recorded, Timeouts
  <1> QED BY <1>1, <1>2, <1>3, <1>4, <1>5

LEMMA PollReadKeeps ==
  ASSUME Typed, ~trampled, Core, NEW p \in Pollers, PollRead(p)
  PROVE  Core'
  <1> USE HostAssumption DEF Typed, Core, PollRead, Asking, Mine, AtWork, Quiet, Good, Last, Runs,
                             Processes, Steps
  <1>1. Locks' BY DEF Locks
  <1>2. Threads' BY DEF Locks, Threads
  <1>3. AllGood' BY DEF Locks, Threads, AllGood
  <1>4. Recorded' BY DEF Locks, Threads, AllGood, Recorded, Timeouts
  <1>5. Timeouts' BY DEF Locks, Threads, AllGood, Recorded, Timeouts
  <1> QED BY <1>1, <1>2, <1>3, <1>4, <1>5

LEMMA PollRefreshKeeps ==
  ASSUME Typed, ~trampled, Core, NEW p \in Pollers, PollRefresh(p), ~trampled'
  PROVE  Core'
  <1> USE HostAssumption DEF Typed, Core, PollRefresh, Asking, Default, Mine, AtWork, Quiet, Good, Last, Runs,
                             Processes, Steps
  <1>1. Locks' BY DEF Locks
  <1>2. Threads' BY DEF Locks, Threads
  <1>3. AllGood' BY DEF Locks, Threads, AllGood
  <1>4. Recorded' BY DEF Locks, Threads, AllGood, Recorded, Timeouts
  <1>5. Timeouts'
    <2>1. poll'[p].pc = "look" OBVIOUS
    <2>2. \A q \in Pollers : q # p => poll'[q] = poll[q] OBVIOUS
    <2>3. \A q \in Pollers : poll[q].pc \in {"checking", "saving"} => mem' = row
      BY DEF Locks
    <2> QED BY <2>1, <2>2, <2>3 DEF Timeouts
  <1> QED BY <1>1, <1>2, <1>3, <1>4, <1>5

LEMMA PollLookKeeps ==
  ASSUME Typed, ~trampled, Core, NEW p \in Pollers, PollLook(p)
  PROVE  Core'
  <1> USE HostAssumption DEF Typed, Core, PollLook, Asking, Unread, Default, Mine, AtWork, Quiet, Good, Last, Runs,
                             Processes, Steps
  <1>1. Locks' BY DEF Locks
  <1>2. Threads' BY DEF Locks, Threads
  <1>3. AllGood' BY DEF Locks, Threads, AllGood
  <1>4. Recorded' BY DEF Locks, Threads, AllGood, Recorded, Timeouts
  <1>5. Timeouts' BY DEF Locks, Threads, AllGood, Recorded, Timeouts
  <1> QED BY <1>1, <1>2, <1>3, <1>4, <1>5

LEMMA PollJudgeKeeps ==
  ASSUME Typed, ~trampled, Core, NEW p \in Pollers, PollJudge(p), ~trampled'
  PROVE  Core'
  <1> USE HostAssumption DEF Typed, Core, PollJudge, Late, Asking, Unread, Default, Mine, AtWork, Quiet, Good, Last, Runs,
                             Processes, Steps
  <1>1. Locks' BY DEF Locks
  <1>2. Threads' BY DEF Locks, Threads
  <1>3. AllGood' BY DEF Locks, Threads, AllGood
  <1>4. Recorded' BY DEF Locks, Threads, AllGood, Recorded, Timeouts
  <1>5. Timeouts'
    <2>1. ASSUME poll'[p].pc = "late" PROVE poll'[p].run \in overdue
      <3>0. PICK run \in {mem.run, None} :
              /\ poll' = [poll EXCEPT ![p] = [pc |-> "late", seen |-> Default, run |-> run]]
              /\ trampled' = (trampled \/ run # poll[p].run)
        BY <2>1
      <3>1. poll'[p].run = poll[p].run /\ poll[p].run = mem.run /\ poll[p].run # None
        BY <3>0 DEF Timeouts
      <3>2. mem.started \in overdue BY <2>1, <3>1
      <3> QED BY <3>1, <3>2 DEF AllGood
    <2>2. poll'[p].pc \in {"idle", "late"} OBVIOUS
    <2>3. \A q \in Pollers : q # p => poll'[q] = poll[q] OBVIOUS
    <2> QED BY <2>1, <2>2, <2>3 DEF Timeouts
  <1> QED BY <1>1, <1>2, <1>3, <1>4, <1>5

LEMMA PollLockKeeps ==
  ASSUME Typed, ~trampled, Core, NEW p \in Pollers, PollLock(p)
  PROVE  Core'
  <1> USE HostAssumption
  <1>1. Locks' BY DEF Typed, Core, Locks, PollLock, Asking, Runs
  <1>2. Threads' BY DEF Typed, Core, Locks, Threads, PollLock, AtWork, Runs
  <1>3. AllGood'
    <2>0. /\ process' = process
          /\ \A q \in Claimed : (thread[q] # "idle" => thread'[q] # "idle") /\ (AtWork(q)' => AtWork(q))
      BY DEF Typed, PollLock, AtWork, Runs
    <2>1. \A record \in Record : Good(record) => Good(record)'
      BY <2>0, GoodLater
    <2>2. row' \in Record /\ Good(row') /\ mem' \in Record /\ Good(mem')
      BY GoodEnded DEF Typed, Core, AllGood, PollLock
    <2>3. \A q \in Pollers : poll'[q].seen \in Record /\ Good(poll'[q].seen)
      BY DefaultGood DEF Typed, Core, AllGood, PollLock, Asking
    <2>4. \A w \in Visitors : visit'[w].pc = "read" =>
            /\ visit'[w].seen.running /\ visit'[w].seen.owner \in 1 .. Last'
            /\ visit'[w].seen.owner # process'
      BY DEF Core, AllGood, Last, PollLock
    <2> QED BY <2>1, <2>2, <2>3, <2>4 DEF AllGood
  <1>4. Recorded'
    BY DEF Typed, Core, Locks, Threads, AllGood, Good, Recorded, PollLock, Asking, Mine, AtWork, Runs
  <1>5. Timeouts'
    BY DEF Typed, Core, Locks, Threads, Recorded, Timeouts, PollLock, Asking, Quiet, Mine, Runs
  <1> QED BY <1>1, <1>2, <1>3, <1>4, <1>5 DEF Core

LEMMA PollCheckKeeps ==
  ASSUME Typed, ~trampled, Core, NEW p \in Pollers, PollCheck(p)
  PROVE  Core'
  <1> USE HostAssumption
  <1>1. Locks' BY DEF Typed, Core, Locks, PollCheck, StillOn, Ended, Asking, Unread, Runs
  <1>2. Threads' BY DEF Typed, Core, Locks, Threads, PollCheck, AtWork, Runs
  <1>3. AllGood'
    <2>0. /\ process' = process
          /\ \A q \in Claimed : (thread[q] # "idle" => thread'[q] # "idle") /\ (AtWork(q)' => AtWork(q))
      BY DEF Typed, PollCheck, AtWork, Runs
    <2>1. \A record \in Record : Good(record) => Good(record)'
      BY <2>0, GoodLater
    <2>2. row' \in Record /\ Good(row') /\ mem' \in Record /\ Good(mem')
      BY GoodEnded DEF Typed, Core, AllGood, PollCheck
    <2>3. \A q \in Pollers : poll'[q].seen \in Record /\ Good(poll'[q].seen)
      BY DefaultGood DEF Typed, Core, AllGood, PollCheck, Asking, Unread
    <2>4. \A w \in Visitors : visit'[w].pc = "read" =>
            /\ visit'[w].seen.running /\ visit'[w].seen.owner \in 1 .. Last'
            /\ visit'[w].seen.owner # process'
      BY DEF Core, AllGood, Last, PollCheck
    <2> QED BY <2>1, <2>2, <2>3, <2>4 DEF AllGood
  <1>4. Recorded'
    BY DEF Typed, Core, Locks, Threads, AllGood, Good, Recorded, PollCheck, StillOn, Ended, Asking, Unread, Mine, AtWork, Runs
  <1>5. Timeouts'
    <2>1. StillOn(poll[p].run) => Quiet
      BY DEF Core, Recorded, Timeouts, PollCheck, StillOn, Quiet, Mine
    <2>2. poll'[p].pc \in {"idle", "saving"} /\ (poll'[p].pc = "saving" => Quiet)
      BY <2>1 DEF Typed, PollCheck, Asking, Unread
    <2>3. \A q \in Pollers : q # p => poll'[q] = poll[q] /\ poll[q].pc # "checking"
      BY DEF Typed, Core, Locks, PollCheck
    <2>4. Quiet => Quiet' BY DEF PollCheck, Quiet
    <2>5. overdue' = overdue BY DEF PollCheck
    <2> QED BY <2>2, <2>3, <2>4, <2>5 DEF Core, Timeouts
  <1> QED BY <1>1, <1>2, <1>3, <1>4, <1>5 DEF Core

LEMMA PollSaveKeeps ==
  ASSUME Typed, ~trampled, Core, NEW p \in Pollers, PollSave(p)
  PROVE  Core'
  <1> USE HostAssumption DEF Typed, Core, PollSave, Asking, Unread, Default, Mine, AtWork, Quiet, Good, Last, Runs,
                             Processes, Steps
  <1>1. Locks' BY DEF Locks
  <1>2. Threads' BY DEF Locks, Threads
  <1>3. AllGood' BY DEF Locks, Threads, AllGood
  <1>4. Recorded' BY DEF Locks, Threads, AllGood, Recorded, Timeouts
  <1>5. Timeouts' BY DEF Locks, Threads, AllGood, Recorded, Timeouts
  <1> QED BY <1>1, <1>2, <1>3, <1>4, <1>5

LEMMA VisitReadKeeps ==
  ASSUME Typed, ~trampled, Core, NEW v \in Visitors, VisitRead(v)
  PROVE  Core'
  <1> USE HostAssumption DEF Typed, Core, VisitRead, Orphan, Mine, AtWork, Quiet, Good, Last, Runs,
                             Processes, Steps
  <1>1. Locks' BY DEF Locks
  <1>2. Threads' BY DEF Locks, Threads
  <1>3. AllGood' BY DEF Locks, Threads, AllGood
  <1>4. Recorded' BY DEF Locks, Threads, AllGood, Recorded, Timeouts
  <1>5. Timeouts' BY DEF Locks, Threads, AllGood, Recorded, Timeouts
  <1> QED BY <1>1, <1>2, <1>3, <1>4, <1>5

LEMMA VisitResetKeeps ==
  ASSUME Typed, ~trampled, Core, NEW v \in Visitors, VisitReset(v), ~trampled'
  PROVE  Core'
  <1> USE HostAssumption
  <1>1. /\ visit[v].pc = "read" /\ row = visit[v].seen /\ row' = Ended(row)
        /\ visit' = [visit EXCEPT ![v] = [pc |-> "idle", seen |-> Default]]
        /\ UNCHANGED <<mem, lock, thread, poll, process, overdue>>
    BY DEF VisitReset
  <1>2. ~row'.running BY <1>1, RecordsTyped DEF Typed
  <1>3. \A r \in Claimed : ~(AtWork(r) /\ Mine(row, r))
    BY <1>1 DEF Core, AllGood, Good
  <1>4. Locks' BY <1>1 DEF Core, Locks
  <1>5. Threads' BY <1>1 DEF Core, Threads, AtWork
  <1>6. AllGood'
    <2>1. \A record \in Record : Good(record) => Good(record)'
      BY <1>1, GoodLater DEF AtWork
    <2>2. row' \in Record /\ Good(row') BY <1>1, GoodEnded DEF Typed, Core, AllGood
    <2> QED BY <1>1, <2>1, <2>2 DEF Typed, Core, AllGood, Last
  <1>7. Recorded' BY <1>1, <1>3 DEF Core, Recorded, AtWork, Mine
  <1>8. Timeouts' BY <1>1, <1>2 DEF Core, Timeouts, Quiet
  <1> QED BY <1>4, <1>5, <1>6, <1>7, <1>8 DEF Core

LEMMA CrashKeeps ==
  ASSUME Typed, ~trampled, Core, Crash
  PROVE  Core'
  <1> USE HostAssumption
  <1>1. /\ process \in 1 .. MaxRestarts /\ process' = -process /\ mem' = Default
        /\ poll' = [p \in Pollers |-> Unread]
        /\ UNCHANGED <<row, visit, overdue, trampled>>
        /\ \A r \in Runs : thread'[r] \in {"idle", "over"} /\ (thread[r] = "idle" <=> thread'[r] = "idle")
    BY DEF Crash
  <1>2. Last' = Last /\ Last = process /\ process > 0 BY <1>1 DEF Last
  <1>3. \A r \in Runs : ~AtWork(r)' BY <1>1 DEF AtWork
  <1>4. \A record \in Record : Good(record) => Good(record)'
    BY <1>1, <1>2, <1>3 DEF Good, Record, Runs, Mine
  <1>5. Locks' BY <1>1 DEF Locks, Unread, Asking
  <1>6. Threads' BY <1>1, <1>3 DEF Core, Threads, Runs
  <1>7. AllGood'
    <2>1. Good(row)' /\ Good(mem)' BY <1>1, <1>4, DefaultGood DEF Typed, Core, AllGood
    <2>2. \A p \in Pollers : Good(poll[p].seen)'
      BY <1>1, <1>4, DefaultGood DEF Unread, Asking
    <2>3. \A v \in Visitors : visit[v].pc = "read" =>
            visit[v].seen.owner \in 1 .. Last' /\ visit[v].seen.owner # process'
      BY <1>1, <1>2 DEF Core, AllGood
    <2> QED BY <1>1, <2>1, <2>2, <2>3 DEF Core, AllGood
  <1>8. Recorded' BY <1>1 DEF Recorded, Runs
  <1>9. Timeouts' BY <1>1 DEF Timeouts, Unread, Asking
  <1> QED BY <1>5, <1>6, <1>7, <1>8, <1>9 DEF Core

LEMMA RestartKeeps ==
  ASSUME Typed, ~trampled, Core, Restart
  PROVE  Core'
  <1> USE HostAssumption DEF Typed, Core, Restart, Orphan, Ended, Mine, AtWork, Quiet, Good, Last, Runs,
                             Processes, Steps
  <1>1. Locks' BY DEF Locks
  <1>2. Threads' BY DEF Locks, Threads
  <1>3. AllGood' BY DEF Locks, Threads, AllGood
  <1>4. Recorded' BY DEF Locks, Threads, AllGood, Recorded, Timeouts
  <1>5. Timeouts' BY DEF Locks, Threads, AllGood, Recorded, Timeouts
  <1> QED BY <1>1, <1>2, <1>3, <1>4, <1>5

\* nobody forgets that the record was trampled on
LEMMA TrampledStays == ASSUME Typed, Next, ~trampled' PROVE ~trampled
  <1> USE DEF Typed
  <1>1. CASE \E r \in Claimed : Claim(r) \/ ClaimRefused(r)
    BY <1>1 DEF Claim, ClaimRefused
  <1>2. CASE \E r \in Direct : DirectMark(r) \/ DirectStep(r)
    BY <1>2 DEF DirectMark, DirectStep, DirectStamp, DirectGo
  <1>3. CASE \E r \in Runs : RunnerEnds(r) \/ RunStep(r) \/ TimePasses(r)
    BY <1>3 DEF RunnerEnds, RunStep, RunLock, RunCheck, RunSave, TimePasses
  <1>4. CASE \E p \in Pollers : PollStep(p)
    BY <1>4 DEF PollStep, PollRead, PollRefresh, PollLook, PollJudge, PollLock, PollCheck, PollSave
  <1>5. CASE \E v \in Visitors : VisitRead(v) \/ VisitReset(v)
    BY <1>5 DEF VisitRead, VisitReset
  <1>6. CASE Crash \/ Restart
    BY <1>6 DEF Crash, Restart
  <1> QED BY <1>1, <1>2, <1>3, <1>4, <1>5, <1>6 DEF Next

LEMMA CoreNext == HostInv /\ [Next]_vars => HostInv'
  <1> SUFFICES ASSUME HostInv, [Next]_vars, ~trampled' PROVE Core'
    BY TypedNext DEF HostInv
  <1>1. CASE UNCHANGED vars
    BY <1>1 DEF vars, HostInv, Core, Locks, Threads, AllGood, Recorded, Timeouts, Mine,
                AtWork, Quiet, Good, Last
  <1>2. CASE Next
    <2>1. Typed BY DEF HostInv
    <2>2. ~trampled /\ Core BY <1>2, <2>1, TrampledStays DEF HostInv
    <2>3. ~ \E r \in Direct : DirectMark(r) \/ DirectStep(r)
      BY <2>2 DEF DirectMark, DirectStep, DirectStamp, DirectGo, Core, Threads
    <2>4. CASE \E r \in Claimed : Claim(r) \/ ClaimRefused(r)
      BY <2>1, <2>2, <2>4, ClaimKeeps, RefusalKeeps
    <2>5. CASE \E r \in Runs : RunnerEnds(r) \/ RunStep(r) \/ TimePasses(r)
      BY <2>1, <2>2, <2>5, EndKeeps, LockKeeps, CheckKeeps, SaveKeeps, TimeKeeps DEF RunStep
    <2>6. CASE \E p \in Pollers : PollStep(p)
      BY <2>1, <2>2, <2>6, PollReadKeeps, PollRefreshKeeps, PollLookKeeps, PollJudgeKeeps,
         PollLockKeeps, PollCheckKeeps, PollSaveKeeps DEF PollStep
    <2>7. CASE \E v \in Visitors : VisitRead(v) \/ VisitReset(v)
      BY <2>1, <2>2, <2>7, VisitReadKeeps, VisitResetKeeps
    <2>8. CASE Crash \/ Restart
      BY <2>1, <2>2, <2>8, CrashKeeps, RestartKeeps
    <2> QED BY <1>2, <2>3, <2>4, <2>5, <2>6, <2>7, <2>8 DEF Next
  <1> QED BY <1>1, <1>2

(***************************************************************************)
(* While a claimed run works within its limit the record says so, for any  *)
(* number of runs, status requests, visiting processes and restarts, until *)
(* the record is trampled on in one of the four ways that WorkIsRecorded   *)
(* names (scheduler_service.py 45-114).                                    *)
(***************************************************************************)
THEOREM HostRecordsWork == Spec => []WorkIsRecorded
  <1>1. Init => HostInv BY TypedInit, CoreInit DEF HostInv
  <1>2. HostInv /\ [Next]_vars => HostInv' BY CoreNext
  <1>3. HostInv => WorkIsRecorded
    BY DEF HostInv, WorkIsRecorded, Core, Recorded, Mine
  <1> QED BY <1>1, <1>2, <1>3, PTL DEF Spec
=============================================================================
