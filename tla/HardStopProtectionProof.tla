---------------------- MODULE HardStopProtectionProof ----------------------
(***************************************************************************)
(* Theorems about HardStopProtection.                                      *)
(***************************************************************************)
EXTENDS HardStopProtection, TLAPS

USE DEF At

-----------------------------------------------------------------------------
(* Type correctness.                                                       *)

LEMMA LevelFacts == 0 \in Level /\ EntryStop \in Level /\ 1..MaxStop \subseteq Level
BY BoundAssumption DEF Level, EntryStop

LEMMA IdleTyped == IdleTask \in Task
BY LevelFacts, BoundAssumption DEF IdleTask, Task, Pc, Ack

\* Leaving a task and going on to its next step keep the tasks typed.
LEMMA TasksTyped ==
  ASSUME TypeOK, NEW w \in Worker
  PROVE  /\ Leave(w) => task' \in [Worker -> Task]
         /\ \A pc \in Pc : GoTo(w, pc) => task' \in [Worker -> Task]
<1>1. ASSUME Leave(w) PROVE task' \in [Worker -> Task]
  BY <1>1, IdleTyped DEF TypeOK, Leave
<1>2. ASSUME NEW pc \in Pc, GoTo(w, pc) PROVE task' \in [Worker -> Task]
  <2>1. [task[w] EXCEPT !.pc = pc] \in Task
    BY DEF TypeOK, Task
  <2>2. task' = [task EXCEPT ![w] = [task[w] EXCEPT !.pc = pc]]
    BY <1>2 DEF GoTo
  <2> QED BY <2>1, <2>2 DEF TypeOK
<1> QED BY <1>1, <1>2

LEMMA PendingTyped == \A p : Pending(p) \in RowStatus
BY DEF Pending, RowStatus

LEMMA FillsTyped ==
  ASSUME TypeOK, NEW w \in Worker, Fill(w)
  PROVE  TypeOK'
<1>1. PICK q \in 1..MaxTrades : BookBuy(w, q) \/ BookSell(w, q)
  BY DEF Fill
<1>2. CASE BookBuy(w, q)
  <2>1. held + q \in Nat /\ unbooked["buy"] - q \in Nat
    BY <1>2 DEF BookBuy, TypeOK, Side
  <2>3. held' \in Nat /\ unbooked' \in [Side -> Nat]
    BY <1>2, <2>1 DEF BookBuy, TypeOK
  <2>4. Pending(row.protected) \in RowStatus
    BY PendingTyped
  <2>5. row' \in Row
    BY <1>2, <2>1, <2>4, LevelFacts DEF BookBuy, TypeOK, Row
  <2>6. \A t \in Task : [t EXCEPT !.pc = "open", !.fill = q] \in Task
    <3>1. "open" \in Pc /\ q \in Nat
      BY DEF Pc
    <3> QED BY <3>1 DEF Task
  <2>7. task' \in [Worker -> Task]
    BY <1>2, <2>6, IdleTyped DEF BookBuy, TypeOK
  <2> QED BY <1>2, <2>3, <2>5, <2>7 DEF BookBuy, TypeOK, broker
<1>3. CASE BookSell(w, q)
  <2>1. held - q \in Nat /\ unbooked["sell"] - q \in Nat
    BY <1>3 DEF BookSell, TypeOK, Side
  <2>2. held' \in Nat /\ unbooked' \in [Side -> Nat]
    BY <1>3, <2>1 DEF BookSell, TypeOK
  <2>3. row' \in Row
    BY <1>3, <2>1 DEF BookSell, TypeOK, Row, RowStatus, CancelPending
  <2>4. \A t \in Task : [t EXCEPT !.pc = "remaining"] \in Task
    BY DEF Task, Pc
  <2>5. task' \in [Worker -> Task]
    BY <1>3, <2>4, IdleTyped DEF BookSell, TypeOK
  <2> QED BY <1>3, <2>2, <2>3, <2>5 DEF BookSell, TypeOK, broker
<1> QED BY <1>1, <1>2, <1>3

LEMMA ReadsTyped ==
  ASSUME TypeOK, NEW w \in Worker, Read(w)
  PROVE  TypeOK'
<1>1. task' \in [Worker -> Task]
  <2>1. CASE ReadOpen(w)
    <3>1. CASE Leave(w)
      BY <3>1, TasksTyped
    <3>2. CASE ~Leave(w)
      <4>1. [task[w] EXCEPT !.pc = "request", !.qty = held, !.stop = EntryStop] \in Task
        BY LevelFacts DEF TypeOK, Task, Pc
      <4>2. task' = [task EXCEPT ![w] = [task[w] EXCEPT !.pc = "request", !.qty = held,
                                                        !.stop = EntryStop]]
        BY <2>1, <3>2 DEF ReadOpen
      <4> QED BY <4>1, <4>2 DEF TypeOK
    <3> QED BY <3>1, <3>2
  <2>2. CASE ReadRemaining(w)
    <3>1. \A pc \in Pc : [task[w] EXCEPT !.qty = held, !.pc = pc] \in Task
      BY DEF TypeOK, Task
    <3>2. \E pc \in Pc : task' = [task EXCEPT ![w] = [task[w] EXCEPT !.qty = held, !.pc = pc]]
      BY <2>2 DEF ReadRemaining, Pc
    <3> QED BY <3>1, <3>2 DEF TypeOK
  <2>3. CASE ReadStop(w)
    <3>1. row.stop \in Level
      BY DEF TypeOK, Row
    <3>2. [task[w] EXCEPT !.stop = row.stop, !.pc = "request"] \in Task
      BY <3>1 DEF TypeOK, Task, Pc
    <3>3. task' = [task EXCEPT ![w] = [task[w] EXCEPT !.stop = row.stop, !.pc = "request"]]
      BY <2>3 DEF ReadStop
    <3> QED BY <3>2, <3>3 DEF TypeOK
  <2>4. CASE CheckNumbered(w)
    BY <2>4, TasksTyped DEF CheckNumbered, Pc
  <2> QED BY <2>1, <2>2, <2>3, <2>4 DEF Read
<1>2. UNCHANGED <<ledger, exchange, broker, lost, crashes>>
  BY DEF Read, ReadOpen, ReadRemaining, ReadStop, CheckNumbered
<1> QED BY <1>1, <1>2 DEF TypeOK, ledger, exchange, broker

\* What a call of the broker that is accepted leaves behind.
LEMMA AcceptTyped ==
  ASSUME TypeOK, NEW number \in 0..MaxStops, NEW q \in Nat, NEW s \in Level,
         Accept(number, q, s)
  PROVE  /\ stops' \in [1..MaxStops -> [qty : Nat, stop : Level]]
         /\ issued' \in 0..MaxStops
         /\ number = 0 => issued + 1 \in 1..MaxStops
<1>1. issued' \in 0..MaxStops /\ (number = 0 => issued + 1 \in 1..MaxStops)
  BY BoundAssumption DEF Accept, TypeOK
<1>2. [qty |-> q, stop |-> s] \in [qty : Nat, stop : Level]
  OBVIOUS
<1> QED BY <1>1, <1>2 DEF Accept, TypeOK

LEMMA CallsTyped ==
  ASSUME TypeOK, NEW w \in Worker, Call(w)
  PROVE  TypeOK'
<1>1. CASE CallRefused(w)
  <2>1. task' \in [Worker -> Task]
    BY <1>1, TasksTyped DEF CallRefused, Pc
  <2> QED BY <1>1, <2>1 DEF CallRefused, TypeOK, ledger, exchange, broker
<1>2. ASSUME NEW q \in 1..MaxTrades, CallAccepted(w, q) PROVE TypeOK'
  <2>1. task[w] \in Task /\ task[w].number \in 0..MaxStops /\ task[w].stop \in Level
    BY DEF TypeOK, Task
  <2>2. /\ stops' \in [1..MaxStops -> [qty : Nat, stop : Level]]
        /\ issued' \in 0..MaxStops
        /\ task[w].number = 0 => issued + 1 \in 0..MaxStops
    BY <1>2, <2>1, AcceptTyped DEF CallAccepted
  <2>3. task' \in [Worker -> Task]
    <3> DEFINE a == [number |-> IF task[w].number = 0 THEN issued + 1 ELSE task[w].number,
                     qty |-> q, stop |-> task[w].stop]
    <3>1. a \in Ack
      BY <2>1, <2>2 DEF Ack
    <3> HIDE DEF a
    <3>2. [task[w] EXCEPT !.pc = "record", !.ack = a] \in Task
      BY <3>1 DEF TypeOK, Task, Pc
    <3>3. task' = [task EXCEPT ![w] = [task[w] EXCEPT !.pc = "record", !.ack = a]]
      BY <1>2 DEF CallAccepted, a
    <3> QED BY <3>2, <3>3 DEF TypeOK
  <2> QED BY <1>2, <2>2, <2>3 DEF CallAccepted, TypeOK, ledger, exchange
<1>3. ASSUME NEW q \in 1..MaxTrades, CallLost(w, q) PROVE TypeOK'
  <2>1. task[w].number \in 0..MaxStops /\ task[w].stop \in Level
    BY DEF TypeOK, Task
  <2>2. /\ stops' \in [1..MaxStops -> [qty : Nat, stop : Level]]
        /\ issued' \in 0..MaxStops
    <3>1. Accept(task[w].number, q, task[w].stop) /\ q \in Nat
      BY <1>3 DEF CallLost
    <3> QED BY <2>1, <3>1, AcceptTyped
  <2>3. task' \in [Worker -> Task]
    BY <1>3, TasksTyped DEF CallLost, Pc
  <2> QED BY <1>3, <2>2, <2>3 DEF CallLost, TypeOK, ledger, exchange
<1> QED BY <1>1, <1>2, <1>3 DEF Call

LEMMA ActivatedTyped ==
  ASSUME TypeOK, NEW ack \in Ack
  PROVE  Activated(ack) \in Row
BY DEF TypeOK, Activated, AckedQty, Ack, Row, RowStatus

LEMMA AuditsTyped ==
  ASSUME TypeOK, NEW w \in Worker, Audit(w)
  PROVE  TypeOK'
<1>0. task[w] \in Task /\ task[w].ack \in Ack
  BY DEF TypeOK, Task
<1>1. row' \in Row /\ UNCHANGED <<held, exchange, broker, lost, crashes>>
  <2>1. CASE Adopt(w)
    BY <1>0, <2>1, ActivatedTyped DEF Adopt, TypeOK
  <2>2. CASE Compare(w) \/ Observe(w) \/ AuditFails(w)
    BY <2>2 DEF Compare, Observe, AuditFails, TypeOK, ledger
  <2> QED BY <2>1, <2>2 DEF Audit
<1>2. task' \in [Worker -> Task]
  <2>1. CASE Compare(w)
    BY <2>1, TasksTyped DEF Compare, Pc
  <2>2. CASE Observe(w)
    <3>1. CASE Active(task[w].number)
      <4>1. stops[task[w].number] \in [qty : Nat, stop : Level]
        BY <1>0, <3>1 DEF Active, TypeOK, Task
      <4> QED BY <1>0, <2>2, <3>1, <4>1 DEF Observe, TypeOK, Task, Ack, Pc
    <3>2. CASE ~Active(task[w].number)
      <4>1. [task[w] EXCEPT !.pc = "call", !.number = 0] \in Task
        <5>1. "call" \in Pc /\ 0 \in 0..MaxStops
          BY BoundAssumption DEF Pc
        <5> QED BY <1>0, <5>1 DEF Task
      <4>2. task' = [task EXCEPT ![w] = [task[w] EXCEPT !.pc = "call", !.number = 0]]
        BY <2>2, <3>2 DEF Observe
      <4> QED BY <4>1, <4>2 DEF TypeOK
    <3> QED BY <3>1, <3>2
  <2>3. CASE Adopt(w)
    <3>1. CASE Leave(w)
      BY <3>1, TasksTyped
    <3>2. CASE ~Leave(w)
      <4>1. row.required \in Nat /\ row'.stop \in Level /\ row'.number \in 0..MaxStops
        BY <1>1 DEF TypeOK, Row
      <4>2. [task[w] EXCEPT !.pc = "call", !.qty = row.required, !.stop = row'.stop,
                            !.number = row'.number] \in Task
        BY <1>0, <4>1 DEF Task, Pc
      <4>3. task' = [task EXCEPT ![w] = [task[w] EXCEPT !.pc = "call", !.qty = row.required,
                                           !.stop = row'.stop, !.number = row'.number]]
        BY <2>3, <3>2 DEF Adopt
      <4> QED BY <4>2, <4>3 DEF TypeOK
    <3> QED BY <3>1, <3>2
  <2>4. CASE AuditFails(w)
    BY <2>4, TasksTyped DEF AuditFails
  <2> QED BY <2>1, <2>2, <2>3, <2>4 DEF Audit
<1> QED BY <1>1, <1>2 DEF TypeOK, exchange, broker

LEMMA CancelsTyped ==
  ASSUME TypeOK, NEW w \in Worker, Cancel(w)
  PROVE  TypeOK'
<1>0. task[w] \in Task /\ task[w].number \in 0..MaxStops
  BY DEF TypeOK, Task
<1>1. task' \in [Worker -> Task]
  <2>1. CASE ReadNumber(w)
    <3>1. row.number \in 0..MaxStops
      BY DEF TypeOK, Row
    <3>2. [task[w] EXCEPT !.number = row.number, !.pc = "cancel"] \in Task
      BY <1>0, <3>1 DEF Task, Pc
    <3>3. task' = [task EXCEPT ![w] = [task[w] EXCEPT !.number = row.number, !.pc = "cancel"]]
      BY <2>1 DEF ReadNumber
    <3> QED BY <3>2, <3>3 DEF TypeOK
  <2>2. CASE AskCancel(w) \/ CheckFlat(w) \/ CancelAccepted(w) \/ CancelRefused(w)
             \/ CancelLost(w) \/ RecordCancel(w)
    BY <2>2, TasksTyped
       DEF AskCancel, CheckFlat, CancelAccepted, CancelRefused, CancelLost, RecordCancel, Pc
  <2> QED BY <2>1, <2>2 DEF Cancel
<1>2. row' \in Row
  <2>1. CASE AskCancel(w)
    BY <2>1 DEF AskCancel, TypeOK, Row, RowStatus, CancelPending
  <2>2. CASE RecordCancel(w)
    BY <2>2 DEF RecordCancel, TypeOK, Row, RowStatus
  <2>3. CASE ~AskCancel(w) /\ ~RecordCancel(w)
    BY <2>3 DEF Cancel, CheckFlat, ReadNumber, CancelAccepted, CancelRefused, CancelLost,
                TypeOK, ledger
  <2> QED BY <2>1, <2>2, <2>3
<1>3. ASSUME Removed(task[w].number)
      PROVE  stops' \in [1..MaxStops -> [qty : Nat, stop : Level]]
  BY <1>0, <1>3 DEF Removed, TypeOK
<1>4. stops' \in [1..MaxStops -> [qty : Nat, stop : Level]]
  BY <1>3 DEF Cancel, AskCancel, CheckFlat, ReadNumber, CancelAccepted, CancelRefused,
              CancelLost, RecordCancel, TypeOK, broker
<1>5. UNCHANGED <<held, exchange, issued, crashes>> /\ lost' \in Nat
  BY DEF Cancel, AskCancel, CheckFlat, ReadNumber, CancelAccepted, CancelRefused,
         CancelLost, RecordCancel, TypeOK, broker, ledger
<1> QED BY <1>1, <1>2, <1>4, <1>5 DEF TypeOK, exchange

LEMMA InitTyped == Init => TypeOK
BY LevelFacts, IdleTyped, BoundAssumption DEF Init, TypeOK, Row, RowStatus

LEMMA TypePreserved == TypeOK /\ [Next]_vars => TypeOK'
<1> SUFFICES ASSUME TypeOK, [Next]_vars PROVE TypeOK'
  OBVIOUS
<1>1. ASSUME NEW s \in Side, Trade(s) PROVE TypeOK'
  BY <1>1 DEF Trade, TypeOK, ledger, broker
<1>2. ASSUME NEW w \in Worker, Fill(w) \/ Tighten(w) \/ BeginAudit(w) \/ Step(w)
      PROVE  TypeOK'
  <2>1. CASE Fill(w)
    BY <2>1, FillsTyped
  <2>2. CASE Tighten(w)
    <3>1. PICK s \in 1..MaxStop : BeginTighten(w, s)
      BY <2>2 DEF Tighten
    <3>2. [IdleTask EXCEPT !.pc = "tighten", !.qty = held, !.stop = s] \in Task
      BY IdleTyped, LevelFacts DEF Task, Pc, TypeOK
    <3> QED BY <3>1, <3>2 DEF BeginTighten, TypeOK, ledger, exchange, broker
  <2>3. CASE BeginAudit(w)
    <3>1. [IdleTask EXCEPT !.pc = "compare", !.audit = TRUE, !.fill = held] \in Task
      BY IdleTyped DEF Task, Pc, TypeOK
    <3> QED BY <2>3, <3>1 DEF BeginAudit, TypeOK, ledger, exchange, broker
  <2>4. CASE Request(w)
    <3>1. row' \in Row
      BY <2>4, PendingTyped DEF Request, TypeOK, Task, Row
    <3>2. task' \in [Worker -> Task]
      <4>1. CASE Leave(w)
        BY <4>1, TasksTyped
      <4>2. CASE ~Leave(w)
        <5>1. row.number \in 0..MaxStops
          BY DEF TypeOK, Row
        <5>2. \A pc \in Pc : [task[w] EXCEPT !.number = row.number, !.pc = pc] \in Task
          BY <5>1 DEF TypeOK, Task
        <5>3. \E pc \in Pc :
                task' = [task EXCEPT ![w] = [task[w] EXCEPT !.number = row.number, !.pc = pc]]
          BY <2>4, <4>2 DEF Request, Pc
        <5> QED BY <5>2, <5>3 DEF TypeOK
      <4> QED BY <4>1, <4>2
    <3> QED BY <2>4, <3>1, <3>2 DEF Request, TypeOK, exchange, broker
  <2>5. CASE RecordAck(w)
    <3>1. row' \in Row
      BY <2>5, ActivatedTyped DEF RecordAck, TypeOK, Task
    <3> QED BY <2>5, <3>1, TasksTyped DEF RecordAck, TypeOK, exchange, broker
  <2>6. CASE Fail(w)
    <3>1. row' \in Row
      BY <2>6 DEF Fail, TypeOK, Row, RowStatus
    <3> QED BY <2>6, <3>1, TasksTyped DEF Fail, TypeOK, exchange, broker
  <2> QED BY <1>2, <2>1, <2>2, <2>3, <2>4, <2>5, <2>6, ReadsTyped, CallsTyped, AuditsTyped,
             CancelsTyped DEF Step
<1>3. ASSUME Crash PROVE TypeOK'
  BY <1>3, IdleTyped DEF Crash, TypeOK, ledger, exchange, broker
<1>4. ASSUME UNCHANGED vars PROVE TypeOK'
  BY <1>4 DEF vars, TypeOK
<1> QED BY <1>1, <1>2, <1>3, <1>4 DEF Next

\* Every variable keeps its type, whatever fills, audits, calls and restarts overlap.
THEOREM ProtectionTypeCorrect == Spec => []TypeOK
<1>1. Init => TypeOK
  BY InitTyped
<1>2. TypeOK /\ [Next]_vars => TypeOK'
  BY TypePreserved
<1> QED BY <1>1, <1>2, PTL DEF Spec

-----------------------------------------------------------------------------
(* What a step may do to the row.                                          *)

\* Every step that writes the row, seen from the row: a fill, a request for the open
\* quantity, an answer that fits, or a new status only.
RowStep ==
  \/ UNCHANGED <<held, row>>
  \/ \E w \in Worker, q \in 1..MaxTrades : BookBuy(w, q) \/ BookSell(w, q)
  \/ \E w \in Worker : At(w, "request") /\ Request(w)
  \/ \E ack \in Ack : AckFits(ack) /\ row' = Activated(ack) /\ held' = held
  \/ row' = [row EXCEPT !.status = "failed"] /\ held' = held
  \/ /\ held = 0 /\ held' = 0
     /\ \/ row' = [row EXCEPT !.status = CancelPending]
        \/ row' = [row EXCEPT !.status = "canceled", !.protected = 0]

LEMMA StepsOfRow == TypeOK /\ [Next]_vars => RowStep
<1> SUFFICES ASSUME TypeOK, [Next]_vars PROVE RowStep
  OBVIOUS
<1>1. CASE UNCHANGED vars
  BY <1>1 DEF vars, RowStep
<1>2. CASE Crash \/ \E s \in Side : Trade(s)
  BY <1>2 DEF Crash, Trade, ledger, RowStep
<1>3. ASSUME NEW w \in Worker, Fill(w) PROVE RowStep
  BY <1>3 DEF Fill, RowStep
<1>4. ASSUME NEW w \in Worker, Tighten(w) \/ BeginAudit(w) \/ Read(w) \/ Call(w) PROVE RowStep
  BY <1>4 DEF Tighten, BeginTighten, BeginAudit, Read, ReadOpen, ReadRemaining, ReadStop,
              CheckNumbered, Call, CallRefused, CallAccepted, CallLost, ledger, RowStep
<1>5. ASSUME NEW w \in Worker, Request(w) PROVE RowStep
  BY <1>5 DEF Request, RowStep
<1>6. ASSUME NEW w \in Worker, RecordAck(w) \/ Audit(w) PROVE RowStep
  <2>1. task[w].ack \in Ack
    BY DEF TypeOK, Task
  <2> QED BY <1>6, <2>1 DEF RecordAck, Audit, Compare, Observe, Adopt, AuditFails, ledger,
                            RowStep
<1>7. ASSUME NEW w \in Worker, Fail(w) PROVE RowStep
  BY <1>7 DEF Fail, RowStep
<1>8. ASSUME NEW w \in Worker, Cancel(w) PROVE RowStep
  <2>1. held \in Nat
    BY DEF TypeOK
  <2>2. CASE AskCancel(w)
    BY <2>1, <2>2 DEF AskCancel, RowStep
  <2>3. CASE RecordCancel(w)
    BY <2>1, <2>3 DEF RecordCancel, RowStep
  <2>4. CASE ~AskCancel(w) /\ ~RecordCancel(w)
    BY <1>8, <2>4 DEF Cancel, CheckFlat, ReadNumber, CancelAccepted, CancelRefused, CancelLost,
                      ledger, RowStep
  <2> QED BY <2>2, <2>3, <2>4
<1> QED BY <1>1, <1>2, <1>3, <1>4, <1>5, <1>6, <1>7, <1>8 DEF Next, Step

-----------------------------------------------------------------------------
(* The stop level.                                                         *)

LEMMA StopKept == TypeOK /\ RowStep => row'.stop >= row.stop
<1> SUFFICES ASSUME TypeOK, RowStep PROVE row'.stop >= row.stop
  OBVIOUS
<1>0. row.stop \in Int /\ row \in Row
  BY DEF TypeOK, Row, Level
<1>1. ASSUME NEW w \in Worker, NEW q \in 1..MaxTrades, BookBuy(w, q)
      PROVE  row'.stop >= row.stop
  BY <1>0, <1>1 DEF BookBuy, EntryStop, Row
<1>2. ASSUME NEW w \in Worker, NEW q \in 1..MaxTrades, BookSell(w, q)
      PROVE  row'.stop >= row.stop
  BY <1>0, <1>2 DEF BookSell, Row
<1>3. ASSUME NEW w \in Worker, Request(w) PROVE row'.stop >= row.stop
  <2>1. CASE Requestable(task[w].qty, task[w].stop)
    <3>1. row'.stop = task[w].stop
      BY <1>0, <1>3, <2>1 DEF Request, Row
    <3> QED BY <2>1, <3>1 DEF Requestable
  <2>2. CASE ~Requestable(task[w].qty, task[w].stop)
    BY <1>0, <1>3, <2>2 DEF Request
  <2> QED BY <2>1, <2>2
<1>4. ASSUME NEW ack \in Ack, AckFits(ack), row' = Activated(ack) PROVE row'.stop >= row.stop
  BY <1>0, <1>4 DEF AckFits, Activated, Row
<1>5. CASE \/ row' = [row EXCEPT !.status = "failed"]
           \/ row' = [row EXCEPT !.status = CancelPending]
           \/ row' = [row EXCEPT !.status = "canceled", !.protected = 0]
           \/ UNCHANGED row
  <2>1. row'.stop = row.stop
    BY <1>0, <1>5 DEF Row
  <2> QED BY <1>0, <2>1
<1> QED BY <1>1, <1>2, <1>3, <1>4, <1>5 DEF RowStep

\* The level on record never moves down, whatever overlaps: every write of the row compares
\* its level with the row's in the same transaction (ai_runtime_repository.py).
THEOREM RecordedStopNeverLoosens == Spec => [][row'.stop >= row.stop]_vars
<1>1. TypeOK /\ [Next]_vars => [row'.stop >= row.stop]_vars
  BY StepsOfRow, StopKept
<1> QED BY <1>1, ProtectionTypeCorrect, PTL DEF Spec

-----------------------------------------------------------------------------
(* The required quantity.                                                  *)

LEMMA RequiredKept == TypeOK /\ RequiredIsOpen /\ RowStep => RequiredIsOpen'
<1> SUFFICES ASSUME TypeOK, RequiredIsOpen, RowStep, held' > 0
             PROVE  row'.status # "none" /\ row'.required = held'
  BY DEF RequiredIsOpen
<1>0. held \in Nat /\ row \in Row
  BY DEF TypeOK
<1>1. ASSUME NEW w \in Worker, NEW q \in 1..MaxTrades, BookBuy(w, q)
      PROVE  row'.status # "none" /\ row'.required = held'
  BY <1>0, <1>1 DEF BookBuy, Pending, Row
<1>2. ASSUME NEW w \in Worker, NEW q \in 1..MaxTrades, BookSell(w, q)
      PROVE  row'.status # "none" /\ row'.required = held'
  <2>1. held > 0 /\ held # q
    BY <1>0, <1>2 DEF BookSell
  <2> QED BY <1>0, <1>2, <2>1 DEF BookSell, Row, RequiredIsOpen
<1>3. ASSUME NEW w \in Worker, Request(w)
      PROVE  row'.status # "none" /\ row'.required = held'
  BY <1>0, <1>3 DEF Request, Requestable, Pending, Row, RequiredIsOpen
<1>4. ASSUME NEW ack \in Ack, row' = Activated(ack), held' = held
      PROVE  row'.status # "none" /\ row'.required = held'
  BY <1>0, <1>4 DEF Activated, Row, RequiredIsOpen
<1>5. CASE held' = held /\ (row' = [row EXCEPT !.status = "failed"] \/ UNCHANGED row)
  BY <1>0, <1>5 DEF Row, RequiredIsOpen
<1> QED BY <1>1, <1>2, <1>3, <1>4, <1>5 DEF RowStep

\* The row of an open position asks for exactly the open quantity, for any number of
\* workers: a request whose quantity has been overtaken by a fill is refused.
THEOREM RequiredFollowsPosition == Spec => []RequiredIsOpen
<1>1. Init => RequiredIsOpen
  BY DEF Init, RequiredIsOpen
<1>2. TypeOK /\ RequiredIsOpen /\ [Next]_vars => RequiredIsOpen'
  BY StepsOfRow, RequiredKept
<1> QED BY <1>1, <1>2, ProtectionTypeCorrect, PTL DEF Spec

-----------------------------------------------------------------------------
(* The levels the broker has heard of.                                     *)

\* What is about to be asked of the broker has been written down.
AskedIsOnRecord == \A w \in Worker : task[w].pc \in {"call", "observe"} => task[w].stop <= row.stop

StopInv == TypeOK /\ StopIsOnRecord /\ AskedIsOnRecord

\* Transitivity, for levels.
LEMMA Below == \A a, b, c \in Level : a <= b /\ c >= b => a <= c
BY DEF Level

\* A step that sends nothing to the broker leaves its orders alone or inactive.
LEMMA StopsKept ==
  ASSUME StopInv, [Next]_vars,
         \A w \in Worker, q \in 1..MaxTrades : ~CallAccepted(w, q) /\ ~CallLost(w, q)
  PROVE  StopIsOnRecord'
<1>1. row'.stop >= row.stop /\ row'.stop \in Level /\ row.stop \in Level
  BY StepsOfRow, StopKept, TypePreserved DEF StopInv, TypeOK, Row
<1>2. \A i \in 1..MaxStops : /\ stops'[i].stop = stops[i].stop /\ stops[i].stop \in Level
                             /\ stops'[i].qty > 0 => stops[i].qty > 0
  <2>1. CASE stops' = stops
    BY <2>1 DEF StopInv, TypeOK
  <2>2. CASE \E w \in Worker : Removed(task[w].number)
    BY <2>2 DEF StopInv, TypeOK, Removed
  <2>3. stops' = stops \/ \E w \in Worker : Removed(task[w].number)
    BY DEF Next, vars, Crash, Trade, Fill, BookBuy, BookSell, Tighten, BeginTighten, BeginAudit,
           Step, Read, ReadOpen, ReadRemaining, ReadStop, CheckNumbered, Request, Call,
           CallRefused, RecordAck, Fail, Audit, Compare, Observe, Adopt, AuditFails, Cancel,
           AskCancel, CheckFlat, ReadNumber, CancelAccepted, CancelRefused, CancelLost,
           RecordCancel, broker
  <2> QED BY <2>1, <2>2, <2>3
<1>3. ASSUME NEW i \in 1..MaxStops, stops'[i].qty > 0 PROVE stops'[i].stop <= row'.stop
  <2>1. Active(i) /\ stops'[i].stop = stops[i].stop /\ stops[i].stop \in Level
    <3>1. i # 0
      BY BoundAssumption
    <3>2. /\ stops'[i].stop = stops[i].stop /\ stops[i].stop \in Level
          /\ stops'[i].qty > 0 => stops[i].qty > 0
      BY <1>2
    <3> QED BY <1>3, <3>1, <3>2 DEF Active
  <2>2. stops[i].stop <= row.stop
    BY <2>1 DEF StopInv, StopIsOnRecord
  <2> QED BY <1>1, <2>1, <2>2, Below
<1> QED BY <1>3 DEF StopIsOnRecord, Active

LEMMA CallKeepsStops ==
  ASSUME StopInv, NEW w \in Worker, NEW q \in 1..MaxTrades, CallAccepted(w, q) \/ CallLost(w, q)
  PROVE  StopIsOnRecord'
<1>1. /\ task[w].stop <= row.stop /\ row' = row
      /\ Accept(task[w].number, q, task[w].stop)
  BY DEF StopInv, AskedIsOnRecord, CallAccepted, CallLost, ledger
<1>2. \A i \in 1..MaxStops : stops'[i] = stops[i] \/ stops'[i].stop = task[w].stop
  BY <1>1 DEF Accept, StopInv, TypeOK
<1> QED BY <1>1, <1>2 DEF StopInv, StopIsOnRecord, Active

\* Where a worker is after leaving its task, going on, or beginning one.
LEMMA TaskAfter ==
  ASSUME TypeOK, NEW w \in Worker, NEW v \in Worker
  PROVE  /\ Leave(w) => task'[v] = (IF v = w THEN IdleTask ELSE task[v])
         /\ \A pc \in Pc : GoTo(w, pc) =>
              task'[v] = IF v = w THEN [task[v] EXCEPT !.pc = pc] ELSE task[v]
  BY DEF TypeOK, Leave, GoTo

LEMMA AskedKept == ASSUME StopInv, [Next]_vars PROVE AskedIsOnRecord'
<1>1. /\ row'.stop >= row.stop /\ row'.stop \in Level /\ row.stop \in Level
      /\ \A w \in Worker : task[w].stop \in Level /\ task[w] \in Task
  BY StepsOfRow, StopKept, TypePreserved DEF StopInv, TypeOK, Row, Task
<1>2. SUFFICES ASSUME NEW v \in Worker, task'[v].pc \in {"call", "observe"}
               PROVE  task'[v].stop <= row'.stop
  BY DEF AskedIsOnRecord
<1>3. CASE task'[v] = task[v]
  BY <1>1, <1>2, <1>3, Below DEF StopInv, AskedIsOnRecord
<1>4. CASE Request(v)
  <2>1. Requestable(task[v].qty, task[v].stop)
    BY <1>2, <1>4, TaskAfter DEF Request, StopInv, IdleTask
  <2>2. task'[v].stop = task[v].stop
    BY <1>1, <1>4, <2>1 DEF Request, StopInv, TypeOK, Task
  <2>3. row'.stop = task[v].stop
    BY <1>4, <2>1 DEF Request, StopInv, TypeOK, Row
  <2> QED BY <1>1, <2>2, <2>3 DEF Level
<1>5. CASE Observe(v)
  <2>1. task'[v].stop = task[v].stop /\ task[v].pc = "observe"
    BY <1>1, <1>5 DEF Observe, StopInv, TypeOK
  <2> QED BY <1>1, <2>1, Below DEF StopInv, AskedIsOnRecord
<1>6. CASE Adopt(v)
  <2>1. task'[v].stop = row'.stop
    <3>1. ~Leave(v)
      BY <1>2, TaskAfter DEF StopInv, IdleTask
    <3> QED BY <1>1, <1>6, <3>1 DEF Adopt, StopInv, TypeOK, Task
  <2> QED BY <1>1, <2>1 DEF Level
<1>7. \A w \in Worker : /\ Leave(w) => task'[v] = task[v]
                        /\ \A pc \in Pc \ {"call", "observe"} : GoTo(w, pc) => task'[v] = task[v]
  <2>1. ASSUME NEW w \in Worker, Leave(w) PROVE task'[v] = task[v]
    BY <1>2, <2>1, TaskAfter DEF StopInv, IdleTask
  <2>2. ASSUME NEW w \in Worker, NEW pc \in Pc \ {"call", "observe"}, GoTo(w, pc)
        PROVE  task'[v] = task[v]
    <3>1. CASE v = w
      <4>1. task'[v] = [task[v] EXCEPT !.pc = pc]
        BY <2>2, <3>1, TaskAfter DEF StopInv
      <4>2. task'[v].pc = pc
        BY <1>1, <4>1 DEF Task
      <4> QED BY <1>2, <2>2, <4>2
    <3>2. CASE v # w
      BY <2>2, <3>2, TaskAfter DEF StopInv
    <3> QED BY <3>1, <3>2
  <2> QED BY <2>1, <2>2
<1>8. task'[v] = task[v] \/ Request(v) \/ Observe(v) \/ Adopt(v)
  <2>1. CASE UNCHANGED vars
    BY <2>1 DEF vars
  <2>2. CASE \E s \in Side : Trade(s)
    BY <2>2 DEF Trade
  <2>3. ASSUME NEW w \in Worker, Fill(w) \/ Tighten(w) \/ BeginAudit(w)
        PROVE  task'[v] = task[v]
    <3>1. CASE \E q \in 1..MaxTrades : BookBuy(w, q)
      BY <1>1, <1>2, <1>7, <3>1 DEF BookBuy, IdleTask, Pc, Task, StopInv, TypeOK
    <3>2. CASE \E q \in 1..MaxTrades : BookSell(w, q)
      BY <1>1, <1>2, <1>7, <3>2 DEF BookSell, IdleTask, Pc, Task, StopInv, TypeOK
    <3>3. CASE Tighten(w)
      BY <1>1, <1>2, <1>7, <3>3 DEF Tighten, BeginTighten, IdleTask, Pc, Task, StopInv, TypeOK
    <3>4. CASE BeginAudit(w)
      BY <1>1, <1>2, <1>7, <3>4 DEF BeginAudit, IdleTask, Pc, Task, StopInv, TypeOK
    <3> QED BY <2>3, <3>1, <3>2, <3>3, <3>4 DEF Fill
  <2>4. ASSUME NEW w \in Worker, Read(w) \/ Call(w) \/ RecordAck(w) \/ Fail(w)
        PROVE  task'[v] = task[v]
    <3>1. CASE ReadOpen(w)
      BY <1>1, <1>2, <1>7, <3>1 DEF ReadOpen, Task, StopInv, TypeOK
    <3>2. CASE ReadRemaining(w)
      BY <1>1, <1>2, <1>7, <3>2 DEF ReadRemaining, IdleTask, Pc, Task, StopInv, TypeOK
    <3>3. CASE ReadStop(w)
      BY <1>1, <1>2, <1>7, <3>3 DEF ReadStop, IdleTask, Pc, Task, StopInv, TypeOK
    <3>4. CASE CheckNumbered(w)
      BY <1>7, <3>4 DEF CheckNumbered, Pc
    <3>5. CASE CallRefused(w)
      BY <1>7, <3>5 DEF CallRefused, Pc
    <3>6. CASE \E q \in 1..MaxTrades : CallAccepted(w, q)
      BY <1>1, <1>2, <1>7, <3>6 DEF CallAccepted, IdleTask, Pc, Task, StopInv, TypeOK
    <3>7. CASE \E q \in 1..MaxTrades : CallLost(w, q)
      BY <1>7, <3>7 DEF CallLost, Pc
    <3>8. CASE RecordAck(w)
      BY <1>7, <3>8 DEF RecordAck, Pc
    <3>9. CASE Fail(w)
      BY <1>7, <3>9 DEF Fail, Pc
    <3> QED BY <2>4, <3>1, <3>2, <3>3, <3>4, <3>5, <3>6, <3>7, <3>8, <3>9 DEF Read, Call
  <2>5. ASSUME NEW w \in Worker, Cancel(w) \/ Compare(w) \/ AuditFails(w)
        PROVE  task'[v] = task[v]
    <3>1. CASE AskCancel(w)
      BY <1>7, <3>1 DEF AskCancel, Pc
    <3>2. CASE CheckFlat(w)
      BY <1>7, <3>2 DEF CheckFlat, Pc
    <3>3. CASE ReadNumber(w)
      BY <1>1, <1>2, <1>7, <3>3 DEF ReadNumber, IdleTask, Pc, Task, StopInv, TypeOK
    <3>4. CASE CancelAccepted(w)
      BY <1>7, <3>4 DEF CancelAccepted, Pc
    <3>5. CASE CancelRefused(w)
      BY <1>7, <3>5 DEF CancelRefused, Pc
    <3>6. CASE CancelLost(w)
      BY <1>7, <3>6 DEF CancelLost, Pc
    <3>7. CASE RecordCancel(w)
      BY <1>7, <3>7 DEF RecordCancel, Pc
    <3>8. CASE Compare(w)
      BY <1>7, <3>8 DEF Compare, Pc
    <3>9. CASE AuditFails(w)
      BY <1>7, <3>9 DEF AuditFails, Pc
    <3> QED BY <2>5, <3>1, <3>2, <3>3, <3>4, <3>5, <3>6, <3>7, <3>8, <3>9 DEF Cancel
  <2>6. ASSUME NEW w \in Worker, w # v, Request(w) \/ Observe(w) \/ Adopt(w)
        PROVE  task'[v] = task[v]
    BY <2>6 DEF Request, Observe, Adopt, Leave, StopInv, TypeOK
  <2>7. CASE Crash
    BY <1>2, <2>7 DEF Crash, IdleTask
  <2> QED BY <2>1, <2>2, <2>3, <2>4, <2>5, <2>6, <2>7 DEF Next, Step, Audit
<1> QED BY <1>3, <1>4, <1>5, <1>6, <1>8

\* For any number of overlapping workers no stop order at the broker is above the level on
\* record: requests are written down before they are sent and no write takes the level back.
THEOREM StopsAreOnRecord == Spec => []StopIsOnRecord
<1>1. Init => StopInv
  BY InitTyped DEF Init, StopInv, StopIsOnRecord, AskedIsOnRecord, Active, IdleTask
<1>2. StopInv /\ [Next]_vars => StopInv'
  <2> SUFFICES ASSUME StopInv, [Next]_vars PROVE StopInv'
    OBVIOUS
  <2>1. TypeOK' /\ AskedIsOnRecord'
    BY TypePreserved, AskedKept DEF StopInv
  <2>2. StopIsOnRecord'
    BY StopsKept, CallKeepsStops
  <2> QED BY <2>1, <2>2 DEF StopInv
<1>3. StopInv => StopIsOnRecord
  BY DEF StopInv
<1> QED BY <1>1, <1>2, <1>3, PTL DEF Spec
=============================================================================
