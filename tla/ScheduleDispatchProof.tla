----------------------- MODULE ScheduleDispatchProof -----------------------
(***************************************************************************)
(* Proofs about ScheduleDispatch: types, and that a strategy rests for its *)
(* interval.                                                               *)
(*                                                                         *)
(* Rested says why: while a strategy rests, the age of its row and what is *)
(* left of its rest together do not exceed the interval, so the row is not *)
(* due; and a plan names no strategy that rests, because only the holder   *)
(* of the lock has one and it has taken what it runs out of it.            *)
(***************************************************************************)
EXTENDS ScheduleDispatch, TLAPS

Planned == /\ \A d \in Dispatchers : todo[d] # {} => lock = d
           /\ \A d \in Dispatchers : on[d] \notin todo[d]

Rested == /\ \A s \in Strategies :
               wait[s] > 0 => row[Owner(s)].age + wait[s] <= row[Owner(s)].interval
          /\ \A d \in Dispatchers, s \in Strategies : s \in todo[d] => wait[s] = 0
          /\ \A d \in Dispatchers, s \in Applicable : pc[d] = "resolving" => wait[s] = 0

Invariant == TypeOK /\ Planned /\ Rested

-----------------------------------------------------------------------------
LEMMA OwnerIsSchedule == ASSUME NEW s \in Strategies PROVE Owner(s) \in Schedules
  BY DEF Owner, Schedules, Strategies

LEMMA NoneIsNoStrategy == None \notin Strategies /\ None \notin Dispatchers /\ None # "daily"
  BY ScheduleAssumption

LEMMA InitInvariant == Init => Invariant
  <1> SUFFICES ASSUME Init PROVE Invariant OBVIOUS
  <1>1. TypeOK
    BY ScheduleAssumption, NoneIsNoStrategy DEF Init, TypeOK, Row
  <1>2. Planned BY NoneIsNoStrategy DEF Init, Planned
  <1>3. Rested BY DEF Init, Rested
  <1> QED BY <1>1, <1>2, <1>3 DEF Invariant

-----------------------------------------------------------------------------
(* The jobs *)

LEMMA LockInvariant ==
  ASSUME Invariant, NEW d \in Dispatchers, TakeLock(d) \/ Finish(d) \/ Crash(d)
  PROVE  Invariant'
  <1>1. TypeOK'
    BY NoneIsNoStrategy DEF Invariant, TypeOK, TakeLock, Finish, Crash, Spend
  <1>2. Planned'
    BY NoneIsNoStrategy DEF Invariant, TypeOK, Planned, TakeLock, Finish, Crash
  <1>3. Rested'
    BY DEF Invariant, TypeOK, Rested, TakeLock, Finish, Crash
  <1> QED BY <1>1, <1>2, <1>3 DEF Invariant

LEMMA DueRests ==
  ASSUME Invariant, NEW s \in Strategies, Due(Owner(s))
  PROVE  wait[s] = 0
  <1>1. /\ row[Owner(s)].age \in Nat /\ row[Owner(s)].interval \in Nat
        /\ wait[s] \in Nat
    BY OwnerIsSchedule, ScheduleAssumption DEF Invariant, TypeOK, Row
  <1> QED BY <1>1 DEF Due, Invariant, Rested

LEMMA PlanInvariant ==
  ASSUME Invariant, NEW d \in Dispatchers, Plan(d)
  PROVE  Invariant'
  <1> DEFINE P == {c \in Fixed : Due(c)}
  <1>1. P \subseteq Strategies BY DEF Strategies
  <1>2. todo' = [todo EXCEPT ![d] = P] BY DEF Plan
  <1>3. TypeOK'
    BY <1>1, <1>2 DEF Invariant, TypeOK, Plan
  <1>4. Planned'
    <2>1. lock = d BY DEF Invariant, TypeOK, Plan
    <2>2. on[d] = None BY DEF Invariant, TypeOK, Plan
    <2> QED BY <1>1, <1>2, <2>1, <2>2, NoneIsNoStrategy DEF Invariant, TypeOK, Planned, Plan
  <1>5. Rested'
    <2>1. ASSUME NEW s \in P PROVE wait[s] = 0
      <3>1. s \in Strategies /\ Due(Owner(s)) BY <1>1 DEF Owner
      <3> QED BY <3>1, DueRests
    <2>2. ASSUME Due(Slot), NEW s \in Applicable PROVE wait[s] = 0
      <3>1. s \in Strategies /\ Owner(s) = Slot
        BY ScheduleAssumption DEF Strategies, Owner
      <3> QED BY <2>2, <3>1, DueRests
    <2> QED BY <1>2, <2>1, <2>2 DEF Invariant, TypeOK, Rested, Plan
  <1> QED BY <1>3, <1>4, <1>5 DEF Invariant

LEMMA ResolveInvariant ==
  ASSUME Invariant, NEW d \in Dispatchers, Resolve(d)
  PROVE  Invariant'
  <1>1. /\ todo' \in {todo, [todo EXCEPT ![d] = @ \cup applied]}
        /\ faults' \in Nat
    BY DEF Resolve, Spend, Invariant, TypeOK
  <1>2. applied \subseteq Applicable /\ Applicable \subseteq Strategies
    BY DEF Invariant, TypeOK, Strategies
  <1>3. lock = d /\ on[d] = None BY DEF Invariant, TypeOK, Resolve
  <1>4. TypeOK'
    BY <1>1, <1>2 DEF Invariant, TypeOK, Resolve
  <1>5. Planned'
    BY <1>1, <1>2, <1>3, NoneIsNoStrategy DEF Invariant, TypeOK, Planned, Resolve
  <1>6. Rested'
    BY <1>1, <1>2 DEF Invariant, TypeOK, Rested, Resolve
  <1> QED BY <1>4, <1>5, <1>6 DEF Invariant

LEMMA RunInvariant ==
  ASSUME Invariant, NEW d \in Dispatchers,
         RunFails(d) \/ RunDone(d) \/ \E s \in Strategies : RunStarts(d, s)
  PROVE  Invariant'
  <1>1. TypeOK'
    BY NoneIsNoStrategy DEF Invariant, TypeOK, RunFails, RunDone, RunStarts
  <1>2. Planned'
    BY NoneIsNoStrategy DEF Invariant, TypeOK, Planned, RunFails, RunDone, RunStarts
  <1>3. Rested'
    BY DEF Invariant, TypeOK, Rested, RunFails, RunDone, RunStarts
  <1> QED BY <1>1, <1>2, <1>3 DEF Invariant

LEMMA MarkInvariant ==
  ASSUME Invariant, NEW d \in Dispatchers, Mark(d)
  PROVE  Invariant'
  <1> DEFINE s == on[d]
             marked == [c \in Schedules |-> IF c = MarkedRow(s) THEN [row[c] EXCEPT !.age = 0]
                                            ELSE row[c]]
  <1>1. s \in Strategies /\ lock = d BY NoneIsNoStrategy DEF Invariant, TypeOK, Mark
  <1>2. Owner(s) \in Schedules BY <1>1, OwnerIsSchedule
  <1>3. row[Owner(s)].interval \in 1 .. MaxInterval
    BY <1>2 DEF Invariant, TypeOK, Row
  <1>4. marked \in [Schedules -> Row]
    BY ScheduleAssumption DEF Invariant, TypeOK, Row
  <1>5. /\ row' \in {row, marked}
        /\ wait' \in {wait, [wait EXCEPT ![s] = row[Owner(s)].interval]}
        /\ faults' \in Nat
    BY DEF Mark, Spend, Invariant, TypeOK
  <1>6. wait' \in [Strategies -> 0 .. MaxInterval]
    BY <1>1, <1>3, <1>5, ScheduleAssumption DEF Invariant, TypeOK
  <1>7. TypeOK'
    BY <1>4, <1>5, <1>6, NoneIsNoStrategy DEF Invariant, TypeOK, Mark
  <1>8. Planned'
    BY <1>1, NoneIsNoStrategy DEF Invariant, TypeOK, Planned, Mark
  <1>9. Rested'
    <2>1. CASE row' = row /\ wait' = wait
      BY <2>1 DEF Invariant, Rested, Mark
    <2>2. CASE row' = marked /\ wait' = [wait EXCEPT ![s] = row[Owner(s)].interval]
      <3>1. ASSUME NEW t \in Strategies, wait'[t] > 0
            PROVE  row'[Owner(t)].age + wait'[t] <= row'[Owner(t)].interval
        <4>0. Owner(t) \in Schedules BY OwnerIsSchedule
        <4>1. /\ row[Owner(t)].age \in Nat /\ row[Owner(t)].interval \in Nat
              /\ wait[t] \in Nat
          BY <4>0, ScheduleAssumption DEF Invariant, TypeOK, Row
        <4>2. row'[Owner(t)].interval = row[Owner(t)].interval
          BY <2>2, <4>0 DEF Invariant, TypeOK, Row
        <4>3. CASE t = s
          <5>1. wait'[t] = row[Owner(t)].interval BY <2>2, <4>3, <1>1 DEF Invariant, TypeOK
          <5>2. row'[Owner(t)].age = 0
            BY <2>2, <4>0, <4>3 DEF MarkedRow, Invariant, TypeOK, Row
          <5> QED BY <4>1, <4>2, <5>1, <5>2
        <4>4. CASE t # s
          <5>1. wait'[t] = wait[t] BY <2>2, <4>4 DEF Invariant, TypeOK
          <5>2. row'[Owner(t)].age = 0 \/ row'[Owner(t)].age = row[Owner(t)].age
            BY <2>2, <4>0 DEF Invariant, TypeOK, Row
          <5>3. row[Owner(t)].age + wait[t] <= row[Owner(t)].interval
            BY <3>1, <5>1 DEF Invariant, Rested
          <5> QED BY <4>1, <4>2, <5>1, <5>2, <5>3
        <4> QED BY <4>3, <4>4
      <3>2. ASSUME NEW e \in Dispatchers, NEW t \in Strategies, t \in todo'[e]
            PROVE  wait'[t] = 0
        <4>1. e = d BY <1>1, <3>2, NoneIsNoStrategy DEF Invariant, Planned, Mark
        <4>2. t # s BY <3>2, <4>1 DEF Invariant, Planned, Mark
        <4> QED BY <2>2, <3>2, <4>2 DEF Invariant, TypeOK, Rested, Mark
      <3>3. ASSUME NEW e \in Dispatchers, NEW t \in Applicable, pc'[e] = "resolving"
            PROVE  wait'[t] = 0
        <4>1. e # d /\ lock # e BY <1>1, <3>3 DEF Invariant, TypeOK, Mark
        <4> QED BY <3>3, <4>1 DEF Invariant, TypeOK, Mark
      <3> QED BY <3>1, <3>2, <3>3 DEF Rested
    <2> QED BY <2>1, <2>2 DEF Mark
  <1> QED BY <1>7, <1>8, <1>9 DEF Invariant

-----------------------------------------------------------------------------
(* The dashboard and the clock *)

LEMMA EditInvariant ==
  ASSUME Invariant, NEW k \in Clerks, EditSaves(k) \/ \E c \in Schedules : EditLoads(k, c)
  PROVE  Invariant'
  <1>1. CASE EditSaves(k)
    <2> DEFINE copy == edit[k]
    <2>1. copy \in Copy BY <1>1 DEF Invariant, TypeOK, EditSaves
    <2>2. PICK enabled \in BOOLEAN, interval \in 1 .. MaxInterval :
            row' = [row EXCEPT ![copy.schedule] = [enabled |-> enabled, interval |-> interval,
                                                   age |-> copy.age]]
      BY <1>1 DEF EditSaves
    <2>3. [enabled |-> enabled, interval |-> interval, age |-> copy.age] \in Row
      BY <2>1 DEF Copy, Row
    <2>4. wait' = [s \in Strategies |-> IF Owner(s) = copy.schedule THEN 0 ELSE wait[s]]
      BY <1>1 DEF EditSaves
    <2>5. row' \in [Schedules -> Row] /\ wait' \in [Strategies -> 0 .. MaxInterval]
      <3>1. row' \in [Schedules -> Row] BY <2>2, <2>3 DEF Invariant, TypeOK
      <3>2. 0 \in 0 .. MaxInterval BY ScheduleAssumption
      <3>3. \A s \in Strategies : wait[s] \in 0 .. MaxInterval BY DEF Invariant, TypeOK
      <3> QED BY <2>4, <3>1, <3>2, <3>3
    <2>6. TypeOK' BY <1>1, <2>5 DEF Invariant, TypeOK, EditSaves
    <2>7. Planned' BY <1>1 DEF Invariant, Planned, EditSaves
    <2>8. Rested'
      <3>1. ASSUME NEW s \in Strategies, wait'[s] > 0
            PROVE  row'[Owner(s)].age + wait'[s] <= row'[Owner(s)].interval
        <4>1. Owner(s) # copy.schedule /\ wait'[s] = wait[s] BY <2>4, <3>1
        <4>2. row'[Owner(s)] = row[Owner(s)] BY <2>2, <4>1, OwnerIsSchedule DEF Invariant, TypeOK
        <4> QED BY <3>1, <4>1, <4>2 DEF Invariant, Rested
      <3>2. ASSUME NEW d \in Dispatchers, NEW s \in Strategies, s \in todo'[d]
            PROVE  wait'[s] = 0
        BY <1>1, <2>4, <3>2 DEF Invariant, Rested, EditSaves
      <3>3. ASSUME NEW d \in Dispatchers, NEW s \in Applicable, pc'[d] = "resolving"
            PROVE  wait'[s] = 0
        BY <1>1, <2>4, <3>3 DEF Invariant, Rested, EditSaves, Strategies
      <3> QED BY <3>1, <3>2, <3>3 DEF Rested
    <2> QED BY <2>6, <2>7, <2>8 DEF Invariant
  <1>2. CASE \E c \in Schedules : EditLoads(k, c)
    <2>1. PICK c \in Schedules : EditLoads(k, c) BY <1>2
    <2>2. [enabled |-> row[c].enabled, interval |-> row[c].interval, age |-> row[c].age,
           schedule |-> c] \in Copy
      BY DEF Invariant, TypeOK, Row, Copy
    <2>3. TypeOK' BY <2>1, <2>2 DEF Invariant, TypeOK, EditLoads
    <2> QED BY <2>1, <2>3 DEF Invariant, Planned, Rested, EditLoads
  <1> QED BY <1>1, <1>2

LEMMA TickInvariant ==
  ASSUME Invariant, Tick
  PROVE  Invariant'
  <1>0. \A a \in 0 .. MaxInterval : Older(a) \in 0 .. MaxInterval /\ Older(a) <= a + 1
    BY ScheduleAssumption DEF Older
  <1>1. \A c \in Schedules : [row[c] EXCEPT !.age = Older(@)] \in Row
    BY <1>0 DEF Invariant, TypeOK, Row
  <1>2. \A c \in Copy : [c EXCEPT !.age = Older(@)] \in Copy BY <1>0 DEF Copy
  <1>3. \A k \in Clerks : edit'[k] \in {None} \cup Copy
    BY <1>2 DEF Tick, Invariant, TypeOK
  <1>4. TypeOK' 
    <2>1. row' \in [Schedules -> Row] BY <1>1 DEF Tick
    <2>2. edit' \in [Clerks -> {None} \cup Copy] BY <1>3 DEF Tick
    <2>3. wait' \in [Strategies -> 0 .. MaxInterval] BY ScheduleAssumption DEF Tick, Invariant, TypeOK
    <2> QED BY <2>1, <2>2, <2>3 DEF Tick, Invariant, TypeOK
  <1>5. Planned' BY DEF Tick, Invariant, Planned
  <1>6. ASSUME NEW s \in Strategies, wait'[s] > 0
        PROVE  row'[Owner(s)].age + wait'[s] <= row'[Owner(s)].interval
    <2>0. Owner(s) \in Schedules BY OwnerIsSchedule
    <2>1. row[Owner(s)].age \in 0 .. MaxInterval /\ row[Owner(s)].interval \in Nat /\ wait[s] \in Nat
      BY <2>0, ScheduleAssumption DEF Invariant, TypeOK, Row
    <2>2. wait[s] > 0 /\ wait'[s] = wait[s] - 1 BY <1>6, <2>1 DEF Tick
    <2>3. /\ row'[Owner(s)].age = Older(row[Owner(s)].age)
          /\ row'[Owner(s)].interval = row[Owner(s)].interval
      BY <2>0 DEF Tick, Invariant, TypeOK, Row
    <2>4. Older(row[Owner(s)].age) <= row[Owner(s)].age + 1 /\ Older(row[Owner(s)].age) \in Nat
      BY <1>0, <2>1, ScheduleAssumption
    <2>5. row[Owner(s)].age + wait[s] <= row[Owner(s)].interval
      BY <2>2 DEF Invariant, Rested
    <2> QED BY <2>1, <2>2, <2>3, <2>4, <2>5
  <1>7. ASSUME NEW d \in Dispatchers, NEW s \in Strategies, s \in todo'[d]
        PROVE  wait'[s] = 0
    BY <1>7 DEF Tick, Invariant, Rested
  <1>8. ASSUME NEW d \in Dispatchers, NEW s \in Applicable, pc'[d] = "resolving"
        PROVE  wait'[s] = 0
    BY <1>8 DEF Tick, Invariant, Rested, Strategies
  <1>9. Rested' BY <1>6, <1>7, <1>8 DEF Rested
  <1> QED BY <1>4, <1>5, <1>9 DEF Invariant

LEMMA OtherInvariant ==
  ASSUME Invariant, DailyStarts \/ DailyEnds \/ Apply \/ UNCHANGED vars
  PROVE  Invariant'
  <1>1. TypeOK'
    BY ScheduleAssumption DEF Invariant, TypeOK, DailyStarts, DailyEnds, Apply, vars
  <1>2. Planned'
    BY ScheduleAssumption DEF Invariant, TypeOK, Planned, DailyStarts, DailyEnds, Apply, vars
  <1>3. Rested' BY DEF Invariant, Rested, DailyStarts, DailyEnds, Apply, vars
  <1> QED BY <1>1, <1>2, <1>3 DEF Invariant

LEMMA NextInvariant == Invariant /\ [Next]_vars => Invariant'
  <1> SUFFICES ASSUME Invariant, [Next]_vars PROVE Invariant' OBVIOUS
  <1>1. ASSUME NEW d \in Dispatchers, TakeLock(d) \/ Finish(d) \/ Crash(d) PROVE Invariant'
    BY <1>1, LockInvariant
  <1>2. ASSUME NEW d \in Dispatchers, Plan(d) PROVE Invariant' BY <1>2, PlanInvariant
  <1>8. ASSUME NEW d \in Dispatchers, Resolve(d) PROVE Invariant' BY <1>8, ResolveInvariant
  <1>3. ASSUME NEW d \in Dispatchers,
               RunFails(d) \/ RunDone(d) \/ \E s \in Strategies : RunStarts(d, s)
        PROVE  Invariant'
    BY <1>3, RunInvariant
  <1>4. ASSUME NEW d \in Dispatchers, Mark(d) PROVE Invariant' BY <1>4, MarkInvariant
  <1>5. ASSUME NEW k \in Clerks, EditSaves(k) \/ \E c \in Schedules : EditLoads(k, c)
        PROVE  Invariant'
    BY <1>5, EditInvariant
  <1>6. CASE Tick BY <1>6, TickInvariant
  <1>7. CASE DailyStarts \/ DailyEnds \/ Apply \/ UNCHANGED vars BY <1>7, OtherInvariant
  <1> QED BY <1>1, <1>2, <1>3, <1>4, <1>5, <1>6, <1>7, <1>8 DEF Next, Dispatch

-----------------------------------------------------------------------------
\* Every variable keeps its type, and who is at work holds the lock: of the jobs that
\* share it at most one is at work.
THEOREM TypeCorrect == Spec => []TypeOK
  <1>1. Init => Invariant BY InitInvariant
  <1>2. Invariant /\ [Next]_vars => Invariant' BY NextInvariant
  <1>3. Invariant => TypeOK BY DEF Invariant
  <1> QED BY <1>1, <1>2, <1>3, PTL DEF Spec

\* A strategy whose run was marked rests for the interval of its row.
THEOREM StrategiesRest == Spec => RestsItsInterval
  <1> DEFINE A == \A d \in Dispatchers, s \in Strategies : RunStarts(d, s) => wait[s] = 0
  <1>1. Init => Invariant BY InitInvariant
  <1>2. Invariant /\ [Next]_vars => Invariant' BY NextInvariant
  <1>3. Invariant => A BY DEF Invariant, Rested, RunStarts
  <1>4. Invariant /\ [Next]_vars => [A]_vars BY <1>3
  <1>5. Spec => [][A]_vars BY <1>1, <1>2, <1>4, PTL DEF Spec
  <1> QED BY <1>5 DEF RestsItsInterval
=============================================================================
