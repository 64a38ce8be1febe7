--------------------------- MODULE TradeSyncProof ---------------------------
(***************************************************************************)
(* Proofs about TradeSync: types, that the holdings stay within what was   *)
(* held and what was asked for, and that a row is given up only when the   *)
(* broker works its order no more.                                         *)
(*                                                                         *)
(* Everything a sync writes comes from something it read before: rows it   *)
(* loaded, an answer of the history.  The invariant says what is still     *)
(* true of that when it is used: the broker never changes the amount or    *)
(* the day of an order, and an order that is closed stays as it is.        *)
(***************************************************************************)
EXTENDS TradeSync, FiniteSetTheorems, TLAPS

\* The broker's record of an order is in order.
BookOK(o) ==
  /\ book[o].state = "none" => book[o] = NoOrder
  /\ book[o].filled <= book[o].qty
  /\ Working(o) => book[o].day = day /\ book[o].filled < book[o].qty
  /\ o \in Buys => book[o].qty <= Lot

\* What its sender knows of an order, and what the cancel route has noted.
CallerOK(o) ==
  /\ caller[o].pc \in {"idle", "refused"} => book[o].state = "none"
  /\ caller[o].pc = "accepted" => book[o].state # "none"
  /\ caller[o].pc = "canceling" => caller[o].noted <= book[o].qty

PlanOK == /\ plan.side # "none" => plan.qty >= 1
          /\ plan.side = "buy" => plan.qty = Lot

\* A numbered row is the row of an order, and shows no more than it.
RowWithin(o, r) ==
  r.id => book[o].state # "none" /\ r.qty <= book[o].qty /\ r.filled <= book[o].qty

\* A listed order has since kept its amount and its day, and all if it was closed.
AnswerOK(o, a) ==
  a.state # "none" =>
    /\ book[o].state # "none"
    /\ a.qty = book[o].qty /\ a.day = book[o].day /\ a.filled <= a.qty
    /\ a.state # "working" => a = book[o]

TaskOK(t) == \A o \in Orders : RowWithin(o, t.seen[o]) /\ AnswerOK(o, t.answer[o])

\* What is left to be bought by the buys that may still be sent.
Unbought == {s \in Buys \X (1 .. Lot) : book[s[1]].filled < s[2]}

\* Sells that work are covered by the holding, and buys cannot exceed the largest one.
Room == Reserved <= held /\ held + Cardinality(Unbought) <= MaxShares

Facts == /\ \A o \in Orders : BookOK(o) /\ CallerOK(o) /\ RowWithin(o, row[o])
         /\ \A w \in Syncers : TaskOK(sync[w])
         /\ TaskOK(job)
         /\ PlanOK

Invariant == TypeOK /\ Facts /\ Room /\ GivenUpIsClosed

-----------------------------------------------------------------------------
(* Numbers.                                                                *)

\* A finite set of naturals has a largest member.
LEMMA MaxExists ==
  ASSUME NEW S \in SUBSET Nat, IsFiniteSet(S), S # {}
  PROVE  Max(S) \in S /\ \A y \in S : y <= Max(S)
  <1> DEFINE Largest(T, x) == x \in T /\ \A y \in T : x >= y
             B == {T \in SUBSET S : T # {} /\ ~ \E x \in T : \A y \in T : x >= y}
  <1>1. ASSUME B # {} PROVE FALSE
    <2>1. IsWellFoundedOn(StrictSubsetOrdering(S), SUBSET S)
      BY FS_FiniteSubsetsOfFinite, FS_StrictSubsetOrderingWellFounded
    <2>2. \E x \in B : \A y \in B : ~ (<<y, x>> \in StrictSubsetOrdering(S))
      <3>1. B \in SUBSET SUBSET S
        OBVIOUS
      <3> HIDE DEF B
      <3> QED BY <1>1, <2>1, <3>1, WFMin
    <2>3. PICK T \in B : \A U \in B : ~ (<<U, T>> \in StrictSubsetOrdering(S))
      BY <2>2
    <2>4. \A U \in SUBSET T : U # T => U \notin B
      BY <2>3 DEF StrictSubsetOrdering
    <2>5. PICK x \in T : TRUE
      OBVIOUS
    <2>6. T \ {x} \notin B
      BY <2>4, <2>5
    <2>7. CASE T \ {x} = {}
      <3>1. \A y \in T : x >= y
        BY <2>5, <2>7
      <3> QED BY <2>5, <3>1
    <2>8. CASE T \ {x} # {}
      <3>1. PICK m \in T \ {x} : \A y \in T \ {x} : m >= y
        BY <2>6, <2>8
      <3>2. m \in Nat /\ x \in Nat /\ T \in SUBSET Nat
        BY <2>5, <3>1
      <3>3. CASE m >= x
        <4>1. \A y \in T : m >= y
          BY <3>1, <3>3
        <4> QED BY <3>1, <4>1
      <3>4. CASE ~ (m >= x)
        <4>1. \A y \in T : x >= y
          BY <3>1, <3>2, <3>4
        <4> QED BY <2>5, <4>1
      <3> QED BY <3>3, <3>4
    <2> QED BY <2>7, <2>8
  <1>2. \E x \in S : \A y \in S : x >= y
    BY <1>1
  <1>3. Max(S) \in S /\ \A y \in S : Max(S) >= y
    BY <1>2 DEF Max
  <1> QED BY <1>3

LEMMA MaxOfTwo ==
  ASSUME NEW a \in Int, NEW b \in Int
  PROVE  Max({a, b}) = IF a >= b THEN a ELSE b
  <1>1. \E x \in {a, b} : \A y \in {a, b} : x >= y
    OBVIOUS
  <1>2. Max({a, b}) \in {a, b} /\ \A y \in {a, b} : Max({a, b}) >= y
    BY <1>1 DEF Max
  <1> QED BY <1>2

LEMMA MinOfTwo ==
  ASSUME NEW a \in Int, NEW b \in Int
  PROVE  Min({a, b}) = IF a <= b THEN a ELSE b
  <1>1. \E x \in {a, b} : \A y \in {a, b} : x <= y
    OBVIOUS
  <1>2. Min({a, b}) \in {a, b} /\ \A y \in {a, b} : Min({a, b}) <= y
    BY <1>1 DEF Min
  <1> QED BY <1>2

LEMMA SharesFacts ==
  /\ MaxShares \in Nat /\ Shares = 0 .. MaxShares
  /\ Lot \in Nat \ {0} /\ Lot \in Shares /\ Held \subseteq Shares
  /\ Cardinality(Buys) \in Nat /\ Lot * Cardinality(Buys) \in Nat
  /\ \A h \in Held : h + Lot * Cardinality(Buys) <= MaxShares
  <1>1. Max(Held) \in Nat /\ \A h \in Held : h \in Nat /\ h <= Max(Held)
    BY TradeAssumption, MaxExists
  <1>2. Cardinality(Buys) \in Nat /\ Cardinality(Buys) >= 1
    BY TradeAssumption, FS_CardinalityType, FS_EmptySet
  <1>3. Lot \in Nat /\ Lot >= 1
    BY TradeAssumption
  <1> DEFINE b == Cardinality(Buys)
  <1> HIDE DEF b
  <1>4. b \in Nat /\ b >= 1
    BY <1>2 DEF b
  <1>5. Lot * b \in Nat /\ Lot * b >= Lot
    BY <1>3, <1>4
  <1>6. MaxShares = Max(Held) + Lot * b
    BY DEF MaxShares, b
  <1> QED BY <1>1, <1>3, <1>4, <1>5, <1>6 DEF Shares, b

-----------------------------------------------------------------------------
(* The broker's orders.                                                    *)

EndsAs(o, end) == /\ Working(o)
                  /\ book' = [book EXCEPT ![o].state = end]
                  /\ UNCHANGED <<held, day>>

NewOrder == [state |-> "working", qty |-> plan.qty, filled |-> 0, day |-> day]

Places(o) == /\ plan.side = (IF o \in Buys THEN "buy" ELSE "sell")
             /\ caller[o].pc = "idle" /\ Accepts(o)
             /\ book' = [book EXCEPT ![o] = NewOrder]
             /\ caller' = [caller EXCEPT ![o] = [pc |-> "accepted", noted |-> Noted(o)]]
             /\ UNCHANGED <<held, day>>

\* All that a step may do to the broker's orders and the holding.
BookMove == \/ UNCHANGED <<held, book, day>>
            \/ \E o \in Orders : Fill(o)
            \/ \E o \in Orders, end \in {"canceled", "rejected"} : EndsAs(o, end)
            \/ DayEnds
            \/ \E o \in Orders : Places(o)

LEMMA BookSteps == [Next]_vars => BookMove
  <1> SUFFICES ASSUME [Next]_vars PROVE BookMove
    OBVIOUS
  <1>1. ASSUME NEW o \in Orders, Fill(o) \/ Closes(o) \/ CancelDone(o)
        PROVE  BookMove
    BY <1>1 DEF Closes, CancelDone, EndsAs, BookMove
  <1>2. ASSUME NEW o \in Orders, Send(o) \/ Save(o) \/ Stop(o) \/ CancelRead(o)
        PROVE  BookMove
    BY <1>2 DEF Send, Save, Stop, CancelRead, Places, NewOrder, BookMove
  <1>3. ASSUME NEW w \in Syncers, SyncStep(w) PROVE BookMove
    BY <1>3 DEF SyncStep, SyncLoad, SyncApply, BookMove
  <1>4. CASE DayEnds \/ CyclePlan \/ JobStep \/ UNCHANGED vars
    BY <1>4 DEF CyclePlan, JobStep, JobFetch, JobFetchFails, JobStatus, JobImport, JobClean,
       vars, BookMove
  <1> QED BY <1>1, <1>2, <1>3, <1>4 DEF Next

\* An order that was placed keeps its amount and its day, and all once it is closed.
Kept(o) == book[o].state # "none" =>
             /\ book'[o].state # "none"
             /\ book'[o].qty = book[o].qty /\ book'[o].day = book[o].day
             /\ Closed(o) => book'[o] = book[o]

LEMMA BookKept ==
  ASSUME Invariant, BookMove, NEW o \in Orders
  PROVE  Kept(o) /\ BookOK(o)' /\ book'[o] \in BookOrder
  <1>0. /\ book \in [Orders -> BookOrder] /\ plan \in [side : {"none", "buy", "sell"}, qty : Shares]
        /\ day \in 0 .. MaxDay /\ BookOK(o) /\ CallerOK(o) /\ PlanOK
    BY DEF Invariant, TypeOK, Facts
  <1>1. CASE UNCHANGED <<held, book, day>>
    BY <1>0, <1>1 DEF Kept, BookOK, Working
  <1>2. ASSUME NEW q \in Orders, Fill(q) PROVE Kept(o) /\ BookOK(o)' /\ book'[o] \in BookOrder
    <2>1. CASE q # o
      BY <1>0, <1>2, <2>1 DEF Fill, Kept, BookOK, Working
    <2>2. CASE q = o
      <3> DEFINE n == book[o].filled + 1
      <3>1. /\ book[o] \in BookOrder /\ book[o].state = "working" /\ book[o].day = day
            /\ n <= book[o].qty /\ n \in Shares /\ UNCHANGED day
        BY <1>0, <1>2, <2>2, SharesFacts DEF Fill, BookOK, BookOrder, Working
      <3>2. book'[o] = [book[o] EXCEPT !.filled = n, !.state = IF n = book[o].qty THEN "filled" ELSE @]
        BY <1>0, <1>2, <2>2 DEF Fill
      <3>3. /\ book'[o].filled = n /\ book'[o].qty = book[o].qty /\ book'[o].day = day
            /\ book'[o].state = IF n = book[o].qty THEN "filled" ELSE "working"
            /\ book'[o] \in BookOrder
        <4> HIDE DEF n
        <4> QED BY <3>1, <3>2 DEF BookOrder, States
      <3>4. Kept(o)
        BY <3>1, <3>3 DEF Kept, Closed
      <3>5. n \in Int /\ book[o].qty \in Int
        BY <3>1, SharesFacts DEF BookOrder
      <3>6. BookOK(o)'
        <4> HIDE DEF n
        <4> QED BY <1>0, <3>1, <3>3, <3>5 DEF BookOK, Working
      <3> QED BY <3>3, <3>4, <3>6
    <2> QED BY <2>1, <2>2
  <1>3. ASSUME NEW q \in Orders, NEW end \in {"canceled", "rejected"}, EndsAs(q, end)
        PROVE  Kept(o) /\ BookOK(o)' /\ book'[o] \in BookOrder
    BY <1>0, <1>3 DEF EndsAs, Kept, BookOK, Working, Closed, BookOrder, States
  <1>4. CASE DayEnds
    BY <1>0, <1>4, TradeAssumption DEF DayEnds, Kept, BookOK, Working, Closed, BookOrder, States
  <1>5. ASSUME NEW q \in Orders, Places(q) PROVE Kept(o) /\ BookOK(o)' /\ book'[o] \in BookOrder
    <2>1. CASE q # o
      BY <1>0, <1>5, <2>1 DEF Places, Kept, BookOK, Working
    <2>2. CASE q = o
      <3>1. plan.qty \in Shares /\ plan.qty >= 1 /\ (o \in Buys => plan.qty = Lot)
        BY <1>0, <1>5, <2>2 DEF Places, PlanOK
      <3>2. book'[o] = NewOrder /\ UNCHANGED day /\ book[o].state = "none"
        BY <1>0, <1>5, <2>2 DEF Places, CallerOK
      <3> QED BY <1>0, <3>1, <3>2, SharesFacts DEF NewOrder, Kept, BookOK, Working, BookOrder, States
    <2> QED BY <2>1, <2>2
  <1> QED BY <1>1, <1>2, <1>3, <1>4, <1>5 DEF BookMove

-----------------------------------------------------------------------------
(* The holding has room for what is still sold and bought.                 *)

LEMMA Counted ==
  /\ IsFiniteSet(ReservedShares) /\ Reserved \in Nat
  /\ IsFiniteSet(ReservedShares') /\ Reserved' \in Nat
  /\ IsFiniteSet(Unbought) /\ Cardinality(Unbought) \in Nat
  /\ IsFiniteSet(Unbought') /\ Cardinality(Unbought') \in Nat
  <1> DEFINE A == Sells \X Shares
             B == Buys \X (1 .. Lot)
  <1>1. IsFiniteSet(Shares) /\ IsFiniteSet(1 .. Lot)
    BY SharesFacts, FS_Interval
  <1>2. IsFiniteSet(A) /\ IsFiniteSet(B)
    BY <1>1, TradeAssumption, FS_Product
  <1>3. /\ ReservedShares \subseteq A /\ ReservedShares' \subseteq A
        /\ Unbought \subseteq B /\ Unbought' \subseteq B
    BY DEF ReservedShares, Unbought
  <1>4. /\ IsFiniteSet(ReservedShares) /\ IsFiniteSet(ReservedShares')
        /\ IsFiniteSet(Unbought) /\ IsFiniteSet(Unbought')
    <2> HIDE DEF A, B
    <2> QED BY <1>2, <1>3, FS_Subset
  <1> QED BY <1>4, FS_CardinalityType DEF Reserved

\* Orders that end leave less to be sold, and no more to be bought.
LEMMA RoomWhenOrdersEnd ==
  ASSUME Room, held \in Int, UNCHANGED held,
         ReservedShares' \subseteq ReservedShares, Unbought' \subseteq Unbought
  PROVE  Room'
  <1>1. Reserved' <= Reserved
    BY Counted, FS_Subset DEF Reserved
  <1>2. Cardinality(Unbought') <= Cardinality(Unbought)
    BY Counted, FS_Subset
  <1> QED BY <1>1, <1>2, Counted, SharesFacts DEF Room

LEMMA RoomAfterBuy ==
  ASSUME Invariant, NEW o \in Buys, Fill(o)
  PROVE  Room'
  <1> DEFINE n == book[o].filled + 1
  <1>1. /\ book \in [Orders -> BookOrder] /\ held \in Nat /\ Room /\ o \in Orders
        /\ book[o] \in BookOrder /\ BookOK(o) /\ o \notin Sells
    BY SharesFacts, TradeAssumption DEF Invariant, TypeOK, Facts, Orders
  <1>2. n \in 1 .. Lot /\ book'[o].filled = n
    BY <1>1, SharesFacts DEF Fill, BookOK, BookOrder
  <1>3. \A q \in Orders : q # o => book'[q] = book[q]
    BY <1>1 DEF Fill
  <1>4. ReservedShares' = ReservedShares
    BY <1>1, <1>3 DEF ReservedShares, Working, Orders
  <1>5. <<o, n>> \in Unbought
    BY <1>2, SharesFacts, <1>1 DEF Unbought, BookOrder
  <1>6. Unbought' = Unbought \ {<<o, n>>}
    <2>1. ASSUME NEW s \in Buys \X (1 .. Lot)
          PROVE  s \in Unbought' <=> s \in Unbought /\ s # <<o, n>>
      <3>1. CASE s[1] # o
        BY <1>3, <3>1 DEF Unbought, Orders
      <3>2. CASE s[1] = o
        <4>1. s = <<o, s[2]>> /\ s[2] \in Nat
          BY <3>2, SharesFacts
        <4>2. book[o].filled \in Nat
          BY <1>1, SharesFacts DEF BookOrder
        <4>3. n < s[2] <=> book[o].filled < s[2] /\ s[2] # n
          BY <4>1, <4>2
        <4>4. s \in Unbought' <=> n < s[2]
          BY <1>2, <3>2 DEF Unbought
        <4>5. s \in Unbought <=> book[o].filled < s[2]
          BY <3>2 DEF Unbought
        <4> HIDE DEF n
        <4>6. s # <<o, n>> <=> s[2] # n
          BY <4>1
        <4> QED BY <4>3, <4>4, <4>5, <4>6
      <3> QED BY <3>1, <3>2
    <2> QED BY <2>1 DEF Unbought
  <1>7. Cardinality(Unbought') = Cardinality(Unbought) - 1
    BY <1>5, <1>6, Counted, FS_RemoveElement
  <1>8. held' = held + 1
    BY DEF Fill
  <1> QED BY <1>1, <1>4, <1>7, <1>8, Counted, SharesFacts DEF Room, Reserved

LEMMA RoomAfterSell ==
  ASSUME Invariant, NEW o \in Sells, Fill(o)
  PROVE  Room'
  <1> DEFINE n == book[o].filled + 1
  <1>1. /\ book \in [Orders -> BookOrder] /\ held \in Nat /\ Room /\ o \in Orders
        /\ book[o] \in BookOrder /\ BookOK(o) /\ o \notin Buys
    BY SharesFacts, TradeAssumption DEF Invariant, TypeOK, Facts, Orders
  <1>2. /\ n \in Shares /\ n <= book[o].qty /\ Working(o)
        /\ book'[o].filled = n /\ book'[o].qty = book[o].qty
        /\ Working(o)' <=> n # book[o].qty
    BY <1>1, SharesFacts DEF Fill, BookOK, BookOrder, Working
  <1>3. \A q \in Orders : q # o => book'[q] = book[q]
    BY <1>1 DEF Fill
  <1>4. Unbought' = Unbought
    BY <1>1, <1>3 DEF Unbought, Orders
  <1>5. book[o].filled \in Nat /\ book[o].qty \in Nat /\ n \in Nat
    BY <1>1, SharesFacts DEF BookOrder
  <1>6. <<o, n>> \in ReservedShares
    BY <1>2, <1>5 DEF ReservedShares
  <1>7. ReservedShares' = ReservedShares \ {<<o, n>>}
    <2>1. ASSUME NEW s \in Sells \X Shares
          PROVE  s \in ReservedShares' <=> s \in ReservedShares /\ s # <<o, n>>
      <3>1. CASE s[1] # o
        BY <1>3, <3>1 DEF ReservedShares, Working, Orders
      <3>2. CASE s[1] = o
        <4>1. s = <<o, s[2]>> /\ s[2] \in Nat
          BY <3>2, SharesFacts
        <4>2. s \in ReservedShares' <=> n # book[o].qty /\ s[2] \in n + 1 .. book[o].qty
          BY <1>2, <3>2 DEF ReservedShares
        <4>3. s \in ReservedShares <=> s[2] \in n .. book[o].qty
          BY <1>2, <3>2 DEF ReservedShares
        <4> HIDE DEF n
        <4>4. s # <<o, n>> <=> s[2] # n
          BY <4>1
        <4> QED BY <1>2, <1>5, <4>1, <4>2, <4>3, <4>4
      <3> QED BY <3>1, <3>2
    <2> QED BY <2>1 DEF ReservedShares
  <1>8. Reserved' = Reserved - 1
    BY <1>6, <1>7, Counted, FS_RemoveElement DEF Reserved
  <1>9. held' = held - 1
    BY <1>1 DEF Fill
  <1> QED BY <1>1, <1>4, <1>8, <1>9, Counted, SharesFacts DEF Room

\* The broker accepts a sell only of what no other sell has reserved.
LEMMA RoomAfterOrder ==
  ASSUME Invariant, NEW o \in Orders, Places(o)
  PROVE  Room'
  <1>1. /\ book \in [Orders -> BookOrder] /\ held \in Nat /\ Room /\ UNCHANGED held
        /\ book[o] = NoOrder /\ plan.qty \in Nat /\ plan.qty <= MaxShares
    BY SharesFacts DEF Invariant, TypeOK, Facts, Places, CallerOK, BookOK
  <1>2. book'[o] = NewOrder /\ \A q \in Orders : q # o => book'[q] = book[q]
    BY <1>1 DEF Places
  <1>3. Unbought' = Unbought
    BY <1>1, <1>2 DEF Unbought, NoOrder, NewOrder, Orders
  <1>4. CASE o \in Buys
    <2>1. o \notin Sells
      BY <1>4, TradeAssumption
    <2>2. ReservedShares' = ReservedShares
      BY <1>2, <2>1 DEF ReservedShares, Working, Orders
    <2> QED BY <1>1, <1>3, <2>2, RoomWhenOrdersEnd
  <1>5. CASE o \in Sells
    <2> DEFINE New == {o} \X (1 .. plan.qty)
    <2>1. ReservedShares' \subseteq ReservedShares \cup New
      <3>1. ASSUME NEW s \in ReservedShares' PROVE s \in ReservedShares \cup New
        <4>1. CASE s[1] # o
          BY <1>2, <4>1 DEF ReservedShares, Working, Orders
        <4>2. CASE s[1] = o
          <5>1. s[2] \in 1 .. plan.qty /\ s = <<s[1], s[2]>>
            BY <1>2, <4>2 DEF ReservedShares, NewOrder
          <5> QED BY <4>2, <5>1
        <4> QED BY <4>1, <4>2
      <3> QED BY <3>1
    <2>2. IsFiniteSet(New) /\ Cardinality(New) = plan.qty
      <3>1. IsFiniteSet(1 .. plan.qty) /\ Cardinality(1 .. plan.qty) = plan.qty
        BY <1>1, FS_Interval
      <3>2. IsFiniteSet({o}) /\ Cardinality({o}) = 1
        BY FS_Singleton
      <3>3. Cardinality({o}) * Cardinality(1 .. plan.qty) = plan.qty
        BY <1>1, <3>1, <3>2
      <3> QED BY <3>1, <3>2, <3>3, FS_Product
    <2> HIDE DEF New
    <2>3. /\ IsFiniteSet(ReservedShares \cup New)
          /\ Cardinality(ReservedShares \cup New) <= Reserved + plan.qty
      <3>1. /\ IsFiniteSet(ReservedShares \cup New)
            /\ Cardinality(ReservedShares \cup New)
                 = Cardinality(ReservedShares) + Cardinality(New) - Cardinality(ReservedShares \cap New)
        BY <2>2, Counted, FS_Union
      <3>2. IsFiniteSet(ReservedShares \cap New) /\ Cardinality(ReservedShares \cap New) \in Nat
        BY Counted, FS_Subset, FS_CardinalityType, ReservedShares \cap New \subseteq ReservedShares
      <3> QED BY <1>1, <2>2, <3>1, <3>2, Counted DEF Reserved
    <2>4. Reserved' <= Reserved + plan.qty
      <3>1. Reserved' <= Cardinality(ReservedShares \cup New) /\ Cardinality(ReservedShares \cup New) \in Nat
        BY <2>1, <2>3, FS_Subset, FS_CardinalityType DEF Reserved
      <3> QED BY <1>1, <2>3, <3>1, Counted
    <2>5. plan.qty <= held - Reserved
      BY <1>5 DEF Places, Accepts, Sellable
    <2> QED BY <1>1, <1>3, <2>4, <2>5, Counted DEF Room
  <1> QED BY <1>4, <1>5 DEF Orders

LEMMA RoomKept ==
  ASSUME Invariant, BookMove
  PROVE  Room' /\ held' \in Shares
  <1>1. /\ book \in [Orders -> BookOrder] /\ held \in Nat /\ Room
    BY SharesFacts DEF Invariant, TypeOK
  <1>2. Room' /\ held' \in Int
    <2>1. CASE UNCHANGED <<held, book, day>>
      BY <1>1, <2>1, RoomWhenOrdersEnd DEF ReservedShares, Working, Unbought
    <2>2. ASSUME NEW o \in Orders, Fill(o) PROVE Room' /\ held' \in Int
      <3>1. Room'
        BY <2>2, RoomAfterBuy, RoomAfterSell DEF Orders
      <3>2. held' \in Int
        BY <1>1, <2>2 DEF Fill
      <3> QED BY <3>1, <3>2
    <2>3. ASSUME NEW o \in Orders, NEW end \in {"canceled", "rejected"}, EndsAs(o, end)
          PROVE  Room' /\ held' \in Int
      <3>1. \A q \in Orders : /\ Working(q)' => Working(q)
                              /\ book'[q].qty = book[q].qty /\ book'[q].filled = book[q].filled
        BY <1>1, <2>3 DEF EndsAs, Working, BookOrder
      <3>2. ReservedShares' \subseteq ReservedShares /\ Unbought' \subseteq Unbought
        BY <3>1 DEF ReservedShares, Unbought, Orders
      <3> QED BY <1>1, <2>3, <3>2, RoomWhenOrdersEnd DEF EndsAs
    <2>4. CASE DayEnds
      <3>1. \A q \in Orders : /\ Working(q)' => Working(q)
                              /\ book'[q].qty = book[q].qty /\ book'[q].filled = book[q].filled
        BY <1>1, <2>4 DEF DayEnds, Working, BookOrder
      <3>2. ReservedShares' \subseteq ReservedShares /\ Unbought' \subseteq Unbought
        BY <3>1 DEF ReservedShares, Unbought, Orders
      <3> QED BY <1>1, <2>4, <3>2, RoomWhenOrdersEnd DEF DayEnds
    <2>5. ASSUME NEW o \in Orders, Places(o) PROVE Room' /\ held' \in Int
      <3>1. Room'
        BY <2>5, RoomAfterOrder
      <3>2. held' \in Int
        BY <1>1, <2>5 DEF Places
      <3> QED BY <3>1, <3>2
    <2> QED BY <2>1, <2>2, <2>3, <2>4, <2>5 DEF BookMove
  <1>3. held' \in Shares
    BY <1>2, Counted, SharesFacts DEF Room
  <1> QED BY <1>2, <1>3

-----------------------------------------------------------------------------
(* The senders and the plan.                                               *)

\* Only its sender places an order.
LEMMA PlacedBySender ==
  ASSUME Invariant, BookMove, NEW o \in Orders, book[o].state = "none"
  PROVE  book'[o].state = "none" \/ caller'[o].pc = "accepted"
  <1>1. book \in [Orders -> BookOrder] /\ DOMAIN caller = Orders
    BY DEF Invariant, TypeOK
  <1>2. ASSUME NEW q \in Orders, Fill(q) \/ \E end \in {"canceled", "rejected"} : EndsAs(q, end)
        PROVE  book'[o] = book[o]
    BY <1>1, <1>2 DEF Fill, EndsAs, Working
  <1>3. CASE DayEnds \/ UNCHANGED <<held, book, day>>
    BY <1>1, <1>3 DEF DayEnds, Working
  <1>4. ASSUME NEW q \in Orders, Places(q)
        PROVE  book'[o].state = "none" \/ caller'[o].pc = "accepted"
    BY <1>1, <1>4 DEF Places
  <1> QED BY <1>2, <1>3, <1>4 DEF BookMove

Caller == [pc : {"idle", "accepted", "refused", "saved", "canceling", "gone"}, noted : Shares]

LEMMA CallerKept ==
  ASSUME Invariant, [Next]_vars, NEW o \in Orders
  PROVE  caller'[o] \in Caller /\ CallerOK(o)'
  <1>0. /\ caller \in [Orders -> Caller] /\ book[o] \in BookOrder /\ row[o] \in Row /\ held \in Shares
        /\ CallerOK(o) /\ BookOK(o) /\ RowWithin(o, row[o]) /\ 0 \in Shares
    BY SharesFacts DEF Invariant, TypeOK, Facts, Caller
  <1>1. Kept(o) /\ (book[o].state = "none" => book'[o].state = "none" \/ caller'[o].pc = "accepted")
        /\ book'[o] \in BookOrder
    BY BookSteps, BookKept, PlacedBySender
  <1>2. ASSUME caller'[o] = caller[o] PROVE caller'[o] \in Caller /\ CallerOK(o)'
    <2>1. caller[o] \in Caller
      BY <1>0
    <2>2. CASE book[o].state = "none"
      BY <1>0, <1>1, <1>2, <2>1, <2>2, SharesFacts DEF CallerOK, BookOK, NoOrder, BookOrder, Caller
    <2>3. CASE book[o].state # "none"
      BY <1>0, <1>1, <1>2, <2>1, <2>3 DEF CallerOK, Kept
    <2> QED BY <2>1, <2>2, <2>3, <1>2
  <1>3. ASSUME NEW q \in Orders, q # o,
               Send(q) \/ Save(q) \/ Stop(q) \/ CancelRead(q) \/ CancelDone(q)
        PROVE  caller'[o] = caller[o]
    BY <1>0, <1>3 DEF Send, Save, Stop, CancelRead, CancelDone
  <1>4. CASE Send(o)
    <2>1. Noted(o) \in Shares
      BY <1>0 DEF Noted
    <2>2. caller'[o].noted = Noted(o) /\ caller'[o] \in Caller
      BY <1>0, <1>4, <2>1 DEF Send, Caller
    <2>3. CASE caller'[o].pc = "accepted" /\ book'[o].state = "working"
      BY <2>2, <2>3 DEF CallerOK
    <2>4. CASE caller'[o].pc = "refused" /\ book' = book
      BY <1>0, <1>4, <2>2, <2>4 DEF Send, CallerOK
    <2>5. book \in [Orders -> BookOrder]
      BY DEF Invariant, TypeOK
    <2> QED BY <1>0, <1>4, <2>2, <2>3, <2>4, <2>5 DEF Send
  <1>5. CASE Save(o)
    BY <1>0, <1>5 DEF Save, Caller, CallerOK
  <1>6. CASE Stop(o)
    BY <1>0, <1>6 DEF Stop, Caller, CallerOK
  <1>7. CASE CancelRead(o)
    <2> DEFINE n == IF o \in Buys THEN row[o].filled ELSE book[o].filled
    <2>1. caller'[o] = [pc |-> "canceling", noted |-> n]
      BY <1>0, <1>7 DEF CancelRead
    <2>2. n \in Shares /\ n <= book[o].qty
      BY <1>0, <1>7 DEF CancelRead, RowWithin, BookOK, Row, BookOrder
    <2>3. book' = book
      BY <1>7 DEF CancelRead
    <2> HIDE DEF n
    <2> QED BY <2>1, <2>2, <2>3 DEF Caller, CallerOK
  <1>8. CASE CancelDone(o)
    BY <1>0, <1>8 DEF CancelDone, Caller, CallerOK
  <1>9. ASSUME NEW q \in Orders, Fill(q) \/ Closes(q) PROVE caller'[o] = caller[o]
    BY <1>9 DEF Fill, Closes
  <1>10. ASSUME NEW w \in Syncers, SyncStep(w) PROVE caller'[o] = caller[o]
    BY <1>10 DEF SyncStep, SyncLoad, SyncApply
  <1>11. CASE DayEnds \/ CyclePlan \/ JobStep \/ UNCHANGED vars
    <2>1. caller' = caller
      BY <1>11 DEF DayEnds, CyclePlan, JobStep, JobFetch, JobFetchFails, JobStatus, JobImport, JobClean, vars
    <2> QED BY <1>2, <2>1
  <1> QED BY <1>2, <1>3, <1>4, <1>5, <1>6, <1>7, <1>8, <1>9, <1>10, <1>11 DEF Next

LEMMA PlanKept ==
  ASSUME Invariant, [Next]_vars
  PROVE  plan' \in [side : {"none", "buy", "sell"}, qty : Shares] /\ PlanOK'
  <1>0. /\ plan \in [side : {"none", "buy", "sell"}, qty : Shares] /\ PlanOK /\ held \in Shares
        /\ 0 \in Shares
    BY SharesFacts DEF Invariant, TypeOK, Facts
  <1>1. CASE CyclePlan
    <2>1. ASSUME NEW n \in 1 .. held, plan' = [side |-> "sell", qty |-> n]
          PROVE  plan' \in [side : {"none", "buy", "sell"}, qty : Shares] /\ PlanOK'
      <3>1. n \in Shares /\ n >= 1
        BY <1>0, SharesFacts
      <3> QED BY <2>1, <3>1 DEF PlanOK
    <2>2. CASE plan' = [side |-> "buy", qty |-> Lot]
      BY <2>2, SharesFacts DEF PlanOK
    <2> QED BY <1>1, <2>1, <2>2 DEF CyclePlan
  <1>2. ASSUME NEW o \in Orders, Send(o)
        PROVE  plan' \in [side : {"none", "buy", "sell"}, qty : Shares] /\ PlanOK'
    <2>1. plan' = NoPlan
      BY <1>2 DEF Send
    <2> QED BY <1>0, <2>1 DEF NoPlan, PlanOK
  <1>3. ASSUME plan' = plan
        PROVE  plan' \in [side : {"none", "buy", "sell"}, qty : Shares] /\ PlanOK'
    BY <1>0, <1>3 DEF PlanOK
  <1>4. ASSUME NEW o \in Orders,
               Fill(o) \/ Closes(o) \/ Save(o) \/ Stop(o) \/ CancelRead(o) \/ CancelDone(o)
        PROVE  plan' = plan
    BY <1>4 DEF Fill, Closes, Save, Stop, CancelRead, CancelDone
  <1>5. ASSUME NEW w \in Syncers, SyncStep(w) PROVE plan' = plan
    BY <1>5 DEF SyncStep, SyncLoad, SyncApply
  <1>6. CASE DayEnds \/ JobStep \/ UNCHANGED vars
    <2>1. plan' = plan
      BY <1>6 DEF DayEnds, JobStep, JobFetch, JobFetchFails, JobStatus, JobImport, JobClean, vars
    <2> QED BY <1>3, <2>1
  <1> QED BY <1>1, <1>2, <1>3, <1>4, <1>5, <1>6 DEF Next

-----------------------------------------------------------------------------
(* What the syncs write.                                                   *)

RowGivenUp(o, r) == r.id /\ r.status \in {"canceled", "failed"} => Closed(o)

RowOK(o, r) == r \in Row /\ RowWithin(o, r) /\ RowGivenUp(o, r)

\* A result for the row of a placed order.
OutcomeOK(o, out) ==
  /\ out.status \in Statuses /\ out.filled \in Shares
  /\ row[o].id => /\ out.filled <= book[o].qty
                  /\ out.status \in {"canceled", "failed"} => Closed(o)

LEMMA RowOfInvariant ==
  ASSUME Invariant, NEW o \in Orders
  PROVE  RowOK(o, row[o]) /\ book[o] \in BookOrder /\ held \in Nat /\ OutcomeOK(o, Outcome(row[o]))
  <1>1. RowOK(o, row[o]) /\ book[o] \in BookOrder /\ held \in Nat
    BY SharesFacts DEF Invariant, TypeOK, Facts, GivenUpIsClosed, RowOK, RowGivenUp
  <1>2. OutcomeOK(o, Outcome(row[o]))
    BY <1>1 DEF RowOK, Row, RowWithin, RowGivenUp, OutcomeOK, Outcome
  <1> QED BY <1>1, <1>2

\* An order that no reserved share holds back works no more.
LEMMA UnreservedIsClosed ==
  ASSUME Invariant, NEW o \in Orders, Unreserved(o), book[o].state # "none"
  PROVE  Closed(o)
  <1>1. ReservedShares = {}
    BY Counted, FS_EmptySet DEF Unreserved, Reserved
  <1>2. /\ book[o] \in BookOrder /\ BookOK(o) /\ o \in Sells
    BY DEF Invariant, TypeOK, Facts, Unreserved
  <1>3. ASSUME Working(o) PROVE FALSE
    <2>1. book[o].qty \in Shares /\ book[o].qty \in book[o].filled + 1 .. book[o].qty
      BY <1>2, <1>3, SharesFacts DEF BookOK, BookOrder
    <2>2. <<o, book[o].qty>> \in ReservedShares
      BY <1>2, <1>3, <2>1 DEF ReservedShares
    <2> QED BY <1>1, <2>2
  <1> QED BY <1>3 DEF Closed, Working

LEMMA SoldSinceWithin ==
  ASSUME Invariant, NEW r \in Row
  PROVE  SoldSince(r) \in Nat /\ SoldSince(r) <= r.qty
  <1>1. held \in Nat /\ r.qty \in Nat /\ r.filled \in Nat /\ r.pre \in Nat
    BY SharesFacts DEF Invariant, TypeOK, Row
  <1> DEFINE most == Max({r.filled, r.pre - held})
  <1>2. most \in Nat
    BY <1>1, MaxOfTwo
  <1> HIDE DEF most
  <1>3. Min({r.qty, most}) \in Nat /\ Min({r.qty, most}) <= r.qty
    BY <1>1, <1>2, MinOfTwo
  <1> QED BY <1>3 DEF SoldSince, most

LEMMA ByBalanceOK ==
  ASSUME Invariant, NEW o \in Orders, NEW r \in Row, r.id, RowWithin(o, r), NEW c \in BOOLEAN
  PROVE  OutcomeOK(o, ByBalance(o, r, c))
  <1>1. OutcomeOK(o, Outcome(row[o])) /\ book[o] \in BookOrder
    BY RowOfInvariant
  <1>2. r.qty \in Shares /\ r.qty <= book[o].qty /\ book[o].state # "none"
    BY DEF RowWithin, Row
  <1>3. CASE LooksFilled(o, r)
    BY <1>2, <1>3 DEF ByBalance, OutcomeOK, Statuses
  <1>4. CASE ~LooksFilled(o, r) /\ c /\ Unreserved(o)
    <2>1. Closed(o)
      BY <1>2, <1>4, UnreservedIsClosed
    <2> DEFINE n == SoldSince(r)
    <2>2. n \in Shares /\ n <= book[o].qty
      BY <1>1, <1>2, SoldSinceWithin, SharesFacts DEF BookOrder
    <2>3. ByBalance(o, r, c) = [status |-> IF n > 0 THEN "partial" ELSE "canceled", filled |-> n]
      BY <1>4 DEF ByBalance
    <2> HIDE DEF n
    <2> QED BY <2>1, <2>2, <2>3 DEF OutcomeOK, Statuses
  <1>5. CASE ~LooksFilled(o, r) /\ ~(c /\ Unreserved(o))
    BY <1>1, <1>5 DEF ByBalance
  <1> QED BY <1>3, <1>4, <1>5

LEMMA ByHistoryOK ==
  ASSUME Invariant, NEW o \in Orders, NEW a \in BookOrder, AnswerOK(o, a), a.state # "none", NEW asked
  PROVE  /\ ByHistory(a, asked) \in Statuses /\ ByAmounts(a, asked) \in Statuses
         /\ a.filled \in Shares /\ a.filled <= book[o].qty
         /\ ByHistory(a, asked) \in {"canceled", "failed"} => Closed(o)
         /\ ByAmounts(a, asked) \in {"canceled", "failed"} => Closed(o)
  <1>1. /\ book[o] \in BookOrder /\ BookOK(o) /\ day \in Nat
    BY TradeAssumption DEF Invariant, TypeOK, Facts
  <1>2. /\ ByHistory(a, asked) \in Statuses /\ ByAmounts(a, asked) \in Statuses
        /\ a.filled \in Shares /\ a.filled <= book[o].qty
    BY DEF ByHistory, ByAmounts, Statuses, AnswerOK, BookOrder
  <1>3. ByAmounts(a, asked) \in {"canceled", "failed"} => Closed(o)
    BY DEF ByAmounts, AnswerOK, Closed
  <1>4. a.day < day => Closed(o)
    BY <1>1 DEF AnswerOK, Closed, BookOK, Working
  <1>5. ByHistory(a, asked) \in {"canceled", "failed"} => Closed(o)
    BY <1>3, <1>4 DEF ByHistory
  <1> QED BY <1>2, <1>3, <1>5

LEMMA SyncedOK ==
  ASSUME Invariant, NEW o \in Orders, NEW r \in Row, r.id, RowWithin(o, r),
         NEW answer, answer[o] \in BookOrder, AnswerOK(o, answer[o])
  PROVE  OutcomeOK(o, Synced(o, r, answer))
  <1>1. OutcomeOK(o, Outcome(row[o]))
    BY RowOfInvariant
  <1>2. CASE ~Listed(o, answer)
    BY <1>2, ByBalanceOK DEF Synced
  <1>3. CASE Listed(o, answer)
    <2> DEFINE s == ByHistory(answer[o], r.qty)
               found == [status |-> s, filled |-> answer[o].filled]
    <2>1. answer[o].state # "none"
      BY <1>3 DEF Listed
    <2>2. /\ s \in Statuses /\ answer[o].filled \in Shares /\ answer[o].filled <= book[o].qty
          /\ s \in {"canceled", "failed"} => Closed(o)
      BY <2>1, ByHistoryOK
    <2>3. OutcomeOK(o, found)
      <3> HIDE DEF s
      <3> QED BY <2>2 DEF OutcomeOK
    <2>4. Synced(o, r, answer) = IF found = Outcome(r) THEN Outcome(row[o]) ELSE found
      BY <1>3 DEF Synced
    <2> HIDE DEF found
    <2> QED BY <1>1, <2>3, <2>4
  <1> QED BY <1>2, <1>3

\* Writing results into rows that are in order leaves them in order.
LEMMA UpdateOK ==
  ASSUME Invariant, NEW outcomes, NEW o \in Orders,
         row' = Update(outcomes), o \in DOMAIN outcomes => OutcomeOK(o, outcomes[o])
  PROVE  RowOK(o, row'[o])
  <1>1. RowOK(o, row[o])
    BY RowOfInvariant
  <1>2. CASE o \notin DOMAIN outcomes
    BY <1>1, <1>2 DEF Update
  <1>3. CASE o \in DOMAIN outcomes
    <2> DEFINE out == outcomes[o]
    <2>1. row'[o] = [row[o] EXCEPT !.status = out.status, !.filled = out.filled]
      BY <1>3 DEF Update
    <2>2. OutcomeOK(o, out)
      BY <1>3
    <2> HIDE DEF out
    <2> QED BY <1>1, <2>1, <2>2 DEF RowOK, Row, RowWithin, RowGivenUp, OutcomeOK
  <1> QED BY <1>2, <1>3

\* A row that is in order stays so while the broker goes on.
LEMMA RowStaysOK ==
  ASSUME Invariant, BookMove, NEW o \in Orders, NEW r, RowOK(o, r)
  PROVE  /\ r.id => book'[o].state # "none" /\ r.qty <= book'[o].qty /\ r.filled <= book'[o].qty
         /\ r.id /\ r.status \in {"canceled", "failed"} => book'[o].state \notin {"none", "working"}
  <1>1. Kept(o)
    BY BookKept
  <1> QED BY <1>1 DEF RowOK, RowWithin, RowGivenUp, Kept, Closed

RowNext(o) == RowOK(o, row[o])'

LEMMA RowSame ==
  ASSUME Invariant, BookMove, NEW o \in Orders, RowOK(o, row'[o])
  PROVE  RowNext(o)
  BY RowStaysOK DEF RowNext, RowOK, RowWithin, RowGivenUp, Closed

LEMMA RowsKept ==
  ASSUME Invariant, [Next]_vars, NEW o \in Orders
  PROVE  RowNext(o)
  <1>0. /\ RowOK(o, row[o]) /\ book[o] \in BookOrder /\ held \in Shares /\ 0 \in Shares
        /\ row \in [Orders -> Row] /\ caller[o] \in Caller /\ CallerOK(o) /\ NoRow \in Row
    BY RowOfInvariant, SharesFacts DEF Invariant, TypeOK, Facts, Caller, NoRow, Row, Statuses
  <1>1. SUFFICES \/ RowOK(o, row'[o])
                 \/ CancelDone(o) /\ Working(o)
    <2>1. BookMove
      BY BookSteps
    <2>2. ASSUME CancelDone(o), Working(o) PROVE RowNext(o)
      <3>1. caller[o].noted <= book[o].qty /\ caller[o].noted \in Shares
        BY <1>0, <2>2 DEF CancelDone, CallerOK, Caller
      <3>2. /\ book'[o] = [book[o] EXCEPT !.state = "canceled"]
            /\ row'[o] = [row[o] EXCEPT !.status = "canceled", !.filled = caller[o].noted]
        <4>1. book \in [Orders -> BookOrder]
          BY DEF Invariant, TypeOK
        <4> QED BY <1>0, <2>2, <4>1 DEF CancelDone
      <3> HIDE DEF CancelDone
      <3> QED BY <1>0, <3>1, <3>2
           DEF RowNext, RowOK, RowWithin, RowGivenUp, Closed, Row, BookOrder, Statuses
    <2> QED BY <2>1, <2>2, RowSame
  <1>2. CASE Save(o)
    <2>1. row'[o] = SavedRow(o)
      BY <1>0, <1>2 DEF Save
    <2>2. RowOK(o, SavedRow(o))
      <3> DEFINE r == SavedRow(o)
      <3>1. /\ r.qty \in Shares /\ r.filled = 0 /\ r.pre \in Shares /\ r.id \in BOOLEAN
            /\ r.approved \in BOOLEAN /\ r.status \in {"submitted", "failed"}
            /\ r = [status |-> r.status, qty |-> r.qty, filled |-> r.filled, pre |-> r.pre,
                    id |-> r.id, approved |-> r.approved]
        BY <1>0 DEF SavedRow, Caller, BookOrder
      <3>2. r.id => caller[o].pc = "accepted" /\ r.qty = book[o].qty /\ r.status = "submitted"
        BY DEF SavedRow
      <3>3. book[o].qty \in Nat
        BY <1>0, SharesFacts DEF BookOrder
      <3> HIDE DEF r
      <3>4. r \in Row
        BY <1>0, <3>1 DEF Row, Statuses
      <3>5. RowWithin(o, r) /\ RowGivenUp(o, r)
        BY <1>0, <3>1, <3>2, <3>3 DEF RowWithin, RowGivenUp, CallerOK
      <3>6. RowOK(o, r)
        BY <3>4, <3>5 DEF RowOK
      <3> QED BY <3>6 DEF r
    <2> QED BY <2>1, <2>2
  <1>3. CASE CancelDone(o)
    BY <1>0, <1>3 DEF CancelDone
  <1>4. ASSUME NEW q \in Orders, q # o, Save(q) \/ CancelDone(q) PROVE RowOK(o, row'[o])
    BY <1>0, <1>4 DEF Save, CancelDone
  <1>5. ASSUME NEW w \in Syncers, SyncApply(w) PROVE RowOK(o, row'[o])
    <2> DEFINE seen == sync[w].seen
               answer == sync[w].answer
    <2>1. /\ seen \in [Orders -> Row] /\ answer \in [Orders -> BookOrder]
          /\ RowWithin(o, seen[o]) /\ AnswerOK(o, answer[o])
      BY DEF Invariant, TypeOK, Facts, Task, TaskOK
    <2>2. o \in Tracked(seen) => seen[o].id
      BY DEF Tracked
    <2>3. o \in Tracked(seen) => OutcomeOK(o, Synced(o, seen[o], answer))
      <3> HIDE DEF seen, answer
      <3> QED BY <2>1, <2>2, SyncedOK
    <2>4. o \in Tracked(seen) => OutcomeOK(o, ByBalance(o, seen[o], FALSE))
      <3> HIDE DEF seen, answer
      <3> QED BY <2>1, <2>2, ByBalanceOK
    <2>5. CASE row' = Update([q \in Tracked(seen) |-> Synced(q, seen[q], answer)])
      <3> DEFINE outcomes == [q \in Tracked(seen) |-> Synced(q, seen[q], answer)]
      <3>1. o \in DOMAIN outcomes => OutcomeOK(o, outcomes[o])
        BY <2>3
      <3> HIDE DEF outcomes
      <3> QED BY <2>5, <3>1, UpdateOK DEF outcomes
    <2>6. CASE row' = Update([q \in Tracked(seen) |-> ByBalance(q, seen[q], FALSE)])
      <3> DEFINE outcomes == [q \in Tracked(seen) |-> ByBalance(q, seen[q], FALSE)]
      <3>1. o \in DOMAIN outcomes => OutcomeOK(o, outcomes[o])
        BY <2>4
      <3> HIDE DEF outcomes
      <3> QED BY <2>6, <3>1, UpdateOK DEF outcomes
    <2> QED BY <1>5, <2>5, <2>6 DEF SyncApply
  <1>6. CASE JobStatus
    <2> DEFINE outcomes == [q \in Tracked(row) |-> Synced(q, row[q], job.answer)]
    <2>1. job.answer \in [Orders -> BookOrder] /\ AnswerOK(o, job.answer[o])
      BY DEF Invariant, TypeOK, Facts, Task, TaskOK
    <2>2. o \in Tracked(row) => row[o].id
      BY DEF Tracked
    <2>3. o \in Tracked(row) => OutcomeOK(o, Synced(o, row[o], job.answer))
      BY <1>0, <2>1, <2>2, SyncedOK DEF RowOK
    <2>4. o \in DOMAIN outcomes => OutcomeOK(o, outcomes[o])
      BY <2>3
    <2>5. row' = Update(outcomes)
      BY <1>6 DEF JobStatus
    <2> HIDE DEF outcomes
    <2> QED BY <2>4, <2>5, UpdateOK
  <1>7. CASE JobImport
    <2> DEFINE a == job.answer[o]
    <2>1. a \in BookOrder /\ AnswerOK(o, a)
      BY DEF Invariant, TypeOK, Facts, Task, TaskOK
    <2>2. row'[o] = Imported(o)
      BY <1>7 DEF JobImport
    <2>3. CASE ~Listed(o, job.answer) \/ a.filled = 0
      BY <1>0, <2>2, <2>3 DEF Imported
    <2>4. CASE Listed(o, job.answer) /\ a.filled # 0
      <3>1. a.state # "none"
        BY <2>4 DEF Listed
      <3>2. /\ ByAmounts(a, row[o].qty) \in Statuses /\ a.filled \in Shares /\ a.filled <= book[o].qty
            /\ ByAmounts(a, row[o].qty) \in {"canceled", "failed"} => Closed(o)
        BY <2>1, <3>1, ByHistoryOK
      <3>3. book[o].state # "none"
        BY <2>1, <3>1 DEF AnswerOK
      <3>4. row'[o] = IF row[o].id
                      THEN [row[o] EXCEPT !.status = ByAmounts(a, row[o].qty), !.filled = a.filled]
                      ELSE [status |-> "filled", qty |-> a.filled, filled |-> a.filled, pre |-> 0,
                            id |-> TRUE, approved |-> FALSE]
        BY <2>2, <2>4 DEF Imported
      <3> HIDE DEF a
      <3>5. CASE row[o].id
        BY <1>0, <3>2, <3>3, <3>4, <3>5 DEF RowOK, Row, RowWithin, RowGivenUp
      <3>6. CASE ~row[o].id
        BY <1>0, <3>2, <3>3, <3>4, <3>6 DEF RowOK, Row, RowWithin, RowGivenUp, Statuses
      <3> QED BY <3>5, <3>6
    <2> QED BY <2>3, <2>4
  <1>8. CASE JobClean
    <2>1. row'[o] = NoRow \/ row'[o] = row[o]
      BY <1>8 DEF JobClean
    <2>2. RowOK(o, NoRow)
      BY <1>0 DEF RowOK, RowWithin, RowGivenUp, NoRow
    <2> QED BY <1>0, <2>1, <2>2
  <1>9. ASSUME NEW q \in Orders, Fill(q) \/ Closes(q) \/ Send(q) \/ Stop(q) \/ CancelRead(q)
        PROVE  row'[o] = row[o]
    BY <1>9 DEF Fill, Closes, Send, Stop, CancelRead
  <1>10. ASSUME NEW w \in Syncers, SyncLoad(w) PROVE row'[o] = row[o]
    BY <1>10 DEF SyncLoad
  <1>11. CASE DayEnds \/ CyclePlan \/ JobFetch \/ JobFetchFails \/ UNCHANGED vars
    <2>1. row' = row
      BY <1>11 DEF DayEnds, CyclePlan, JobFetch, JobFetchFails, vars
    <2> QED BY <1>0, <2>1
  <1> QED BY <1>0, <1>2, <1>3, <1>4, <1>5, <1>6, <1>7, <1>8, <1>9, <1>10, <1>11 DEF Next, SyncStep, JobStep

-----------------------------------------------------------------------------
(* What the syncs have read.                                               *)

\* A task is in order: the rows it loaded and the answer it got are still true.
TaskTrue(t) == /\ t.seen \in [Orders -> Row] /\ t.answer \in [Orders -> BookOrder]
               /\ TaskOK(t)

TrueNext(o, t) ==
  /\ t.seen[o].id => /\ book'[o].state # "none"
                     /\ t.seen[o].qty <= book'[o].qty /\ t.seen[o].filled <= book'[o].qty
  /\ t.answer[o].state # "none" =>
       /\ book'[o].state # "none"
       /\ t.answer[o].qty = book'[o].qty /\ t.answer[o].day = book'[o].day
       /\ t.answer[o].filled <= t.answer[o].qty
       /\ t.answer[o].state # "working" => t.answer[o] = book'[o]

LEMMA TaskStaysTrue ==
  ASSUME Invariant, BookMove, NEW t, TaskTrue(t), NEW o \in Orders
  PROVE  TrueNext(o, t)
  <1>1. Kept(o)
    BY BookKept
  <1>2. RowWithin(o, t.seen[o]) /\ AnswerOK(o, t.answer[o])
    BY DEF TaskTrue, TaskOK
  <1> QED BY <1>1, <1>2 DEF TrueNext, RowWithin, AnswerOK, Kept, Closed

\* What a sync loads and the history answers is true when it is read.
LEMMA ReadIsTrue ==
  ASSUME Invariant, NEW listed, NEW a, a = Only(listed, book), NEW o \in Orders
  PROVE  /\ a \in [Orders -> BookOrder] /\ AnswerOK(o, a[o])
         /\ NoRow \in Row /\ RowWithin(o, NoRow) /\ NoOrder \in BookOrder /\ AnswerOK(o, NoOrder)
         /\ row \in [Orders -> Row] /\ RowWithin(o, row[o])
  <1>1. /\ book \in [Orders -> BookOrder] /\ row \in [Orders -> Row]
        /\ BookOK(o) /\ RowWithin(o, row[o])
    BY DEF Invariant, TypeOK, Facts
  <1>2. 0 \in Shares /\ 0 \in 0 .. MaxDay
    BY SharesFacts, TradeAssumption
  <1>3. NoOrder \in BookOrder /\ NoRow \in Row /\ RowWithin(o, NoRow) /\ AnswerOK(o, NoOrder)
    BY <1>2 DEF NoOrder, BookOrder, States, NoRow, Row, Statuses, RowWithin, AnswerOK
  <1>4. a \in [Orders -> BookOrder] /\ (a[o] = book[o] \/ a[o] = NoOrder)
    BY <1>1, <1>3 DEF Only
  <1>5. AnswerOK(o, book[o])
    BY <1>1 DEF AnswerOK, BookOK
  <1> QED BY <1>1, <1>3, <1>4, <1>5

LEMMA SyncsKept ==
  ASSUME Invariant, [Next]_vars, NEW w \in Syncers
  PROVE  sync'[w] \in Task({"idle", "answered", "failed"}) /\ TaskOK(sync[w])'
  <1>0. /\ sync \in [Syncers -> Task({"idle", "answered", "failed"})]
        /\ TaskTrue(sync[w]) /\ BookMove
    BY BookSteps DEF Invariant, TypeOK, Facts, Task, TaskTrue
  <1>1. ASSUME sync'[w] = sync[w]
        PROVE  sync'[w] \in Task({"idle", "answered", "failed"}) /\ TaskOK(sync[w])'
    <2>1. TaskOK(sync[w])'
      BY <1>0, <1>1, TaskStaysTrue DEF TrueNext, TaskOK, RowWithin, AnswerOK
    <2>2. sync[w] \in Task({"idle", "answered", "failed"})
      BY <1>0
    <2> QED BY <1>1, <2>1, <2>2
  <1>2. ASSUME NEW t \in Task({"idle", "answered", "failed"}), TaskOK(t), sync'[w] = t, UNCHANGED book
        PROVE  sync'[w] \in Task({"idle", "answered", "failed"}) /\ TaskOK(sync[w])'
    <2>1. TaskOK(sync[w])'
      BY <1>2 DEF TaskOK, RowWithin, AnswerOK
    <2> QED BY <1>2, <2>1
  <1>3. CASE SyncLoad(w)
    <2> DEFINE seen == [o \in Orders |-> IF o \in Tracked(row) THEN row[o] ELSE NoRow]
    <2>1. /\ seen \in [Orders -> Row] /\ \A o \in Orders : RowWithin(o, seen[o])
      BY ReadIsTrue
    <2>2. ASSUME NEW a \in Answers,
                 sync' = [sync EXCEPT ![w] = [pc |-> "answered", seen |-> seen,
                                              answer |-> Only(Tracked(row), a)]]
          PROVE  sync'[w] \in Task({"idle", "answered", "failed"}) /\ TaskOK(sync[w])'
      <3> DEFINE b == Only(Tracked(row), a)
                 t == [pc |-> "answered", seen |-> seen, answer |-> b]
      <3>1. PICK listed : a = Only(listed, book)
        BY DEF Answers
      <3>2. \A o \in Orders : a \in [Orders -> BookOrder] /\ AnswerOK(o, a[o])
        BY <3>1, ReadIsTrue
      <3>3. \A o \in Orders : NoOrder \in BookOrder /\ AnswerOK(o, NoOrder)
        BY ReadIsTrue
      <3>4. b \in [Orders -> BookOrder] /\ \A o \in Orders : AnswerOK(o, b[o])
        BY <3>2, <3>3 DEF Only
      <3> HIDE DEF b, seen
      <3>5. t \in Task({"idle", "answered", "failed"}) /\ TaskOK(t)
        BY <2>1, <3>4 DEF Task, TaskOK
      <3>6. sync'[w] = t /\ UNCHANGED book
        BY <1>0, <1>3, <2>2 DEF SyncLoad, b
      <3> HIDE DEF t
      <3> QED BY <1>2, <3>5, <3>6
    <2>3. CASE sync' = [sync EXCEPT ![w] = [Idle EXCEPT !.pc = "failed", !.seen = seen]]
      <3> DEFINE t == [Idle EXCEPT !.pc = "failed", !.seen = seen]
      <3>1. \A o \in Orders : NoOrder \in BookOrder /\ AnswerOK(o, NoOrder)
        BY ReadIsTrue
      <3> HIDE DEF seen
      <3>2. t \in Task({"idle", "answered", "failed"}) /\ TaskOK(t)
        BY <2>1, <3>1 DEF Task, TaskOK, Idle
      <3>3. sync'[w] = t /\ UNCHANGED book
        BY <1>0, <1>3, <2>3 DEF SyncLoad
      <3> HIDE DEF t
      <3> QED BY <1>2, <3>2, <3>3
    <2> HIDE DEF seen
    <2> QED BY <1>3, <2>2, <2>3 DEF SyncLoad, seen
  <1>4. CASE SyncApply(w)
    <2>1. \A o \in Orders : /\ NoOrder \in BookOrder /\ AnswerOK(o, NoOrder)
                            /\ NoRow \in Row /\ RowWithin(o, NoRow)
      BY ReadIsTrue
    <2>2. Idle \in Task({"idle", "answered", "failed"}) /\ TaskOK(Idle)
      BY <2>1 DEF Task, TaskOK, Idle
    <2>3. sync'[w] = Idle /\ UNCHANGED book
      BY <1>0, <1>4 DEF SyncApply
    <2> QED BY <1>2, <2>2, <2>3
  <1>5. ASSUME NEW v \in Syncers, v # w, SyncStep(v) PROVE sync'[w] = sync[w]
    BY <1>0, <1>5 DEF SyncStep, SyncLoad, SyncApply
  <1>6. ASSUME NEW o \in Orders,
               Fill(o) \/ Closes(o) \/ Send(o) \/ Save(o) \/ Stop(o) \/ CancelRead(o) \/ CancelDone(o)
        PROVE  sync'[w] = sync[w]
    BY <1>6 DEF Fill, Closes, Send, Save, Stop, CancelRead, CancelDone
  <1>7. CASE DayEnds \/ CyclePlan \/ JobStep \/ UNCHANGED vars
    <2>1. sync' = sync
      BY <1>7 DEF DayEnds, CyclePlan, JobStep, JobFetch, JobFetchFails, JobStatus, JobImport, JobClean, vars
    <2> QED BY <1>1, <2>1
  <1> QED BY <1>1, <1>3, <1>4, <1>5, <1>6, <1>7 DEF Next, SyncStep

LEMMA JobKept ==
  ASSUME Invariant, [Next]_vars
  PROVE  job' \in Task({"idle", "status", "importing", "cleaning"}) /\ TaskOK(job)'
  <1> DEFINE T == Task({"idle", "status", "importing", "cleaning"})
  <1>0. job \in T /\ TaskTrue(job) /\ BookMove
    BY BookSteps DEF Invariant, TypeOK, Facts, Task, TaskTrue
  <1>1. ASSUME NEW t \in T, t.seen = job.seen, t.answer = job.answer, job' = t
        PROVE  job' \in T /\ TaskOK(job)'
    <2>1. TaskOK(job)'
      BY <1>0, <1>1, TaskStaysTrue DEF TrueNext, TaskOK, RowWithin, AnswerOK
    <2> QED BY <1>1, <2>1
  <1>2. ASSUME NEW t \in T, TaskOK(t), job' = t, UNCHANGED book
        PROVE  job' \in T /\ TaskOK(job)'
    <2>1. TaskOK(job)'
      BY <1>2 DEF TaskOK, RowWithin, AnswerOK
    <2> QED BY <1>2, <2>1
  <1>3. \A o \in Orders : /\ NoOrder \in BookOrder /\ AnswerOK(o, NoOrder)
                          /\ NoRow \in Row /\ RowWithin(o, NoRow)
    BY ReadIsTrue
  <1>4. CASE JobFetch
    <2>1. PICK a \in Answers : job' = [Idle EXCEPT !.pc = "status", !.answer = a]
      BY <1>4 DEF JobFetch
    <2>2. PICK listed : a = Only(listed, book)
      BY DEF Answers
    <2> DEFINE t == [Idle EXCEPT !.pc = "status", !.answer = a]
    <2>3. a \in [Orders -> BookOrder] /\ \A o \in Orders : AnswerOK(o, a[o])
      <3>1. CASE Orders = {}
        BY <2>2, <3>1 DEF Only
      <3>2. CASE Orders # {}
        BY <2>2, <3>2, ReadIsTrue
      <3> QED BY <3>1, <3>2
    <2>4. t \in T /\ TaskOK(t)
      BY <1>3, <2>3 DEF Task, TaskOK, Idle
    <2>5. job' = t /\ UNCHANGED book
      BY <1>4, <2>1 DEF JobFetch
    <2> HIDE DEF t
    <2> QED BY <1>2, <2>4, <2>5
  <1>5. CASE JobFetchFails \/ JobClean
    <2> DEFINE t == IF JobClean THEN Idle ELSE [Idle EXCEPT !.pc = "cleaning"]
    <2>1. ASSUME NEW pc \in {"idle", "cleaning"}, NEW t1, t1 = [Idle EXCEPT !.pc = pc]
          PROVE  t1 \in T /\ TaskOK(t1)
      BY <1>3, <2>1 DEF Task, TaskOK, Idle
    <2>2. Idle = [Idle EXCEPT !.pc = "idle"]
      BY DEF Idle
    <2>3. UNCHANGED book /\ \E pc \in {"idle", "cleaning"} : job' = [Idle EXCEPT !.pc = pc]
      BY <1>5, <2>2 DEF JobFetchFails, JobClean
    <2>4. PICK pc \in {"idle", "cleaning"} : job' = [Idle EXCEPT !.pc = pc]
      BY <2>3
    <2> QED BY <1>2, <2>1, <2>3, <2>4
  <1>6. CASE JobStatus \/ JobImport
    <2>1. PICK pc \in {"importing", "cleaning"} : job' = [job EXCEPT !.pc = pc]
      BY <1>6 DEF JobStatus, JobImport
    <2> DEFINE t == [job EXCEPT !.pc = pc]
    <2>2. t \in T /\ t.seen = job.seen /\ t.answer = job.answer
      BY <1>0 DEF Task
    <2> HIDE DEF t
    <2>3. job' = t
      BY <2>1 DEF t
    <2> QED BY <1>1, <2>2, <2>3
  <1>7. ASSUME job' = job PROVE job' \in T /\ TaskOK(job)'
    <2> HIDE DEF T
    <2> QED BY <1>0, <1>1, <1>7
  <1>8. ASSUME NEW o \in Orders,
               Fill(o) \/ Closes(o) \/ Send(o) \/ Save(o) \/ Stop(o) \/ CancelRead(o) \/ CancelDone(o)
        PROVE  job' = job
    BY <1>8 DEF Fill, Closes, Send, Save, Stop, CancelRead, CancelDone
  <1>9. ASSUME NEW w \in Syncers, SyncStep(w) PROVE job' = job
    BY <1>9 DEF SyncStep, SyncLoad, SyncApply
  <1>10. CASE DayEnds \/ CyclePlan \/ UNCHANGED vars
    <2>1. job' = job
      BY <1>10 DEF DayEnds, CyclePlan, vars
    <2> QED BY <1>7, <2>1
  <1> QED BY <1>4, <1>5, <1>6, <1>7, <1>8, <1>9, <1>10 DEF Next, JobStep

-----------------------------------------------------------------------------
(* The theorems.                                                           *)

LEMMA InvariantHoldsInitially == Init => Invariant
  <1> SUFFICES ASSUME Init PROVE Invariant
    OBVIOUS
  <1>1. /\ 0 \in Shares /\ 0 \in 0 .. MaxDay /\ NoRow \in Row /\ NoOrder \in BookOrder
        /\ held \in Shares /\ held \in Nat
    BY SharesFacts, TradeAssumption DEF Init, NoRow, Row, Statuses, NoOrder, BookOrder, States
  <1>2. Idle \in Task({"idle", "answered", "failed"}) /\ Idle \in Task({"idle", "status", "importing", "cleaning"})
    BY <1>1 DEF Idle, Task
  <1>3. TypeOK
    BY <1>1, <1>2 DEF Init, TypeOK, NoPlan, NoRow
  <1>4. Facts
    <2>1. ASSUME NEW o \in Orders PROVE BookOK(o) /\ CallerOK(o) /\ RowWithin(o, row[o])
      BY SharesFacts DEF Init, BookOK, Working, CallerOK, RowWithin, NoOrder, NoRow
    <2>2. TaskOK(Idle)
      BY DEF TaskOK, RowWithin, AnswerOK, Idle, NoOrder, NoRow
    <2>3. PlanOK
      BY DEF Init, PlanOK, NoPlan
    <2> QED BY <2>1, <2>2, <2>3 DEF Init, Facts
  <1>5. Room
    <2>1. ReservedShares = {}
      BY DEF Init, ReservedShares, Working, NoOrder, Orders
    <2>2. Reserved = 0
      BY <2>1, FS_EmptySet DEF Reserved
    <2>3. Unbought = Buys \X (1 .. Lot)
      BY SharesFacts DEF Init, Unbought, NoOrder, Orders
    <2>4. IsFiniteSet(1 .. Lot) /\ Cardinality(1 .. Lot) = Lot
      BY SharesFacts, FS_Interval
    <2>5. Cardinality(Unbought) = Cardinality(Buys) * Lot
      BY <2>3, <2>4, TradeAssumption, FS_Product
    <2> DEFINE b == Cardinality(Buys)
    <2>6. b \in Nat /\ Lot \in Nat /\ Cardinality(Unbought) = b * Lot /\ held + Lot * b <= MaxShares
      BY <2>5, SharesFacts DEF Init
    <2> HIDE DEF b
    <2>7. b * Lot = Lot * b
      BY <2>6
    <2> QED BY <1>1, <2>2, <2>6, <2>7 DEF Room
  <1>6. GivenUpIsClosed
    BY DEF Init, GivenUpIsClosed, NoRow
  <1> QED BY <1>3, <1>4, <1>5, <1>6 DEF Invariant

LEMMA Domains ==
  ASSUME Invariant, [Next]_vars
  PROVE  /\ row' = [o \in Orders |-> row'[o]]
         /\ caller' = [o \in Orders |-> caller'[o]]
         /\ sync' = [w \in Syncers |-> sync'[w]]
         /\ twice' \subseteq Orders
  <1>0. /\ row = [o \in Orders |-> row[o]] /\ caller = [o \in Orders |-> caller[o]]
        /\ sync = [w \in Syncers |-> sync[w]] /\ twice \subseteq Orders
    BY DEF Invariant, TypeOK
  <1> DEFINE Shaped == /\ row' = [o \in Orders |-> row'[o]]
                       /\ caller' = [o \in Orders |-> caller'[o]]
                       /\ sync' = [w \in Syncers |-> sync'[w]]
                       /\ twice' \subseteq Orders
  <1>1. ASSUME NEW o \in Orders,
               Fill(o) \/ Closes(o) \/ Send(o) \/ Save(o) \/ Stop(o) \/ CancelRead(o) \/ CancelDone(o)
        PROVE  Shaped
    BY <1>0, <1>1 DEF Fill, Closes, Send, Save, Stop, CancelRead, CancelDone
  <1>2. ASSUME NEW w \in Syncers, SyncStep(w) PROVE Shaped
    BY <1>0, <1>2 DEF SyncStep, SyncLoad, SyncApply, Update
  <1>3. CASE DayEnds \/ CyclePlan \/ JobStep \/ UNCHANGED vars
    BY <1>0, <1>3 DEF DayEnds, CyclePlan, JobStep, JobFetch, JobFetchFails, JobStatus, JobImport,
       JobClean, Update, vars
  <1> QED BY <1>1, <1>2, <1>3 DEF Next

LEMMA InvariantIsInductive == Invariant /\ [Next]_vars => Invariant'
  <1> SUFFICES ASSUME Invariant, [Next]_vars PROVE Invariant'
    OBVIOUS
  <1>1. BookMove
    BY BookSteps
  <1>2. Room' /\ held' \in Shares
    BY <1>1, RoomKept
  <1>3. book' \in [Orders -> BookOrder] /\ \A o \in Orders : BookOK(o)'
    <2>1. DOMAIN book' = Orders /\ book' = [o \in Orders |-> book'[o]]
      BY <1>1 DEF BookMove, Fill, EndsAs, DayEnds, Places, Invariant, TypeOK
    <2> QED BY <1>1, <2>1, BookKept
  <1>4. day' \in 0 .. MaxDay
    <2>1. day \in 0 .. MaxDay /\ MaxDay \in Nat
      BY TradeAssumption DEF Invariant, TypeOK
    <2>2. day' = day \/ DayEnds
      BY <1>1 DEF BookMove, Fill, EndsAs, Places
    <2> QED BY <2>1, <2>2 DEF DayEnds
  <1>5. caller' \in [Orders -> Caller] /\ \A o \in Orders : CallerOK(o)'
    BY CallerKept, Domains
  <1>6. row' \in [Orders -> Row] /\ \A o \in Orders : RowNext(o)
    BY RowsKept, Domains DEF RowNext, RowOK
  <1>7. /\ sync' \in [Syncers -> Task({"idle", "answered", "failed"})]
        /\ \A w \in Syncers : TaskOK(sync[w])'
    BY SyncsKept, Domains
  <1>8. job' \in Task({"idle", "status", "importing", "cleaning"}) /\ TaskOK(job)'
    BY JobKept
  <1>9. plan' \in [side : {"none", "buy", "sell"}, qty : Shares] /\ PlanOK'
    BY PlanKept
  <1>10. twice' \subseteq Orders
    BY Domains
  <1>11. Facts'
    BY <1>3, <1>5, <1>6, <1>7, <1>8, <1>9 DEF Facts, RowNext, RowOK
  <1>12. TypeOK'
    BY <1>2, <1>3, <1>4, <1>5, <1>6, <1>7, <1>8, <1>9, <1>10
    DEF TypeOK, RowNext, RowOK, RowWithin, Caller
  <1>13. GivenUpIsClosed'
    BY <1>6 DEF GivenUpIsClosed, RowNext, RowOK, RowGivenUp
  <1> QED BY <1>2, <1>11, <1>12, <1>13 DEF Invariant

(***************************************************************************)
(* The types, and that the row of a numbered order shows no more shares    *)
(* than the order asked for, however stale what a sync writes is.          *)
(***************************************************************************)
THEOREM TradesTypeCorrect == Spec => []TypeOK
  <1>1. Spec => []Invariant
    BY InvariantHoldsInitially, InvariantIsInductive, PTL DEF Spec
  <1>2. Invariant => TypeOK
    BY DEF Invariant
  <1> QED BY <1>1, <1>2, PTL

(***************************************************************************)
(* A numbered row is given up as canceled or failed only when the broker   *)
(* works its order no more (order_sync_service.py 271-341, 427-438).       *)
(***************************************************************************)
THEOREM RowsAreGivenUpInTime == Spec => []GivenUpIsClosed
  <1>1. Spec => []Invariant
    BY InvariantHoldsInitially, InvariantIsInductive, PTL DEF Spec
  <1>2. Invariant => GivenUpIsClosed
    BY DEF Invariant
  <1> QED BY <1>1, <1>2, PTL
=============================================================================
