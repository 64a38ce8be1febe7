------------------------------ MODULE TradeSync ------------------------------
(***************************************************************************)
(* The trades table of the domestic account against the broker's orders,   *)
(* for one symbol.                                                         *)
(*                                                                         *)
(* A trading cycle (src/trader.py, src/strategy/router.py) reads the       *)
(* balance and the table, plans, sends orders and saves a row for each.    *)
(* The rows then follow the broker in three ways: the status sync of the   *)
(* cycles and the dashboard, and the trade sync job, which runs the status *)
(* sync and then imports the fills from one history answer                 *)
(* (src/dashboard/services/order_sync_service.py, routes/stock_order.py).  *)
(* A history call may fail, which leads to inference from the balance, and *)
(* may not list an order that was just placed.                             *)
(*                                                                         *)
(* Left out: prices, and the adjustment rows and promotions of             *)
(* response-lost orders that the job adds after the import.                *)
(***************************************************************************)
EXTENDS Integers, FiniteSets, FiniteSetsExt

CONSTANTS
  Buys, Sells,  \* the orders that may be sent, by side
  Approved,     \* those sent for an approval; the others are sent by the router
  Lot,          \* shares a buy asks for
  Held,         \* the holdings the account may start with
  MaxOrders,    \* orders that are sent
  Syncers,      \* processes that run the status sync
  MaxDay        \* day ends that are modelled

ASSUME TradeAssumption == /\ Buys \cap Sells = {} /\ Approved \subseteq Buys \cup Sells
                          /\ IsFiniteSet(Buys) /\ Buys # {} /\ IsFiniteSet(Sells)
                          /\ Lot \in Nat \ {0} /\ Held \subseteq Nat /\ Held # {} /\ IsFiniteSet(Held)
                          /\ MaxDay \in Nat /\ MaxOrders \in Nat

Orders == Buys \cup Sells

VARIABLES
  held,    \* shares at the broker
  book,    \* the broker's orders
  row,     \* the row of each order in the trades table
  caller,  \* the process that sends, or cancels, each order
  plan,    \* what the running cycle is about to send
  sync,    \* the status syncs: the rows they loaded and the answer they got
  job,     \* the trade sync job
  day,
  twice    \* orders that the import and their sender both gave a row

vars == <<held, book, row, caller, plan, sync, job, day, twice>>

MaxShares == Max(Held) + Lot * Cardinality(Buys)
Shares == 0 .. MaxShares
States == {"none", "working", "filled", "canceled", "expired", "rejected"}
Statuses == {"none", "submitted", "open", "partial", "filled", "canceled", "failed"}
BookOrder == [state : States, qty : Shares, filled : Shares, day : 0 .. MaxDay]
Row == [status : Statuses, qty : Shares, filled : Shares, pre : Shares, id : BOOLEAN, approved : BOOLEAN]

NoOrder == [state |-> "none", qty |-> 0, filled |-> 0, day |-> 0]
NoRow == [status |-> "none", qty |-> 0, filled |-> 0, pre |-> 0, id |-> FALSE, approved |-> FALSE]
NoPlan == [side |-> "none", qty |-> 0]
Idle == [pc |-> "idle", seen |-> [o \in Orders |-> NoRow], answer |-> [o \in Orders |-> NoOrder]]

Remaining(order) == IF order.state = "rejected" THEN 0 ELSE order.qty - order.filled
Working(o) == book[o].state = "working"
\* the shares of working sells that are still to be sold, each an order and a number
ReservedShares == {s \in Sells \X Shares : Working(s[1]) /\ s[2] \in book[s[1]].filled + 1 .. book[s[1]].qty}
Reserved == Cardinality(ReservedShares)
Sellable == held - Reserved

Init ==
  /\ held \in Held /\ day = 0 /\ twice = {}
  /\ book = [o \in Orders |-> NoOrder] /\ row = [o \in Orders |-> NoRow]
  /\ caller = [o \in Orders |-> [pc |-> "idle", noted |-> 0]]
  /\ plan = NoPlan
  /\ sync = [w \in Syncers |-> Idle] /\ job = Idle

(***************************************************************************)
(* The broker.                                                             *)
(***************************************************************************)
Fill(o) ==
  /\ Working(o)
  /\ book' = [book EXCEPT ![o].filled = @ + 1,
                          ![o].state = IF book[o].filled + 1 = book[o].qty THEN "filled" ELSE @]
  /\ held' = IF o \in Buys THEN held + 1 ELSE held - 1
  /\ UNCHANGED <<row, caller, plan, sync, job, day, twice>>

\* the operator cancels in the broker's own program, or the exchange refuses
Closes(o) ==
  /\ Working(o)
  /\ \E end \in {"canceled"} \cup (IF book[o].filled = 0 THEN {"rejected"} ELSE {}) :
       book' = [book EXCEPT ![o].state = end]
  /\ UNCHANGED <<held, row, caller, plan, sync, job, day, twice>>

DayEnds ==
  /\ day < MaxDay
  /\ day' = day + 1
  /\ book' = [o \in Orders |-> IF Working(o) THEN [book[o] EXCEPT !.state = "expired"] ELSE book[o]]
  /\ UNCHANGED <<held, row, caller, plan, sync, job, twice>>

(***************************************************************************)
(* The trading cycle.                                                      *)
(***************************************************************************)
RowsIn(orders, statuses) == {o \in orders : row[o].status \in statuses}

\* _sell_order_symbols_by_status(): an order without a number does not lock
Locked == (\E o \in RowsIn(Sells, {"submitted", "open"}) : row[o].id) \/ Sellable <= 0
Sent == {o \in Orders : caller[o].pc # "idle"}

\* a signal sells a part or all, a retry of an earlier sell all that is sellable
CyclePlan ==
  /\ plan = NoPlan /\ Cardinality(Sent) < MaxOrders
  /\ \/ /\ held > 0 /\ ~Locked
        /\ \E n \in 1 .. held : plan' = [side |-> "sell", qty |-> n]
     \/ /\ held = 0 /\ plan' = [side |-> "buy", qty |-> Lot]
  /\ UNCHANGED <<held, book, row, caller, sync, job, day, twice>>

\* the router notes the holding before a sell only, the approval path always
Noted(o) == IF o \in Sells \cup Approved THEN held ELSE 0
Accepts(o) == o \in Sells => plan.qty <= Sellable

Send(o) ==
  /\ plan.side = (IF o \in Buys THEN "buy" ELSE "sell") /\ caller[o].pc = "idle"
  /\ \/ /\ Accepts(o)
        /\ book' = [book EXCEPT ![o] = [state |-> "working", qty |-> plan.qty, filled |-> 0, day |-> day]]
        /\ caller' = [caller EXCEPT ![o] = [pc |-> "accepted", noted |-> Noted(o)]]
     \/ /\ ~Accepts(o) /\ UNCHANGED book
        /\ caller' = [caller EXCEPT ![o] = [pc |-> "refused", noted |-> Noted(o)]]
  /\ plan' = NoPlan
  /\ UNCHANGED <<held, row, sync, job, day, twice>>

SavedRowLot(o) ==   \* mutant: the configured size, not the one sent
  [status |-> "submitted", qty |-> Lot, filled |-> 0, pre |-> caller[o].noted,
   id |-> caller[o].pc = "accepted", approved |-> o \in Approved]

\* the amount of a refused order's row plays no part
SavedRow(o) ==
  LET accepted == caller[o].pc = "accepted" IN
  [status |-> IF accepted THEN "submitted" ELSE "failed", qty |-> IF accepted THEN book[o].qty ELSE 0,
   filled |-> 0, pre |-> caller[o].noted, id |-> accepted, approved |-> o \in Approved]

Save(o) ==
  /\ caller[o].pc \in {"accepted", "refused"}
  /\ row' = [row EXCEPT ![o] = SavedRow(o)]
  /\ twice' = IF row[o] # NoRow THEN twice \cup {o} ELSE twice
  /\ caller' = [caller EXCEPT ![o] = [pc |-> "saved", noted |-> 0]]
  /\ UNCHANGED <<held, book, plan, sync, job, day>>

\* the process stops, or place_order raises after the broker accepted
Stop(o) ==
  /\ caller[o].pc \in {"accepted", "refused"}
  /\ caller' = [caller EXCEPT ![o] = [pc |-> "gone", noted |-> 0]]
  /\ UNCHANGED <<held, book, row, plan, sync, job, day, twice>>

\* the dashboard cancels an order: what it read of the fills, then the call
\* and the row
CancelRead(o) ==
  /\ caller[o].pc = "saved" /\ row[o].id
  /\ IF o \in Buys THEN row[o].status \in {"submitted", "open", "partial"} /\ row[o].filled < row[o].qty
     ELSE Working(o)
  /\ caller' = [caller EXCEPT ![o] = [pc |-> "canceling",
                                      noted |-> IF o \in Buys THEN row[o].filled ELSE book[o].filled]]
  /\ UNCHANGED <<held, book, row, plan, sync, job, day, twice>>

CancelDone(o) ==
  /\ caller[o].pc = "canceling"
  /\ \/ /\ Working(o)
        /\ book' = [book EXCEPT ![o].state = "canceled"]
        /\ row' = [row EXCEPT ![o].status = "canceled", ![o].filled = caller[o].noted]
     \/ ~Working(o) /\ UNCHANGED <<book, row>>
  /\ caller' = [caller EXCEPT ![o] = [pc |-> "gone", noted |-> 0]]
  /\ UNCHANGED <<held, plan, sync, job, day, twice>>

(***************************************************************************)
(* The status sync.                                                        *)
(***************************************************************************)
TrackedUntilOpen == {"submitted", "partial"}   \* mutant: an open order is not asked again

\* _load_trackable_order_trades()
TrackedStatuses == {"submitted", "partial", "open"}
Tracked(rows) == {o \in Orders :
                    rows[o].id /\ \/ rows[o].status \in TrackedStatuses
                                  \/ rows[o].status = "filled" /\ rows[o].approved /\ o \in Sells}
Outcome(r) == [status |-> r.status, filled |-> r.filled]

\* the history lists every order but those that may just have been placed
Only(orders, a) == [o \in Orders |-> IF o \in orders THEN a[o] ELSE NoOrder]
Listed(o, answer) == answer[o].state # "none"

Answers == {Only(listed, book) :
              listed \in {l \in SUBSET {o \in Orders : book[o].state # "none"} :
                            \A o \in Orders : book[o].state # "none" /\ o \notin l
                                                => Working(o) /\ book[o].filled = 0}}

ByAmounts(a, asked) ==
  IF a.state = "canceled" THEN "canceled"
  ELSE IF a.state = "rejected" THEN "failed"
  ELSE IF a.filled = 0 THEN "open"
  ELSE IF Remaining(a) > 0 \/ a.filled < asked THEN "partial" ELSE "filled"

ByHistoryOfToday(a, asked) ==   \* mutant: an order of today has expired too
  IF a.day <= day /\ Remaining(a) > 0 THEN "canceled" ELSE ByAmounts(a, asked)

\* an order of an earlier day with a remainder has expired
ByHistory(a, asked) ==
  IF a.day < day /\ Remaining(a) > 0 THEN "canceled" ELSE ByAmounts(a, asked)

\* what a row is taken for without a history; the row itself when undecided
LooksFilled(o, r) == IF o \in Buys THEN held >= r.pre + r.qty
                     ELSE held <= r.pre - r.qty \/ held = 0
Unreserved(o) == o \in Sells /\ held > 0 /\ Reserved = 0
SoldSince(r) == Min({r.qty, Max({r.filled, r.pre - held})})

ByBalance(o, r, closeUnreserved) ==
  IF LooksFilled(o, r) THEN [status |-> "filled", filled |-> r.qty]
  ELSE IF closeUnreserved /\ Unreserved(o)
  THEN [status |-> IF SoldSince(r) > 0 THEN "partial" ELSE "canceled", filled |-> SoldSince(r)]
  ELSE Outcome(row[o])

\* the history is compared with the row that was loaded, the balance is not
Synced(o, r, answer) ==
  IF ~Listed(o, answer) THEN ByBalance(o, r, TRUE)
  ELSE LET found == [status |-> ByHistory(answer[o], r.qty), filled |-> answer[o].filled] IN
         IF found = Outcome(r) THEN Outcome(row[o]) ELSE found

\* update_trade_order_status() for each order of the outcomes
Update(outcomes) ==
  [o \in Orders |-> IF o \in DOMAIN outcomes
                    THEN [row[o] EXCEPT !.status = outcomes[o].status, !.filled = outcomes[o].filled]
                    ELSE row[o]]

SyncLoad(w) ==
  LET seen == [o \in Orders |-> IF o \in Tracked(row) THEN row[o] ELSE NoRow] IN
  /\ sync[w].pc = "idle" /\ Tracked(row) # {}
  /\ \/ \E a \in Answers :
          sync' = [sync EXCEPT ![w] = [pc |-> "answered", seen |-> seen,
                                       answer |-> Only(Tracked(row), a)]]
     \/ sync' = [sync EXCEPT ![w] = [Idle EXCEPT !.pc = "failed", !.seen = seen]]
  /\ UNCHANGED <<held, book, row, caller, plan, job, day, twice>>

SyncApply(w) ==
  LET seen == sync[w].seen IN
  /\ \/ /\ sync[w].pc = "answered"
        /\ row' = Update([o \in Tracked(seen) |-> Synced(o, seen[o], sync[w].answer)])
     \/ /\ sync[w].pc = "failed"
        /\ row' = Update([o \in Tracked(seen) |-> ByBalance(o, seen[o], FALSE)])
  /\ sync' = [sync EXCEPT ![w] = Idle]
  /\ UNCHANGED <<held, book, caller, plan, job, day, twice>>

(***************************************************************************)
(* The trade sync job: one history answer, the status sync, the import,    *)
(* then the removal of rows the broker does not know.                      *)
(***************************************************************************)
JobFetch ==
  /\ job.pc = "idle"
  /\ \E a \in Answers : job' = [Idle EXCEPT !.pc = "status", !.answer = a]
  /\ UNCHANGED <<held, book, row, caller, plan, sync, day, twice>>

JobFetchFails ==
  /\ job.pc = "idle"
  /\ job' = [Idle EXCEPT !.pc = "cleaning"]
  /\ UNCHANGED <<held, book, row, caller, plan, sync, day, twice>>

JobStatus ==
  /\ job.pc = "status"
  /\ row' = Update([o \in Tracked(row) |-> Synced(o, row[o], job.answer)])
  /\ job' = [job EXCEPT !.pc = "importing"]
  /\ UNCHANGED <<held, book, caller, plan, sync, day, twice>>

ImportedNew(o) ==   \* mutant: a known order is left as it is
  IF ~Listed(o, job.answer) \/ row[o].id THEN row[o]
  ELSE LET a == job.answer[o] IN
    IF a.filled = 0 THEN row[o]
    ELSE [status |-> "filled", qty |-> a.filled, filled |-> a.filled, pre |-> 0, id |-> TRUE, approved |-> FALSE]

\* only a row of the history with a fill is a trade; an unknown one is new
Imported(o) ==
  IF ~Listed(o, job.answer) THEN row[o]
  ELSE LET a == job.answer[o] IN
    IF a.filled = 0 THEN row[o]
    ELSE IF row[o].id THEN [row[o] EXCEPT !.status = ByAmounts(a, row[o].qty), !.filled = a.filled]
    ELSE [status |-> "filled", qty |-> a.filled, filled |-> a.filled, pre |-> 0, id |-> TRUE, approved |-> FALSE]

JobImport ==
  /\ job.pc = "importing"
  /\ row' = [o \in Orders |-> Imported(o)]
  /\ job' = [job EXCEPT !.pc = "cleaning"]
  /\ UNCHANGED <<held, book, caller, plan, sync, day, twice>>

JobClean ==
  /\ job.pc = "cleaning"
  /\ row' = [o \in Orders |-> IF row[o].status = "failed" /\ ~row[o].id THEN NoRow ELSE row[o]]
  /\ job' = Idle
  /\ UNCHANGED <<held, book, caller, plan, sync, day, twice>>

SyncStep(w) == SyncLoad(w) \/ SyncApply(w)
JobStep == JobFetch \/ JobFetchFails \/ JobStatus \/ JobImport \/ JobClean

Next ==
  \/ \E o \in Orders : Fill(o) \/ Closes(o) \/ Send(o) \/ Save(o) \/ Stop(o) \/ CancelRead(o) \/ CancelDone(o)
  \/ DayEnds \/ CyclePlan
  \/ \E w \in Syncers : SyncStep(w)
  \/ JobStep

Spec == Init /\ [][Next]_vars

\* the syncs run again and again, their steps end, and the history answers
\* again and again
FairSpec ==
  /\ Spec
  /\ \A o \in Orders : WF_vars(Save(o) \/ Stop(o) \/ CancelDone(o))
  /\ \A w \in Syncers : WF_vars(SyncApply(w))
  /\ WF_vars(JobStatus \/ JobImport \/ JobClean) /\ SF_vars(JobFetch)

-----------------------------------------------------------------------------
Task(pcs) == [pc : pcs, seen : [Orders -> Row], answer : [Orders -> BookOrder]]

(***************************************************************************)
(* Every value has its type, and the row of an order that has its number   *)
(* shows no more shares, asked for or filled, than the order asked for.    *)
(***************************************************************************)
TypeOK ==
  /\ held \in Shares /\ day \in 0 .. MaxDay /\ twice \subseteq Orders
  /\ book \in [Orders -> BookOrder] /\ row \in [Orders -> Row]
  /\ caller \in [Orders -> [pc : {"idle", "accepted", "refused", "saved", "canceling", "gone"},
                             noted : Shares]]
  /\ plan \in [side : {"none", "buy", "sell"}, qty : Shares]
  /\ sync \in [Syncers -> Task({"idle", "answered", "failed"})]
  /\ job \in Task({"idle", "status", "importing", "cleaning"})
  /\ \A o \in Orders : row[o].id => row[o].qty <= book[o].qty /\ row[o].filled <= book[o].qty

Closed(o) == book[o].state \notin {"none", "working"}

(***************************************************************************)
(* A numbered row is given up as canceled or failed only if the broker     *)
(* works its order no more, whether an old answer, the end of a day, the   *)
(* balance of an unlisted order or the cancel route said so: such a row is *)
(* not asked about again, and the fills that still came would be missed    *)
(* (order_sync_service.py 271-341, 427-438; stock_order.py 535-560).       *)
(***************************************************************************)
GivenUpIsClosed ==
  \A o \in Orders : row[o].id /\ row[o].status \in {"canceled", "failed"} => Closed(o)

(***************************************************************************)
(* A holding does not stay locked behind an order that is no longer there: *)
(* once the broker closed an order, by whatever way, its row leaves        *)
(* `submitted` and `open` for good, although a late answer of another sync *)
(* may put it back, and although build_runtime_plan() refuses every sell   *)
(* while it does not (order_sync_service.py 286-383, trader.py 1058-1069). *)
(***************************************************************************)
LockIsReleased ==
  \A o \in Orders : Closed(o) ~> [](row[o].status \notin {"submitted", "open"})

(***************************************************************************)
(* The fills of an order that was filled or canceled come to be the row's, *)
(* whatever the balance suggested while the history failed and whatever    *)
(* amount the cancel route wrote from an earlier read; for orders with one *)
(* row (order_sync_service.py 16-253).                                     *)
(***************************************************************************)
FillsArrive ==
  \A o \in Orders :
    (book[o].state \in {"filled", "canceled"} /\ book[o].filled > 0)
      ~> [](o \notin twice /\ caller[o].pc # "accepted" => row[o].filled = book[o].filled)
=============================================================================
