------------------------- MODULE HardStopProtection -------------------------
(***************************************************************************)
(* The hard stop of one strategy position: the position's open quantity,   *)
(* its row in ai_position_protections and the stop orders at the broker.   *)
(*                                                                         *)
(* Workers book fills and ask for the stop to follow (apply_fill), tighten *)
(* the stop, and audit the position after a restart and before each cycle  *)
(* (reconcile_protections).  Every transaction, every read and every call  *)
(* of the broker is one step.  Rows are keyed by position and no step      *)
(* touches two positions, so one is modelled; a stop price is a level.     *)
(***************************************************************************)
EXTENDS Integers

CONSTANTS
  Worker,        \* what books fills, tightens or audits, one task at a time each
  MaxTrades,     \* bound: units bought, and units sold, in a behaviour
  MaxStop,       \* bound: highest stop level
  MaxStops,      \* bound: stop orders the broker has ever accepted
  MaxLost,       \* bound: broker answers lost
  MaxCrashes,    \* bound: restarts
  Overlapping    \* whether entries and exits of the position may overlap

ASSUME BoundAssumption == /\ MaxTrades \in Nat
                          /\ MaxStop \in Nat \ {0}
                          /\ MaxStops \in Nat \ {0}
                          /\ MaxLost \in Nat
                          /\ MaxCrashes \in Nat
                          /\ Overlapping \in BOOLEAN

VARIABLES
  held,       \* the position's remaining_qty
  row,        \* the position's protection row
  traded,     \* units the exchange has executed, by side
  unbooked,   \* those the ledger has not booked yet, by side
  stops,      \* stops[i]: quantity and level of stop order i; quantity 0 is not active
  issued,     \* stop orders accepted so far: the ids in use are 1..issued
  task,       \* task[w]: local variables of worker w
  lost,
  crashes

ledger == <<held, row>>
exchange == <<traded, unbooked>>
broker == <<stops, issued>>
vars == <<held, row, traded, unbooked, stops, issued, task, lost, crashes>>

Side == {"buy", "sell"}

\* The position's own current_stop_price, which nothing moves after its creation.
EntryStop == 1
Level == 0..MaxStop

RowStatus == {"none", "pending", "amend_pending", "partial", "active", "failed",
              "cancel_pending", "canceled"}
Pc == {"idle", "open", "remaining", "stopOf", "tighten", "request", "call", "record",
       "fail", "compare", "observe", "adopt", "askCancel", "flat", "cancelOf", "cancel",
       "canceled"}

\* fill: quantity the task was begun with; qty, stop, number: what it has read or asked
\* for; ack: what the broker has answered.
IdleTask == [pc |-> "idle", audit |-> FALSE, fill |-> 0, qty |-> 0, stop |-> 0,
             number |-> 0, ack |-> [number |-> 0, qty |-> 0, stop |-> 0]]

Row  == [status : RowStatus, required : Nat, protected : Nat, stop : Level,
         number : 0..MaxStops]
Ack  == [number : 0..MaxStops, qty : Nat, stop : Level]
Task == [pc : Pc, audit : BOOLEAN, fill : Nat, qty : Nat, stop : Level,
         number : 0..MaxStops, ack : Ack]

TypeOK == /\ held \in Nat
          /\ row \in Row
          /\ traded \in [Side -> Nat]
          /\ unbooked \in [Side -> Nat]
          /\ stops \in [1..MaxStops -> [qty : Nat, stop : Level]]
          /\ issued \in 0..MaxStops
          /\ task \in [Worker -> Task]
          /\ lost \in Nat
          /\ crashes \in Nat

Init ==
  /\ held = 0
  /\ row = [status |-> "none", required |-> 0, protected |-> 0, stop |-> 0, number |-> 0]
  /\ traded = [s \in Side |-> 0]
  /\ unbooked = [s \in Side |-> 0]
  /\ stops = [i \in 1..MaxStops |-> [qty |-> 0, stop |-> 0]]
  /\ issued = 0
  /\ task = [w \in Worker |-> IdleTask]
  /\ lost = 0
  /\ crashes = 0

At(w, pc) == task[w].pc = pc
GoTo(w, pc) == task' = [task EXCEPT ![w].pc = pc]
Leave(w) == task' = [task EXCEPT ![w] = IdleTask]

-----------------------------------------------------------------------------
(* Fills.                                                                  *)

\* Unless they overlap, an exit comes when the entry is complete and booked.
Trade(s) ==
  /\ traded[s] < MaxTrades
  /\ s = "sell" => traded["sell"] < traded["buy"]
  /\ ~Overlapping => IF s = "buy" THEN traded["sell"] = 0 ELSE unbooked["buy"] = 0
  /\ traded' = [traded EXCEPT ![s] = @ + 1]
  /\ unbooked' = [unbooked EXCEPT ![s] = @ + 1]
  /\ UNCHANGED <<ledger, broker, task, lost, crashes>>

\* The status of a row whose quantity or level has to change.
Pending(protected) == IF protected > 0 THEN "amend_pending" ELSE "pending"

\* One transaction books the fill and asks for the whole open quantity; a stop above
\* the position's own makes it fail.
BookBuy(w, q) ==
  /\ At(w, "idle")
  /\ q \in 1..unbooked["buy"]
  /\ row.stop <= EntryStop
  /\ unbooked' = [unbooked EXCEPT !["buy"] = @ - q]
  /\ held' = held + q
  /\ row' = [row EXCEPT !.required = held + q, !.stop = EntryStop,
                        !.status = Pending(row.protected)]
  /\ task' = [task EXCEPT ![w] = [IdleTask EXCEPT !.pc = "open", !.fill = q]]
  /\ UNCHANGED <<traded, broker, lost, crashes>>

\* (mutant) the event's name goes into the status
CancelRequested == "cancel_requested"

CancelPending == "cancel_pending"

BookSell(w, q) ==
  /\ At(w, "idle")
  /\ q \in 1..unbooked["sell"]
  /\ q <= held
  /\ unbooked' = [unbooked EXCEPT !["sell"] = @ - q]
  /\ held' = held - q
  /\ row' = IF row.status = "none" THEN row
            ELSE IF held = q THEN [row EXCEPT !.status = CancelPending]
            ELSE [row EXCEPT !.required = held - q, !.status = "amend_pending"]
  /\ task' = [task EXCEPT ![w] = [IdleTask EXCEPT !.pc = "remaining"]]
  /\ UNCHANGED <<traded, broker, lost, crashes>>

-----------------------------------------------------------------------------
(* Asking for the open quantity.                                           *)

\* request_entry_fill() reads the open quantity, which may have shrunk since.
ReadOpen(w) ==
  /\ At(w, "open")
  /\ IF held = 0 \/ task[w].fill > held
       THEN Leave(w)
       ELSE task' = [task EXCEPT ![w].pc = "request", ![w].qty = held,
                                 ![w].stop = EntryStop]
  /\ UNCHANGED <<ledger, exchange, broker, lost, crashes>>

\* reconcile_after_sell_fill() reads the remaining quantity, then the row.
ReadRemaining(w) ==
  /\ At(w, "remaining")
  /\ task' = [task EXCEPT ![w].qty = held,
                          ![w].pc = IF held = 0 THEN "askCancel" ELSE "stopOf"]
  /\ UNCHANGED <<ledger, exchange, broker, lost, crashes>>

ReadStop(w) ==
  /\ At(w, "stopOf")
  /\ task' = [task EXCEPT ![w].stop = row.stop, ![w].pc = "request"]
  /\ UNCHANGED <<ledger, exchange, broker, lost, crashes>>

\* tighten_stop() wants an open position and a stop order to amend.
BeginTighten(w, s) ==
  /\ At(w, "idle")
  /\ held > 0
  /\ task' = [task EXCEPT ![w] = [IdleTask EXCEPT !.pc = "tighten", !.qty = held,
                                                  !.stop = s]]
  /\ UNCHANGED <<ledger, exchange, broker, lost, crashes>>

CheckNumbered(w) ==
  /\ At(w, "tighten")
  /\ IF row.number # 0 THEN GoTo(w, "request") ELSE Leave(w)
  /\ UNCHANGED <<ledger, exchange, broker, lost, crashes>>

\* (mutant) the request trusts the quantity that was read
RequestTrusting(qty, stop) == stop >= row.stop

\* (mutant) only the quantity is compared
RequestLoosening(qty, stop) == qty = held

\* The quantity is still the open one and the stop does not move down.
Requestable(qty, stop) == qty = held /\ stop >= row.stop

Request(w) ==
  /\ At(w, "request")
  /\ IF Requestable(task[w].qty, task[w].stop)
       THEN /\ row' = [row EXCEPT !.required = task[w].qty, !.stop = task[w].stop,
                                  !.status = Pending(row.protected)]
            /\ task' = [task EXCEPT ![w].number = row.number,
                          ![w].pc = IF task[w].audit /\ row.number # 0
                                      THEN "observe" ELSE "call"]
       ELSE Leave(w) /\ UNCHANGED row
  /\ UNCHANGED <<held, exchange, broker, lost, crashes>>

-----------------------------------------------------------------------------
(* submit_requested(): amend the numbered stop order, or place one.        *)

Active(i) == i # 0 /\ stops[i].qty > 0

\* The broker may cover less than asked, but an amendment never uncovers.
Covers(i, asked, q) == /\ q \in 1..asked
                       /\ i # 0 => q >= asked \/ q >= stops[i].qty

\* Stop order number, amended or new, now covers q.
Accept(number, q, stop) ==
  /\ number = 0 => issued < MaxStops
  /\ number # 0 => Active(number)
  /\ LET i == IF number = 0 THEN issued + 1 ELSE number
     IN  stops' = [stops EXCEPT ![i] = [qty |-> q, stop |-> stop]]
  /\ issued' = IF number = 0 THEN issued + 1 ELSE issued

CallAccepted(w, q) ==
  /\ At(w, "call")
  /\ Covers(task[w].number, task[w].qty, q)
  /\ Accept(task[w].number, q, task[w].stop)
  /\ task' = [task EXCEPT ![w].pc = "record",
       ![w].ack = [number |-> IF task[w].number = 0 THEN issued + 1 ELSE task[w].number,
                   qty |-> q, stop |-> task[w].stop]]
  /\ UNCHANGED <<ledger, exchange, lost, crashes>>

\* A refusal, or an exception on the way to the broker.
CallRefused(w) ==
  /\ At(w, "call")
  /\ GoTo(w, "fail")
  /\ UNCHANGED <<ledger, exchange, broker, lost, crashes>>

\* The broker has accepted, the answer is lost: an exception too.
CallLost(w, q) ==
  /\ At(w, "call")
  /\ lost < MaxLost
  /\ lost' = lost + 1
  /\ Covers(task[w].number, task[w].qty, q)
  /\ Accept(task[w].number, q, task[w].stop)
  /\ GoTo(w, "fail")
  /\ UNCHANGED <<ledger, exchange, crashes>>

Fail(w) ==
  /\ At(w, "fail")
  /\ row' = [row EXCEPT !.status = "failed"]
  /\ Leave(w)
  /\ UNCHANGED <<held, exchange, broker, lost, crashes>>

\* (mutant) the stop of the answer is not compared with the row's
AckTrusted(ack) == ack.qty <= row.required

\* The answer neither moves the stop down nor covers more than is asked for by now.
AckFits(ack) == ack.stop >= row.stop /\ ack.qty <= row.required

\* (mutant) what was asked for counts as covered
AckedInFull(ack) == row.required

AckedQty(ack) == ack.qty

\* activate_position_protection()
Activated(ack) ==
  [row EXCEPT !.protected = AckedQty(ack), !.stop = ack.stop, !.number = ack.number,
              !.status = IF AckedQty(ack) = row.required THEN "active" ELSE "partial"]

RecordAck(w) ==
  /\ At(w, "record")
  /\ row' = IF AckFits(task[w].ack) THEN Activated(task[w].ack) ELSE row
  /\ Leave(w)
  /\ UNCHANGED <<held, exchange, broker, lost, crashes>>

-----------------------------------------------------------------------------
(* reconcile_protections(): the audit.                                     *)

BeginAudit(w) ==
  /\ At(w, "idle")
  /\ task' = [task EXCEPT ![w] = [IdleTask EXCEPT !.pc = "compare", !.audit = TRUE,
                                                  !.fill = held]]
  /\ UNCHANGED <<ledger, exchange, broker, lost, crashes>>

\* What the account holds: the ledger plus what it has not booked.
Account == held + unbooked["buy"] - unbooked["sell"]

\* An account that differs from the ledger is not touched.
Compare(w) ==
  /\ At(w, "compare")
  /\ IF task[w].fill = Account /\ task[w].fill > 0 THEN GoTo(w, "open") ELSE Leave(w)
  /\ UNCHANGED <<ledger, exchange, broker, lost, crashes>>

\* A numbered stop order that the broker no longer has is placed anew.
Observe(w) ==
  /\ At(w, "observe")
  /\ LET i == task[w].number
     IN  task' = IF Active(i)
           THEN [task EXCEPT ![w].pc = "adopt", ![w].ack =
                   [number |-> i, qty |-> stops[i].qty, stop |-> stops[i].stop]]
           ELSE [task EXCEPT ![w].pc = "call", ![w].number = 0]
  /\ UNCHANGED <<ledger, exchange, broker, lost, crashes>>

\* (mutant) what the broker has is good enough
SufficientAnyway(w) == TRUE

\* The row covers the open quantity of the audit's start.
Sufficient(w) == /\ row'.status = "active"
                 /\ row'.protected = task[w].fill
                 /\ row'.stop >= EntryStop

\* The stop order that the broker has is recorded, and amended if it does not do.
Adopt(w) ==
  /\ At(w, "adopt")
  /\ IF AckFits(task[w].ack)
       THEN /\ row' = Activated(task[w].ack)
            /\ IF Sufficient(w)
                 THEN Leave(w)
                 ELSE task' = [task EXCEPT ![w].pc = "call", ![w].qty = row.required,
                                 ![w].stop = row'.stop, ![w].number = row'.number]
       ELSE Leave(w) /\ UNCHANGED row
  /\ UNCHANGED <<held, exchange, broker, lost, crashes>>

\* A query of the broker fails.
AuditFails(w) ==
  /\ task[w].pc \in {"compare", "observe"}
  /\ Leave(w)
  /\ UNCHANGED <<ledger, exchange, broker, lost, crashes>>

-----------------------------------------------------------------------------
(* A flat position: the stop is canceled.                                  *)

AskCancel(w) ==
  /\ At(w, "askCancel")
  /\ IF held > 0
       THEN Leave(w) /\ UNCHANGED row
       ELSE /\ GoTo(w, "flat")
            /\ row' = IF row.status = "canceled" THEN row
                      ELSE [row EXCEPT !.status = CancelPending]
  /\ UNCHANGED <<held, exchange, broker, lost, crashes>>

CheckFlat(w) ==
  /\ At(w, "flat")
  /\ IF held > 0 THEN Leave(w) ELSE GoTo(w, "cancelOf")
  /\ UNCHANGED <<ledger, exchange, broker, lost, crashes>>

ReadNumber(w) ==
  /\ At(w, "cancelOf")
  /\ task' = [task EXCEPT ![w].number = row.number, ![w].pc = "cancel"]
  /\ UNCHANGED <<ledger, exchange, broker, lost, crashes>>

\* The broker has no stop order with this number any more.
Removed(i) == stops' = IF i = 0 THEN stops ELSE [stops EXCEPT ![i].qty = 0]

CancelAccepted(w) ==
  /\ At(w, "cancel")
  /\ Removed(task[w].number)
  /\ GoTo(w, "canceled")
  /\ UNCHANGED <<ledger, exchange, issued, lost, crashes>>

\* Nothing is recorded of a cancellation that fails or whose answer is lost.
CancelRefused(w) ==
  /\ At(w, "cancel")
  /\ Leave(w)
  /\ UNCHANGED <<ledger, exchange, broker, lost, crashes>>

CancelLost(w) ==
  /\ At(w, "cancel")
  /\ lost < MaxLost
  /\ lost' = lost + 1
  /\ Removed(task[w].number)
  /\ Leave(w)
  /\ UNCHANGED <<ledger, exchange, issued, crashes>>

RecordCancel(w) ==
  /\ At(w, "canceled")
  /\ row' = IF held > 0 THEN row
            ELSE [row EXCEPT !.status = "canceled", !.protected = 0]
  /\ Leave(w)
  /\ UNCHANGED <<held, exchange, broker, lost, crashes>>

Crash ==
  /\ crashes < MaxCrashes
  /\ crashes' = crashes + 1
  /\ task' = [w \in Worker |-> IdleTask]
  /\ UNCHANGED <<ledger, exchange, broker, lost>>

-----------------------------------------------------------------------------
Fill(w) == \E q \in 1..MaxTrades : BookBuy(w, q) \/ BookSell(w, q)

Tighten(w) == \E s \in 1..MaxStop : BeginTighten(w, s)

Read(w) == ReadOpen(w) \/ ReadRemaining(w) \/ ReadStop(w) \/ CheckNumbered(w)

Call(w) == \/ CallRefused(w)
           \/ \E q \in 1..MaxTrades : CallAccepted(w, q) \/ CallLost(w, q)

Audit(w) == Compare(w) \/ Observe(w) \/ Adopt(w) \/ AuditFails(w)

Cancel(w) == \/ AskCancel(w) \/ CheckFlat(w) \/ ReadNumber(w)
             \/ CancelAccepted(w) \/ CancelRefused(w) \/ CancelLost(w) \/ RecordCancel(w)

Step(w) == Read(w) \/ Request(w) \/ Call(w) \/ RecordAck(w) \/ Fail(w) \/ Audit(w) \/ Cancel(w)

Next ==
  \/ \E s \in Side : Trade(s)
  \/ \E w \in Worker : Fill(w) \/ Tighten(w) \/ BeginAudit(w) \/ Step(w)
  \/ Crash

Spec == Init /\ [][Next]_vars

\* A begun task goes on; fills are booked and audits come again; the broker, asked again
\* and again, in the end covers all that is asked and answers the audit's queries.
Fairness ==
  \A w \in Worker :
    /\ WF_vars(Step(w))
    /\ SF_vars(Fill(w))
    /\ SF_vars(BeginAudit(w))
    /\ SF_vars(CallAccepted(w, task[w].qty))
    /\ SF_vars(Compare(w))
    /\ SF_vars(Observe(w))

FairSpec == Spec /\ Fairness

-----------------------------------------------------------------------------
(* Properties.                                                             *)

\* No stop order at the broker is above the level on record: every level is written down
\* before the broker hears of it, and no fill, audit, tightening or late answer of an
\* overlapping worker takes the level on record back.  The broker's own order may fall
\* below it: a request written down before a tightening and sent after it amends the
\* order down, which no comparison in submit_requested() prevents (protection.py 226-232).
StopIsOnRecord == \A i \in 1..MaxStops : Active(i) => stops[i].stop <= row.stop

\* With one worker at a time a stop order at the broker never moves in the loss-expanding
\* direction, although the audit asks for the entry's stop and adopts what it finds, and
\* refusals, lost answers and restarts leave row and broker at different levels.
StopOrderNeverLoosens ==
  [][\A i \in 1..MaxStops : Active(i) /\ Active(i)' => stops'[i].stop >= stops[i].stop]_vars

\* An open position's row asks for exactly the open quantity, although the quantity is
\* read in one transaction, written in another and changed by every fill in between.
RequiredIsOpen == held > 0 => row.status # "none" /\ row.required = held

\* global_gate_signal(): new risk is allowed.
GateOpen ==
  held = 0 \/ (row.status \in {"active", "amend_pending"} /\ row.protected = held)

\* New risk is allowed only while a stop order at the broker covers all that is open,
\* through lost answers, refusals, partial cover and restarts at any point.
GateOpenIsCovered == GateOpen => held = 0 \/ \E i \in 1..issued : stops[i].qty >= held

Protected == held = 0 \/ (row.status = "active" /\ row.protected = held)

\* An entry is in the end protected completely, whatever was lost or interrupted: the
\* audit repairs it.
EntryRecovers ==
  [](traded["sell"] = 0 /\ row.stop <= EntryStop) => (held > 0 ~> Protected)
=============================================================================
