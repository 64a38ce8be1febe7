# Verification of hanstock_ora

hanstock_ora (`src/` of the repository, Python) analyses Korean and US stocks,
lets strategies and language models propose trades, queues them for approval,
sends approved orders to the KIS broker and keeps a ledger of positions, stop
orders and risk budget. This directory holds TLA+ models of the parts in which
an error costs money and a unit test hardly reaches it: request threads,
scheduler processes and broker calls that interleave, answers that get lost, and
processes that stop between two database transactions.

Paths below are relative to `src/src/` unless they say otherwise.

## 1. The system's components

| Component | State it keeps | Operations | What makes it hard | What makes it correct | Module |
|---|---|---|---|---|---|
| Managed orders (`strategy/autonomy/order_state.py`, `broker_adapters.py`, `db/ai_execution_repository.py`) | `ai_managed_orders`, `ai_managed_fills`, `strategy_positions` | create, approve, reject, expire, submit, cancel, apply_fill, reconcile | broker calls between two transactions, compare-and-set losers, lost answers, overlapping cycles | legal transitions, one submission, a fill is booked once, an order that the broker knows is settled | `ManagedOrders` |
| Planning cycle, approval bridge, risk reservations (`orchestrator.py`, `runtime.py`, `approval_bridge.py`, `ai_stock_integration.py`, `db/ai_risk_repository.py`) | order row, approval row, `risk_reservations`, positions | plan, reserve, queue, approve, reject, cancel, execute | four rows moved one after the other, figures read long before they are used, double approval, crashes in between | the budget is never spent twice and stays reserved while its order lives; only an approved order is claimed | `ApprovalPipeline` |
| Hard-stop protection (`protection.py`, `recovery.py`) | `ai_position_protections`, the broker's stops | request, submit, tighten, cancel, audit | a fill changes the quantity while a stop is placed; restart; late answers | an open position is covered or the gate for new risk is closed | `HardStopProtection` |
| Autonomy service (`autonomy_service.py`, `continuous_service.py`, `health.py`, `lifecycle.py`, `db/strategy_repository.py`) | lock file, safety block, strategy catalog | acquire, release, recover, cycle, halt, gate, edit | two starters, a dead owner, a catalog written back from old copies, failing audits | one service; a strategy that went wrong stays out; a position can always be reduced | `AutonomyService` |
| Dashboard approvals (`dashboard/services/approval_service.py`) | `approvals`, `trades`, balance cache | claim, submit, reject, reclaim | routes, sweeper and cron processes at once | each approval is submitted by one claim, the position limit holds | `ApprovalQueue` |
| Scheduler run state (`runtime_state.py`, `dashboard/services/scheduler_service.py`) | one row, a copy of it in every process | claim, complete, fail, time out, reset | a copy refreshed without the lock, visitors that reset the row | the record says who runs and does not say so for ever | `SchedulerHost` |
| Strategy schedules (`strategy_scheduler.py`, `db/scheduler_repository.py`, `src/scripts/vm/`) | `strategy_schedules`, lock file | dispatch, mark, save | run first, mark later; one row for several strategies; rows saved from old copies | a strategy rests its interval and keeps being run | `ScheduleDispatch` |
| Trading cycle and order synchronisation (`trader.py`, `strategy/router.py`, `dashboard/services/order_sync_service.py`) | `trades` | plan, send, save, sync from history or balance, import fills, cancel | old answers, inference from holdings, an import that races the sender | a holding is not locked behind a dead order, nor a live one given up; fills arrive | `TradeSync` |
| Caches (`dashboard/services/cache_service.py`) | balance snapshot | save, clear | a write that lands after the clear | the position limit sees no balance older than the last order | partly in `ApprovalQueue` |
| Futures signals, AI evaluation, mistock, market data, pages, notifications, Android | reports, settings, tables of their own | | numeric rules and I/O | | see section 7 |

The interplay: the autonomy service (or a dashboard request) runs a cycle that
turns an intent into a position, a risk reservation and a managed order; the
approval bridge links the order to an approval; approving it runs submit; the
reconciliation compares the broker's execution history with the ledger, books
fills and asks for stop orders; the service audits the stops and halts a strategy
whose records went wrong. Beside it the older path runs: cron dispatches the
strategies that are due, their plans become approvals or orders, and the rows of
`trades` follow the broker by synchronisation. Both share one SQLite (or
PostgreSQL) database and one broker account. What synchronises them is single-row
compare-and-sets, two lock files and one lock per process.

## 2. Modules

| Module | What it models |
|---|---|
| `OrderState` | Status vocabulary, `ALLOWED_TRANSITIONS`, the set the reconciler lists, the status a broker observation asks for (`_target_status`), and `Total`, a sum over a finite set. |
| `ManagedOrders` | The orders of one position: every transaction and every broker call of submit, cancel, apply_fill, reject, expire and reconcile is one action. |
| `OrderContract` | The abstract specification of a set of orders: before the broker, live, then complete or dead; fills only while live. `ManagedOrders` implements it. |
| `ApprovalPipeline` | From the account snapshot of a cycle to the claim of an approved order: sizing, reservation, order, approval and their requests. Uses `OrderState`. |
| `HardStopProtection` | The hard stop of one position: fills, stop orders, tightening, cancellation, the audit after a restart, and the gate for new risk. |
| `AutonomyService` | The service process: its lease, recovery, cycles, the halting of strategies and the catalog other processes write. |
| `ApprovalQueue` | Dashboard approvals claimed, placed, recorded, rejected and reclaimed by the threads of several processes. |
| `ApprovalContract` | The abstract specification of a set of approvals: decided once, orders at the broker only between claim and end and no more than one submission's attempts, executed only with an order. `ApprovalQueue` implements it. |
| `SchedulerHost` | The record of the domestic scheduler's run. |
| `ScheduleDispatch` | The dispatcher of the strategy schedules. |
| `TradeSync` | The trades table against the broker's orders. |
| `MC*` | Instances for TLC. |
| `*Proof` | Theorems about the module they are named for. |

How they fit together: each module makes the neighbours' behaviour a choice of its
environment, so that what it shows holds whatever they do. `ApprovalPipeline` ends
an order at the broker in one step of a reconciler (`Settle`), which
`ManagedOrders` spells out; `ManagedOrders` leaves the outcome of a stop order
open (`ProtectOk`, `ProtectFails`), which `HardStopProtection` spells out; in
`AutonomyService` entries, exits and stops are filled, lost and uncovered by the
environment; a run of `ScheduleDispatch` succeeds or fails, and what it orders is
in `TradeSync` and `ApprovalQueue`. `OrderState` is shared by the first two.

### ManagedOrders

Database state: `status`, `filled`, `brokerId`, `fills` (rows of
`ai_managed_fills`, keyed by order and observed cumulative quantity), `held` (the
position's remaining quantity) and `resv` (status of the position's newest risk
reservation). Broker state: how many orders it accepted for a managed order
(`placed`), the state of the latest and its executed quantity. A worker's local
variables (`order`, `before`, `observed`, `current` in the code) are the record
`task[w]`; its `pc` names the next transaction or call. Three kinds of workers are
those of the code: requests that approve and submit (`Executor`), cancel requests
(`Canceler`), and reconciliation cycles (`Reconciler`), which overlap when a
manual cycle meets the scheduler's.

A write is one step because it is one `begin_write` transaction. A terminal
transition is two steps, since `transition()` commits the status before
`_finalize_reservation` opens its own transaction. `Crash` empties every `task`
and keeps database and broker. `SubmitCall` is one HTTP attempt; with
`MaxAttempts > 1` a lost answer is retried, as `@retry` does. What the broker
answers is free: accepted, rejected or lost, with or without effect; the
execution history may not list an order yet, may list it without a usable average
price, and may show a refused order as canceled.

Abstracted: prices, the payload texts, the event log, the market check, the
validity time (expiry is possible at any time before submission), and the stop
order's own life.

### ApprovalPipeline

`status`, `qty` and `bound` are the order row (bound: it carries its approval's
id), `approval` the approval row, `resv` the active reservation of a position,
`pos` and `held` the position. A `Cycle` worker reads the account and the sum of
the reservations, sizes each buy, and then creates position, reservation and order
in three transactions; the order is marked and queued in further ones. `Operator`
workers approve, reject and cancel; an approval goes on to the fresh risk check and
the claim. Every account query and every transaction is a step, `Crash` empties all
tasks.

Two snapshot providers are modelled: the contract the documents describe and the
operational one shipped (`operational_context.py`), whose snapshot fails while a
position of quantity zero exists. Abstracted: the limits are one account limit in
shares, the others are the cap `Want`; sells need no budget and are left out.

### ApprovalQueue

Database state: `approval`, the status of each approval row, and `trade`, that of the
row it leaves in `trades`. Broker state: how many orders it accepted for an approval
(`placed`), the state of the latest (`bkState`) and the symbols the account holds
(`holdings`). `lock[p]` is the `_approval_submission_lock` that only the threads of
process `p` share; `cache` the balance cache, a file all processes share. `task[t]`
holds a thread's locals: the approval it works on, the holdings and the active buys
it counted, the attempts it made; `pc` names the next statement that touches
something shared.

The claim is the compare-and-set `pending -> executing`; the three reads of the
position limit, the call (one action per HTTP attempt), the trade row and the final
status are separate steps, because each is its own transaction or request. `Reclaim`
is `_reclaim_stale_executing_approvals()`, which gives an approval up (`failed`) after
ten minutes in `executing`. `Crash` empties the threads of a
process and frees its lock.

Abstracted: prices and amounts (a buy or a sell of one lot), the market and
safety checks that only refuse (a free choice), messages, and approvals of managed
orders, which take the bridge's path. Dry run is off: orders reach the broker.

### HardStopProtection

Database state: `held` (the position's `remaining_qty`) and `row` (its row in
`ai_position_protections`: status, `required_qty`, `protected_qty`, level and
broker number). Exchange: `traded` and `unbooked`, what it has executed and what
the ledger has not booked yet. Broker: `stops`, the stop orders it has accepted.
`task[w]` is what a worker has read and been answered; `pc` names its next
transaction, read or call. A worker books a fill and then asks for the stop to
follow (`BookBuy`, `BookSell`, `ReadOpen` ...), tightens the stop (`BeginTighten`),
or audits the position (`BeginAudit` ... `Adopt`).

`BookBuy` and `BookSell` are one transaction that changes the position and the row,
as `apply_managed_fill` does. Every later step is its own transaction:
`request_entry_fill` reads the open quantity in one and writes it in another,
`submit_requested` calls the broker between two, `cancel_after_flat` reads twice,
calls and writes. `Crash` empties the tasks and keeps the database, the broker and
the exchange.

The broker is the Protocol of `protection.py`: it may refuse, cover less than
asked, or answer too late to be heard. Three assumptions are made of it: an
amendment never covers less than the smaller of what was covered and what is
asked; it acknowledges the level it was asked for; `fetch_position_qty` is the
account's holding. The last one is what recovery relies on; `PaperProtectionBroker`,
the only one assembled today, breaks it (it sums its own stops, in memory).

Abstracted: prices are levels, the position's own `current_stop_price` is the
lowest, and nothing but `tighten_stop` goes above it; the stop itself does not
fire, which the code does not handle either; rows are keyed by position, so one
position is enough, but owner totals over several positions are left out.

### AutonomyService

`file` is `service.lock`: absent, or created by a process with its pid written or
not yet. `pc[p]` is where a process is, from the creation of the file (`Open`,
`Write`, or `Read`, `Ask`, `Unlink` when it exists) through recovery and audit to
the cycle (`Snapshot`, `Judge`, `Halt`, `Scan`, then `Decide` and `Place` for each
intent). `work[p]` is what it remembers: whether the market is blocked, which
strategies it has yet to do, the profiles its adapters were built with, what it was
told of the health of the strategy it works on, and the intents of the scan that are
left. `catalog` is the status and the profile (version and hash as one value) of each
strategy in the table, `backup` the JSON copy, `loaded[c]` the copy a dashboard
request will write back, status and profile. `position`, `unknown`, `uncovered`,
`losing` and `mismatch` are what the durable records say of a strategy, which the
health evaluation reads (`Target`). `fresh` is a history variable: the run recorded
its strategy's first mismatch.

One report of the health serves all the intents of a run (`Scan` to `RunEnds`), while
the catalog is read again for each of them. `Halt` writes a status only if it is the
stronger one, as `halt_ai_strategy` does; `GateAllows` is
`StrategyLifecycleGate.evaluate`: a reduction always passes, anything else needs a
strategy that is approved and whose profile is the one the adapters were built with,
and an evaluation without a finding. In a blocked market the gate is asked all the
same, and the risk check after it denies the entry (`Place`). A decision rejected for
a mismatch, of the profile, of the health, or of the strategy or market an intent
names (`Misfit`), is recorded, and is what later evaluations count.

Abstracted: one market, one position of a strategy at a time, the counts and ratios
of the evaluation (its findings are `losing`, `unknown`, `uncovered`, `mismatch`),
the heartbeat.

### SchedulerHost

`row` is the persisted record, `mem` the dashboard's copy. `Claimed` runs are those
of `/api/scheduler/run`, which take the lock, refresh and write the claim;
`Direct` runs are those of the strategy pages, which write field by field. A
status request (`Pollers`) works without the lock until it ends the record: it reads
the row (`PollRead`), puts it into the copy (`PollRefresh`), looks whether the copy
says running (`PollLook`), judges start and limit, and takes the run id from the copy
once more (`PollJudge`). It may then be the id of another run, or none, in which case
the record is ended without a comparison (`PollLock`). `Visitors` are other processes
that construct the state and reset a row whose owner they do not find; one may read
between the death of the dashboard (`Crash`) and its `Restart`. `TimePasses` makes a
run overdue. Runs get their ids one after the other (`Fresh`), as a new uuid is like
any other.

`trampled` is a history variable. It is set by the four ways in which the code writes
the record without knowing what is in it: a strategy page writes it unclaimed; a status
request takes the id of another run than the one it found late; a refresh puts an older
row into the copy while a holder of the lock relies on it; a constructor resets a row
that has changed since it read it. Each of the four is needed: without any one of them
in the flag TLC finds a run at work that no record names (the refresh needs two status
requests).

### ScheduleDispatch

`row` is `strategy_schedules` with the time since `last_run_at` as an age in ticks of
cron, capped at the longest interval; `lock` the lock file; `applied` the strategies
that `resolve_ai_schedule_strategy_ids` puts in place of the AI slot. A dispatcher
plans once (`Plan`, and `Resolve` for the strategies of the slot, which are none when
the catalog cannot be read) and then runs, one after the other and those with a priority
first, and marks the row of what succeeded, which for an applied strategy is the
slot's. `EditLoads` and `EditSaves` are `save_strategy_schedule`: the copy it loaded
comes back with its old age. `wait` is a history variable: the ticks a strategy that
was marked is to rest.

### TradeSync

`held` and `book` are the broker, `row` the rows of `trades`, one for each order that
may be sent. A cycle plans a sell or a buy from the balance and the rows, sends it
and saves its row (two steps). A sync loads the rows, gets an answer, perhaps none,
and writes; the job does both the status sync and the import. The cancel route reads
the row, cancels and writes the fill count it had read.

Abstracted: prices, adjustment rows, the promotion of response-lost orders; one
symbol. A sync writes all its rows in one step; the code writes them one after the
other and reads the balance in between.

## 3. Runs

`CHECK_DEADLOCK FALSE` stands in every configuration but `ts_rows`: elsewhere the
system may rightly stop (all orders have ended and no request is open, all processes
are off, all runs are over).

| Run | Instance | What it shows |
|---|---|---|
| `mo_race` | one buy of 2 units, 1 submitter, 1 cancel request at a time, 2 overlapping cycles, 2 HTTP attempts, 1 crash | types; `filled` exactly when complete; one submission; a working order has its broker number; the reservation is closed only by the end of an order, and as it ended; fill rows, order and position agree; transitions are legal; `OrderContract` is implemented |
| `mo_roundtrip` | a buy and a sell of 2 units, one cycle at a time, cancel requests, 1 crash, fairness | without overlapping cycles the ledger never books more than the broker executed; a numbered order is settled in the end |
| `ab_pipeline` | an entry and an addition of 2 shares each, limit 3, 2 overlapping cycles, 2 operators, 1 reconciler, both snapshot providers, 1 crash | types; the live buys stay within the limit; each keeps its budget reserved; only an order whose approval says so is claimed |
| `aq_dashboard` | one process, two threads, three buys of which two share a symbol, limit of two positions, 1 crash | types; working buys stay within the limit; although each count is several broker calls older than the order it allows |
| `aq_processes` | one approval, two processes, 2 HTTP attempts, 2 crashes, fairness | an approval is submitted by one claim; a rejected one never reaches the broker and an `executed` one has (`PlacedAsDecided`); `ApprovalContract` is implemented; a claim ends |
| `hs_serial` | one worker, 2 units bought and sold, 2 levels, 2 lost answers, 1 crash, fairness | types; an open gate means a covering stop at the broker; no stop order at the broker is moved down; an entry is in the end protected completely |
| `hs_race` | two workers, 2 units each way in any order, 2 levels, 1 lost answer | the row asks for exactly the open quantity; no stop at the broker is above the level in the row |
| `as_service` | two processes whose starts do not overlap, one strategy that asks for up to two entries in a run, one dashboard request that saves what it loaded or approves, 1 stop or crash, 1 fault, 1 edit or deletion, fairness | types; one service at a time; a strategy with a mismatch on record never enters again, from the run after the one that recorded it; a position wanted out gets its exit order |
| `as_displaced` | two processes that start at the same time | **violated**: a live owner can lose its lease |
| `sr_host` | two claimed runs, one of a strategy page, one status request, one visiting process, 1 restart, fairness | types; work within the limit is recorded unless the record was trampled on; no record says working for ever |
| `sd_dispatch` | one fixed strategy, two applied to the AI slot, two dispatchers and the daily cycle, one edit at a time, intervals up to 2 ticks, 1 crash or database error, fairness | types; a marked strategy rests its interval; a scheduled one keeps being run |
| `ts_rows` | four order identities (buy or sell, router or approval), one of them sent, 2 shares, held 0 or 2, one sync and the sync job, 1 day end, fairness | types; a row is given up only when its order is closed; a row does not stay `submitted` or `open` once its order is closed; the fills of a closed order arrive in its row |

### Bounds

Two units are the least with a partial fill, a partial cover and a partial sale; two
reconcilers, a submitter and a canceler give every pair of actors of the code that
can meet on one order. One crash is enough to leave any intermediate state behind,
and a second one would start from a state the first could have left; `aq_processes`
has two because a reclaimed claim is a second life.

In `ApprovalPipeline` two cycles are the least that read the same figures, and with a
limit of three, two buys of two shares compete for it. The two orders have positions
of their own: two additions to one position share one reservation, and then the
first property is false (section 5).

In `ApprovalQueue` three buys are the least that can overrun a limit of two, two
sharing a symbol tell a position from an order, and two processes are the least that
share rows without sharing the lock.

In `HardStopProtection` two levels are the least with something to tighten; two
workers are the least that overlap. `MaxStops` bounds the stop orders ever placed: a
new one is only needed after a lost answer or a cancellation, so lost answers plus
two are never short; `hs_race`, whose properties are about the row, stops at two.

In `AutonomyService` a process that died stays dead, so two are an owner and its
successor. One strategy suffices for the health of one; what strategies share is the
market block and the catalog, which a copy loaded before a halt represents. Two
entries in a run are the least of which the second can follow a recorded mismatch; of
the statuses a dashboard request writes only `approved` can let a strategy back in.

In `SchedulerHost` two claimed runs are the least of which one can end the record of
the other. One status request is enough for all of the four ways of trampling but the
older row under a lock; the theorem holds for any number. In `ScheduleDispatch` two strategies of the slot are the least that share a row; an
interval of two ticks is the least in which a strategy is due at one tick and not at
the next. In `TradeSync` the rows of different orders meet only in the plan of a
cycle, which needs one; the four identities start the order in every way there is.

### Fairness

`ManagedOrders`: a started request runs on, cycles repeat, the exchange closes (a
working order ends), and a repeated query of a numbered order is answered with its
state infinitely often (strong fairness). The last is an assumption on the broker
and on the history window: the code searches the execution history of the order's
creation date. Operators' requests have no fairness, and `NumberedOrderSettles` asks
that cancel requests stop in the end: each new one moves the order back to
`cancel_pending`.

`ApprovalQueue`: a begun thread goes on, and the sweeper, which the dashboard runs
every 15 seconds, reclaims what it may. Its ten minutes are modelled as "no live
thread holds the claim": a live claim makes at most two broker calls of three
attempts of 15 seconds. A machine suspended for longer in the middle of a claim is
outside this assumption.

`HardStopProtection`: a begun task goes on; fills are booked and the audit comes again
(strong fairness, since the one worker takes turns with its other tasks, as a cycle
does); the broker, asked again and again, in the end accepts the whole quantity and
answers the audit's queries. `EntryRecovers` is stated for behaviours in which nothing
raised the stop above the position's own, because after that the audit's request is
refused (`tighten_stop` leaves `current_stop_price` behind; nothing calls it today).

`AutonomyService`: the threads run, and a service that is not running is started again
(the unit file says `Restart=on-failure`; after a stop an operator does). Nothing is
assumed of fills, clerks or faults, which are bounded in number.

`SchedulerHost`: a thread that has the lock goes on, the clock advances, the status page
keeps asking, and a dashboard that died is started again. A runner need never end, and the
visitors need never come.

`ScheduleDispatch`: a job runs until it ends; cron tries again every ten minutes and
now and then finds the lock free (strong fairness); the daily cycle ends; time
passes. A run that hangs for ever would hold the lock for ever: the code has no
limit on it.

`TradeSync`: a cycle that sent an order saves its row or stops, a begun cancel is
answered, a begun sync ends, and the job is run again and again; the history answers
again and again (strong fairness), as `ManagedOrders` assumes too.

## 4. Proofs

All theorems hold for any sets of orders, workers, processes and strategies and any
bounds, from the assumption each module states on its constants (`OrderAssumption`:
the orders to buy are orders, there are finitely many, quantities are positive; the
`BoundAssumption`s; `ServiceAssumption` and its like). Some hold under a hypothesis of
their own, named in the statement. `OneProcess` and `OneStarter` are how the code is
meant to be run; `OneReconciler` is what the schedule brings about as long as nobody
starts a cycle by hand; `OwnPosition` is a restriction, since the code allows a second
order of a position. Each is needed, and section 5 says what happens without it:

| Hypothesis | Theorems | Why it is needed |
|---|---|---|
| `OneReconciler`: cycles do not overlap | `BookedWasExecuted` | two cycles that read the same ledger and different answers book the shared units twice |
| `OwnPosition`: no two orders share a position | `LiveBuyKeepsBudget`, `LimitIsNotSpentTwice` | two additions to one position share one reservation |
| `OneProcess`: one process approves | `OneProcessSerialises`, `PositionLimitHolds` | the submission lock does not reach the scheduler's process |
| `OneStarter`: starts do not overlap | `OnlyOneService`, `MismatchKeepsOut` | a second starter removes the file that has no pid yet |

**ManagedOrders** (`ManagedOrdersProof`). The lemma `NextCases` lists the steps of
`Next` once; a lemma of its own then says for each part of the state what a step may
do to it (`LedgerSteps`, `RecSteps`, `QuietSteps`, `AnswerSteps`, `CloseSteps`,
`HeldSteps`), and each invariant is proved from those rather than from the actions.

* `TypeCorrect`: `TypeOK` is inductive by itself.
* `StatusesMoveLegally` (`LegalTransitions`), `FilledMeansComplete`
  (`FilledIffComplete`) and `OrdersKeepContract` (`ImplementsContract`) rest on
  `FillInv`. `FilledIffComplete` is not inductive: `RecSettle` may ask for `filled` on
  the strength of an answer that others have overtaken. It may do so because an answer
  of the whole quantity reaches that step only past a fill row with that key, and such
  a row exists only when everything is booked: it was written over a cumulative
  quantity at least as large as the one its writer had read. `FillInv` says so of rows
  and of reconcilers.
* `SubmittedOnce` (`OneSubmission`, and that an expired order was never placed) rests
  on `SubmitInv`: before the claim nothing was placed; at most one worker is in an
  order's submission, it has made `tries` attempts, and until it records the answer the
  order has no broker number. `CasBlind`, the compare-and-set without its condition,
  breaks it.
* `WorkingIsNumbered` (`WorkingHasBrokerId`) rests on `BrokerIdInv`: whoever is about
  to write `submitted`, `partially_filled` or a fill holds evidence (an accepted
  answer or a snapshot) that only a numbered order can have.
* `BookedWasExecuted` (`FilledWithinBroker`) rests on `BookInv`: the ledger a reconciler
  read is still the ledger when it books, and the answer it books up to is still
  reached by the broker's quantity. The second half needs `SubmitInv` and `BrokerIdInv`:
  the quantity at the broker only ever shrinks when an order is placed again, and an
  order with a number is not.
* `LedgerStaysInAgreement` (`LedgerAgrees`) needs no such hypothesis. Its invariant adds
  that the fill rows are finitely many. A new row is a new member because its key was
  looked up in the transaction that writes it, so the sum over its order's rows grows by
  just its quantity, and with it the order and the position.
* `BudgetFollowsOrder` (`ReservationFollowsOrder`) holds for any number of orders of the
  position, sells and further buys included, and rests on `ReservationInv`: closing the
  reservation is a step of its own after the status, so a worker on its way there must
  carry something that stays true, and an end is final (`GraphFacts`). It does not say
  that the budget of one order outlives the end of another: any order of a position
  closes its newest reservation (section 5). Where there is one order it says that
  the budget is reserved until that order has ended.

*Totals.* A sum over a set is usually a recursion on the set, and induction over data is
out of reach here. `Total` counts instead: the sum of the quantities of a set is the
cardinality of the set of their units. That it is finite (`TotalType`), that any quantity
may be taken out (`TotalSplit`), what changing or adding one does (`TotalUpdate`,
`TotalAdd`) and that an injection of the quantities bounds one total by another
(`TotalInject`) then follow from the library's facts about cardinalities. `ManagedOrdersProof`
and `ApprovalPipelineProof` prove those they use. `Reserved` of
`TradeSync` is a count of the same kind.

**ApprovalPipeline** (`ApprovalPipelineProof`)

* `PipelineTypeCorrect`.
* `OnlyApprovedIsClaimed` (`ClaimedIsApproved`) rests on `ClaimInv`, which adds what
  each worker knows between two transactions: one that is past a check knows what it
  checked, because the approval of a row and its binding to the order are never taken
  back.
* `LiveBuyKeepsBudget` (`LiveBuyIsReserved`) assumes `OwnPosition`, that no two orders
  share a position: the reservation is looked up by position, so the end of one order
  would release the budget of the other. `BudgetInv` adds that an order its cycle has yet to create is absent, that a cycle
  about to create one has its amount reserved, and that a worker about to release has
  seen its order end.
* `LimitIsNotSpentTwice` (`LiveBuysWithinLimit`) assumes `OwnPosition` too. `SpendInv`
  says that the reservations together stay within the limit, from whatever figures a
  cycle sized its order: a cap is never above the limit, and the transaction that
  reserves adds the reservations up again. The live buys then inject into the
  reservations of their positions (`TotalInject`, with `BudgetInv`).

**ApprovalQueue** (`ApprovalQueueProof`): `QueueTypeCorrect`, `ApprovalSubmittedOnce`,
`DecisionsAreTrue` (`PlacedAsDecided`) and `QueueKeepsContract` (`ImplementsContract`),
and, when all threads belong to one process, `OneProcessSerialises` and `PositionLimitHolds`. They
share one inductive invariant, `QInv`: a claimed approval is `executing` and has one claimer (`ClaimOK`);
how far the claimer has got bounds what the broker may have accepted (`PlacedOK`); a
lock names a thread that is working (`LockOK`). `SubmittedOnce` itself says nothing of
threads: only `ClaimOK` excludes that a second one calls the broker for the same row.
The refinement of `ApprovalContract` needs no more than `QInv`: `PlaceKeepsContract` and
`RecordKeepsContract` are the two steps whose code checks nothing, and there `ClaimOK` and
`PlacedOK` give what the contract asks; the other steps map to a step or a stutter.
The lemma `OthersKept` carries the argument: a step that moves one thread and one row
coherently leaves every other thread's part of `QInv` alone.

`PositionLimitHolds` (`WorkingBuysWithinLimit`) adds `LimitInv`: a thread that has
passed the limit still counts every symbol on the books, its own is not among them, and
what it counted is below the limit. The active buys it read can only have become fewer,
since the thread that holds the lock is the only one that saves trade rows (`Alone`,
`LimitKept`). Orders of different symbols are no more than the symbols they are among
(`ApartWithin`), which turns the count of symbols into the count of orders.

**HardStopProtection** (`HardStopProtectionProof`): `ProtectionTypeCorrect`, and, for any
number of overlapping workers, `RequiredFollowsPosition` (`RequiredIsOpen`),
`RecordedStopNeverLoosens` and `StopsAreOnRecord` (`StopIsOnRecord`). The lemma
`StepsOfRow` reduces every step to what it may do to the row, and each such write
compares with the row in its own transaction, so the level in the row only rises. That
no stop at the broker is above it needs `StopInv`: a worker that calls the broker asks
for a level that was written down before (`AskedIsOnRecord`), and what it carries stays
below a row that only rises. The other direction is false: a late request moves the
broker's stop down again (section 5). That an open gate means a covering stop is
model-checked for one worker and a position that does not grow again; without these
bounds it is false (section 5), so there is no theorem.

**AutonomyService** (`AutonomyServiceProof`): `TypeCorrect`, and under `OneStarter`
`OnlyOneService` (`OneService`) and `MismatchKeepsOut` (`MismatchOutlastsItsRun`), for any
number of intents in a run. `Typed` is `TypeOK` cut into what the processes, the lists
and the records have. `Lease` says that a process that serves, or is about to write its
pid, has created the file that is there, that one process starts at a time, and that
nobody serves while a file is about to be unlinked; without `OneStarter` the last part
fails, which is `as_displaced`. `Sound` relates what a process remembers of the health
of a strategy to the records: a process that works on a strategy with a mismatch on
record was told so by the evaluation, or is in the run that recorded the first one,
because only it records one. So `MismatchKeepsOut` needs the lease too: a second
service would record a mismatch behind the first one's back.

**ScheduleDispatch** (`ScheduleDispatchProof`): `TypeCorrect` and `StrategiesRest`
(`RestsItsInterval`). `RestsItsInterval` is about one step and one history variable;
the invariant adds `Planned` (only the holder of the lock has a plan, and nobody in it
is to rest) and `Rested` (while a strategy rests, the age of its row and the rest left
are together at most the row's interval, so the row is not due). The marks of other
strategies on the same row only make it younger, and a saved row ends the rest.

**SchedulerHost** (`SchedulerHostProof`): `HostTypeCorrect`, and, for any number of status
requests, `HostRecordsWork` (`WorkIsRecorded`). The invariant `Core` is about behaviours
in which nothing was trampled on. What the row, the copy and any reading of them say is
about a run that was claimed, by this process or an earlier one (`AllGood`); whoever is
between its check and its write holds the lock (`Locks`); a run that works within its
limit is named by the row, and what is checked under the lock is what the row says
(`Recorded`); and a status request about to end a record has found that very run overdue
(`Timeouts`).

**TradeSync** (`TradeSyncProof`): `TradesTypeCorrect` (`TypeOK`) and
`RowsAreGivenUpInTime` (`GivenUpIsClosed`), for any orders, syncs and days. Whatever a sync
writes it has read before: rows, or an answer of the history. `Facts` says what is still
true of them when they are used: a row that was loaded names an order that was placed
and shows no more than it (`RowWithin`); an answer has the amount and the day that the
order still has, and an answer that says an order is closed is the order as it is
(`AnswerOK`). They stay true because the broker never changes the amount or the day of
an order, nor anything of one that is closed (`BookKept`). So an answer of an earlier
day, a canceled or a rejected one give up no order that works; nor does the balance,
since a working sell reserves a share (`UnreservedIsClosed`). What `TypeOK` says of the
holding is not inductive: a sell may be filled only because the broker has accepted no
more than is held, and the largest holding is reached only by the buys that were left.
`Room` counts both: the shares that working sells reserve are held, and the holding
together with what is still to be bought stays within `MaxShares` (`RoomAfterOrder`,
`RoomAfterSell`, `RoomAfterBuy`).

Only model-checked: liveness (`NumberedOrderSettles`, `ClaimEnds`, `EntryRecovers`,
`ExitIsSent`, `RecordEnds`, `KeepsRunning`, `LockIsReleased`, `FillsArrive`), which is out
of the prover's reach, and two safety properties that are only true of one worker at a
time, `GateOpenIsCovered` and `StopOrderNeverLoosens`. Every other invariant and action
property of the passing runs is a theorem.

## 5. Findings

`as_displaced`: the lock file exists before the pid is in it. A second process that
starts in between reads an empty text, takes the file for a stale one and removes it,
so that both serve. PROJECT.json quotes the docstring this contradicts.

What follows was met while modelling and has no run of its own. Each place is where
the model takes the code's side; the properties are stated so that they hold beside it. Files without
a directory are those of `strategy/autonomy/`.

*Orders and budget*

* The HTTP client retries `place_order` after a lost answer (`api/kis_api.py:373`), so an
  order can be placed twice.
* A second cancel request skips the broker and marks the order canceled
  (`order_state.py:352`).
* Two overlapping reconciliation cycles book the same units twice
  (`broker_adapters.py:191`); a cycle may also move an order out of `submitting` during
  its submission call, so that the order's number is dropped.
* A complete fill whose stop is not confirmed leaves its reservation active
  (`order_state.py:471`).
* The fresh check refuses an order because of its own reservation: excluding it
  (`runtime.py:222`) has no effect.
* Once an entry is planned, every snapshot of the shipped provider fails, because it
  asks for a positive quantity of every active position, pending entries included.
* Two additions to one position share one reservation.
* Approving between the creation of the approval and its binding to the order rejects
  the row while the order is queued; canceling a queued order leaves its approval
  pending. Nothing calls `expire()` (`approval_bridge.py:248`), and `expires_at` of a
  reservation is not enforced.
* The loop over queued orders ends at the first lost compare-and-set and leaves the
  others with their reservations. Holdings are read before the reservations they are
  compared with. The daily count leaves out orders whose outcome is not yet known.
* In the dashboard queue a buy whose answer was lost has no trade row and is counted
  neither as a holding nor as submitted
  (`dashboard/services/approval_service.py:111`), and the approval
  lock does not reach the scheduler's process.

*Stops*

* After a crash in the middle of a reduction the audit rejects the larger stop it finds
  each time and never amends it (`recovery.py:128`).
* A request is sent without comparing its level with the row again (`protection.py:226`):
  one written down before another worker's tightening and sent after it amends the
  broker's stop back down, while the row keeps the higher level. The docstring of
  `tighten_stop` leaves a lowering to the database, which sees only the row. Nothing
  repairs it: an audit asks for the position's own level, and a request below the row's
  is refused.
* After a crash between cancelling a stop and recording it, a later buy finds an open
  gate and no stop.
* A stop whose acceptance is lost is placed again (`protection.py:233`);
  `PaperProtectionBroker` forgets its stops at a restart (`protection.py:103`).

*Service and catalog*

* The release unlinks whatever file is there; a file that vanishes while it is read
  ends the start; a reused pid refuses it for ever.
* The block after a failed recovery is lifted by the first clear audit
  (`continuous_service.py:133`).
* A dashboard request that saves the catalog it loaded undoes a halt, loses a new
  strategy or brings a deleted one back; a database error while reading restores the
  table from the file. `normalize_ai_strategy` turns the statuses before approval into
  `approved`. A delete may race a cycle past the gate, and a loss booked between
  evaluation and gate lets one more entry through.
* All intents of a run are decided with the health report taken before the first
  (`continuous_service.py:167`, `orchestrator.py:164`): after one is rejected for a
  mismatch and that is recorded, a later one of the same run may still enter, for
  instance when a saved copy of the catalog has restored the profile in between.
* A failed evaluation whose text contains "mismatch", or an edit while the service has
  its old adapters, suspends the strategy for good.
* No production factory assembles `ContinuousStrategyService`.

*Scheduling*

* The strategy pages bypass the claim. A status request that found a run late reads the
  id of the run to end from the shared copy (`dashboard/services/scheduler_service.py:57`):
  if that run has completed and another was claimed in the meantime, it ends the other
  one's record within its limit; if it reads the copy while a refresh has emptied it, it
  ends the record without comparing at all. With two status requests the lock-free
  refresh of one can land between the locked refresh of the other and its comparison
  (`runtime_state.py:152`), with the same effect. A late visitor overwrites a newer claim.
  `WorkIsRecorded` is about behaviours without these (`trampled`). A run past its limit works on; an exception
  outside `SchedulerExecutionError` leaves the record until the limit.
* One of several strategies applied to the AI slot marks the row, and a failed sibling
  waits an interval. A mark lost in a crash means a second run at the next tick.
  Saving a row loaded earlier brings its old `last_run_at` back and undoes a concurrent
  disable. Where `flock` is missing the lock is a directory that survives a kill.
  `plunge-bounce-auto.sh` has a lock of its own, runs from the dashboard have none.
* `futures_signals/poll.py:36` calls a function it does not import.

*Trades*

* An import that races the save of a sent order makes two rows (`twice`); an imported
  partial row keeps the partial quantity as its quantity.
* Router buys store no quantity from before the order, so the fallback on the balance
  takes an addition for filled. The cancel route writes a fill count read earlier; a
  canceled row without fills counts in full in `_account_trades`.
* A sell row that failed makes every later cycle sell a holding bought again.

## 6. Plan

Done: `OrderState`, `ManagedOrders`, `OrderContract`, `ApprovalQueue`, `ApprovalContract`,
`HardStopProtection`, `ApprovalPipeline`, `SchedulerHost`, `TradeSync`, `AutonomyService`,
`ScheduleDispatch`, with the theorems of section 4.

Left, in this order:

1. `HardStopProtection` composed with `ManagedOrders`, in place of the free outcome of
   `ProtectOk` / `ProtectFails`.
2. The remaining dimensions of the risk envelope as a pure operator, checked against a
   reference definition.
3. Several positions of one account in `HardStopProtection` (owner totals).

## 7. Not modelled

* Numeric analysis (indicators, backtests, scoring, the seven-split rules), prompting
  of language models, market data clients, pages, notifications, the Android client:
  they keep no shared state whose interleavings matter, or are pure I/O.
* Mistock, the US paper trading: a loop of its own with tables nothing else reads. It
  has no claims or compare-and-sets that could be right or wrong: a cycle and the
  dashboard can approve the same row twice, and the balance a cycle compares with is
  read before pending approvals are executed (`mistock/scheduler.py:367`).
* Futures signals: a poll ends in a NameError before it reads one.
* Overlapping fetches of the caches, the condition monitor, snapshots of AI
  evaluations, the heartbeat file: they inform a reader and gate no order.
