--------------------------- MODULE AutonomyService ---------------------------
(***************************************************************************)
(* The process that runs autonomous strategies for ever, and what stops    *)
(* one of them.                                                            *)
(*                                                                         *)
(* A service process takes the lock file (ProcessLease), recovers and then *)
(* repeats cycles of one market: audit the hard stops, read a snapshot     *)
(* and, strategy by strategy, judge its health from the durable records,   *)
(* halt it in the catalog and run it: collect its intents, ask the         *)
(* lifecycle gate about each of them and place entries and exits.  One     *)
(* report of the health serves all intents of a run.  The catalog is       *)
(* shared with dashboard requests that write all of it back from what they *)
(* loaded, and a reader that meets a database error restores it from a     *)
(* file.                                                                   *)
(*                                                                         *)
(* One market, one position of a strategy at a time.  The orders after     *)
(* their creation are ManagedOrders and ApprovalPipeline, the stops        *)
(* HardStopProtection: here the environment fills and loses them.          *)
(***************************************************************************)
EXTENDS Naturals

CONSTANTS
  Processes,   \* service processes, by their pid: one that died stays dead
  Strategies,  \* the adapters of the market
  Clerks,      \* dashboard requests that load and save the whole catalog
  Verdicts,    \* the statuses they write
  OneStarter,  \* TRUE: no process starts while another one is starting
  MaxOutages,  \* stops and crashes of service processes that are modelled
  MaxFaults,   \* errors of the broker, the database and the adapters, and large losses
  MaxEdits,    \* edits and deletions by an operator
  MaxScan,     \* entries an adapter asks for in one run
  None

ASSUME ServiceAssumption ==
  /\ None \notin Processes \cup Strategies
  /\ None \notin [by : Processes, written : BOOLEAN]
  /\ Verdicts \subseteq {"approved", "review_required", "retired"}
  /\ OneStarter \in BOOLEAN
  /\ MaxOutages \in Nat /\ MaxFaults \in Nat /\ MaxEdits \in Nat
  /\ MaxScan \in Nat

VARIABLES
  file,      \* service.lock: None, or who created it and whether its pid is written
  pc,        \* where each process is
  work,      \* what each process remembers
  catalog,   \* ai_strategies: the status and the profile of each strategy
  backup,    \* the JSON copy of it
  loaded,    \* what each dashboard request has read of it
  position,  \* the position of each strategy, with its order
  due,       \* strategies whose adapter wants out of the position
  unknown,   \* strategies with an order of unknown outcome
  uncovered, \* strategies with a position its stop does not cover
  losing,    \* strategies past the drawdown limit, which no later profit undoes
  mismatch,  \* strategies with a decision rejected for a mismatch
  budget     \* outages, faults and edits left

vars == <<file, pc, work, catalog, backup, loaded, position, due, unknown,
          uncovered, losing, mismatch, budget>>

records == <<position, due, unknown, uncovered, losing, mismatch>>
lists   == <<catalog, backup, loaded>>

Starting == {"opening", "writing", "reading", "asking", "unlinking"}
InCycle  == {"snapping", "judging", "halting", "scanning", "deciding", "placing"}
Serving  == {"recovering", "auditing", "idle", "releasing"} \cup InCycle

Halted  == {"review_required", "suspended", "retired"}
Status  == {"approved", "missing"} \cup Halted
Profiles == 0 .. MaxEdits  \* strategy_version and profile_hash, as one value
Entry   == [status : Status, profile : Profiles]
Catalog == [Strategies -> Entry]
Missing == [status |-> "missing", profile |-> 0]

Files == {None} \cup [by : Processes, written : BOOLEAN]

Memory == [tries   : 0 .. 2,                      \* attempts at the lock file
           seen    : {None} \cup Processes,       \* the pid read from it
           built   : [Strategies -> Profiles],    \* the profiles its adapters were built with
           blocked : BOOLEAN,                     \* no new risk in the market
           left    : SUBSET Strategies,           \* still to do in this cycle
           on      : {None} \cup Strategies,      \* being done
           target  : {"none", "review_required", "suspended"},
           health  : {"fine", "halt", "mismatch"},
           entries : 0 .. MaxScan,                \* intents of the scan left
           held    : {"none", "hold", "exit"},    \* and that for its position
           fresh   : BOOLEAN]                     \* history: this run recorded the first mismatch

NoWork == [tries |-> 0, seen |-> None, built |-> [s \in Strategies |-> 0], blocked |-> FALSE,
           left |-> {}, on |-> None, target |-> "none", health |-> "fine",
           entries |-> 0, held |-> "none", fresh |-> FALSE]

Init ==
  /\ file = None
  /\ pc = [p \in Processes |-> "off"]
  /\ work = [p \in Processes |-> NoWork]
  /\ catalog = [s \in Strategies |-> [status |-> "approved", profile |-> 0]]
  /\ backup = catalog
  /\ loaded = [c \in Clerks |-> None]
  /\ position = [s \in Strategies |-> "none"]
  /\ due = {} /\ unknown = {} /\ uncovered = {} /\ losing = {} /\ mismatch = {}
  /\ budget = [outages |-> MaxOutages, faults |-> MaxFaults, edits |-> MaxEdits]

Spend(kind) == /\ budget[kind] > 0
               /\ budget' = [budget EXCEPT ![kind] = @ - 1]

Go(p, step) == pc' = [pc EXCEPT ![p] = step]
Note(p, memory) == work' = [work EXCEPT ![p] = memory]

\* A process that ends remembers nothing.
Quits(p, how) == Go(p, how) /\ Note(p, NoWork)

Active == {s \in Strategies : position[s] \in {"pending", "open", "exiting"}}

-----------------------------------------------------------------------------
(* ProcessLease *)

Start(p) ==
  /\ pc[p] = "off"
  /\ OneStarter => \A q \in Processes : pc[q] \notin Starting
  /\ Go(p, "opening")
  /\ UNCHANGED <<file, work, lists, records, budget>>

\* os.open with O_EXCL, at most twice
Open(p) ==
  /\ pc[p] = "opening"
  /\ \/ /\ work[p].tries = 2
        /\ Quits(p, "off")
        /\ UNCHANGED file
     \/ /\ work[p].tries < 2
        /\ file = None
        /\ file' = [by |-> p, written |-> FALSE]
        /\ Go(p, "writing")
        /\ UNCHANGED work
     \/ /\ work[p].tries < 2
        /\ file # None
        /\ Go(p, "reading")
        /\ UNCHANGED <<file, work>>
  /\ UNCHANGED <<lists, records, budget>>

\* The pid goes to the file that was opened, which may no longer be on the path.  Then the
\* factory builds the adapters from the catalog.
Write(p) ==
  /\ pc[p] = "writing"
  /\ file' = IF file # None /\ file.by = p THEN [file EXCEPT !.written = TRUE] ELSE file
  /\ Go(p, "recovering")
  /\ Note(p, [NoWork EXCEPT !.built = [s \in Strategies |-> catalog[s].profile]])
  /\ UNCHANGED <<lists, records, budget>>

\* A file that is gone raises, an empty one is taken for a stale one.
Read(p) ==
  /\ pc[p] = "reading"
  /\ \/ /\ file = None
        /\ Quits(p, "off")
     \/ /\ file # None
        /\ ~file.written
        /\ Go(p, "unlinking")
        /\ UNCHANGED work
     \/ /\ file # None
        /\ file.written
        /\ Go(p, "asking")
        /\ Note(p, [work[p] EXCEPT !.seen = file.by])
  /\ UNCHANGED <<file, lists, records, budget>>

AliveToItsUser(q) == FALSE  \* os.kill of another user's process raises

Alive(q) == pc[q] \notin {"off", "dead"}

Ask(p) ==
  /\ pc[p] = "asking"
  /\ IF Alive(work[p].seen) THEN Quits(p, "off")
     ELSE Go(p, "unlinking") /\ Note(p, [work[p] EXCEPT !.seen = None])
  /\ UNCHANGED <<file, lists, records, budget>>

Unlink(p) ==
  /\ pc[p] = "unlinking"
  /\ file' = None
  /\ Go(p, "opening")
  /\ Note(p, [work[p] EXCEPT !.tries = @ + 1])
  /\ UNCHANGED <<lists, records, budget>>

\* It removes what is on the path, whoever created it.
Release(p) ==
  /\ pc[p] = "releasing"
  /\ file' = None
  /\ Quits(p, "off")
  /\ UNCHANGED <<lists, records, budget>>

\* A signal, which the loop looks at between strategies and between cycles, or a
\* factory that raises.
Stop(p) ==
  /\ pc[p] \in {"recovering", "idle", "judging"}
  /\ Spend("outages")
  /\ Go(p, "releasing")
  /\ Note(p, NoWork)
  /\ UNCHANGED <<file, lists, records>>

Crash(p) ==
  /\ pc[p] \notin {"off", "dead"}
  /\ Spend("outages")
  /\ Quits(p, "dead")
  /\ UNCHANGED <<file, lists, records>>

-----------------------------------------------------------------------------
(* ContinuousStrategyService *)

\* startup_recovery: settle the open orders, then audit; either may fail
Reconcile(p) ==
  /\ pc[p] = "recovering"
  /\ \/ /\ unknown' \in SUBSET unknown
        /\ UNCHANGED <<work, budget>>
     \/ /\ Spend("faults")
        /\ Note(p, [work[p] EXCEPT !.blocked = TRUE])
        /\ UNCHANGED unknown
  /\ Go(p, "auditing")
  /\ UNCHANGED <<file, lists, position, due, uncovered, losing, mismatch>>

\* The audit places the stops that are missing; it blocks when one stays missing.
Audit(p, blocked, left) ==
  /\ \/ /\ uncovered' = {}
        /\ Note(p, [work[p] EXCEPT !.blocked = blocked, !.left = left])
        /\ UNCHANGED budget
     \/ /\ Spend("faults")
        /\ Note(p, [work[p] EXCEPT !.blocked = TRUE, !.left = left])
        /\ UNCHANGED uncovered
  /\ UNCHANGED <<file, lists, position, due, unknown, losing, mismatch>>

StartupAudit(p) == /\ pc[p] = "auditing"
                   /\ Audit(p, work[p].blocked, {})
                   /\ Go(p, "idle")

\* A clear audit lifts the block, the one of a failed startup too.
CycleAudit(p) == /\ pc[p] = "idle"
                 /\ Audit(p, FALSE, Strategies)
                 /\ Go(p, "snapping")

Snapshot(p) ==
  /\ pc[p] = "snapping"
  /\ \/ /\ Go(p, "judging")
        /\ UNCHANGED <<work, budget>>
     \/ /\ Spend("faults")
        /\ Note(p, [work[p] EXCEPT !.blocked = TRUE, !.left = {}])
        /\ Go(p, "idle")
  /\ UNCHANGED <<file, lists, records>>

CycleEnds(p) ==
  /\ pc[p] = "judging"
  /\ work[p].left = {}
  /\ Go(p, "idle")
  /\ UNCHANGED <<file, work, lists, records, budget>>

\* what evaluate_and_enforce reads: any order, position or decision ever recorded
Target(s) == IF s \in mismatch \cup unknown \cup uncovered THEN "suspended"
             ELSE IF s \in losing THEN "review_required" ELSE "none"

HealthOfCatalog(s) == "fine"  \* the gate is left with the status alone

\* the report the lifecycle gate is given
Health(s) == IF s \in mismatch THEN "mismatch"
             ELSE IF Target(s) # "none" THEN "halt" ELSE "fine"

\* An evaluation that raises counts as one mismatch.
Judge(p) ==
  /\ pc[p] = "judging"
  /\ \E s \in work[p].left :
       \/ /\ Note(p, [work[p] EXCEPT !.on = s, !.target = Target(s), !.health = Health(s)])
          /\ Go(p, IF Target(s) = "none" THEN "scanning" ELSE "halting")
          /\ UNCHANGED budget
       \/ /\ Spend("faults")
          /\ Note(p, [work[p] EXCEPT !.on = s, !.health = "mismatch"])
          /\ Go(p, "scanning")
  /\ UNCHANGED <<file, lists, records>>

Rank(status) == CASE status = "review_required" -> 1
                  [] status = "suspended"       -> 2
                  [] status = "retired"         -> 3
                  [] OTHER                      -> 0

Stronger(status, target) == IF Rank(status) >= Rank(target) THEN status ELSE target

\* halt_ai_strategy: one transaction; a strategy that is not there makes it raise
Halt(p) ==
  LET s == work[p].on IN
  /\ pc[p] = "halting"
  /\ \/ /\ catalog[s].status # "missing"
        /\ catalog' = [catalog EXCEPT ![s].status = Stronger(@, work[p].target)]
        /\ Note(p, [work[p] EXCEPT !.target = "none"])
     \/ /\ catalog[s].status = "missing"
        /\ Note(p, [work[p] EXCEPT !.target = "none", !.health = "mismatch"])
        /\ UNCHANGED catalog
  /\ Go(p, "scanning")
  /\ UNCHANGED <<file, backup, loaded, records, budget>>

DoneWith(p) == Note(p, [work[p] EXCEPT !.left = @ \ {work[p].on}, !.on = None, !.target = "none",
                                       !.health = "fine", !.entries = 0, !.held = "none",
                                       !.fresh = FALSE])

\* run_cycle: scan() asks for entries, a scan that raises for none; manage_position() is
\* asked about the position there is, and one that raises is left out
Scan(p) ==
  LET s    == work[p].on
      held == IF s \notin Active THEN "none" ELSE IF s \in due THEN "exit" ELSE "hold" IN
  /\ pc[p] = "scanning"
  /\ \E entries \in 0 .. MaxScan :
       \/ /\ Note(p, [work[p] EXCEPT !.entries = entries, !.held = held])
          /\ UNCHANGED budget
       \/ /\ held # "none"
          /\ Spend("faults")
          /\ Note(p, [work[p] EXCEPT !.entries = entries])
  /\ Go(p, "deciding")
  /\ UNCHANGED <<file, lists, records>>

\* load_ai_strategies: a database error restores the catalog from the file
LoadCatalog ==
  \/ UNCHANGED <<catalog, budget>>
  \/ /\ Spend("faults")
     /\ catalog' = backup

\* the intent whose turn it is, the entries before the position's
Pending(m) == IF m.entries > 0 THEN "enter" ELSE m.held

Without(m) == IF m.entries > 0 THEN [m EXCEPT !.entries = @ - 1] ELSE [m EXCEPT !.held = "none"]

Drifted(p, entry) == entry.profile # work[p].built[work[p].on]

GateAllowsHealthy(p, entry, act) == /\ entry.status = "approved"
                                    /\ ~Drifted(p, entry)
                                    /\ work[p].health = "fine"

\* StrategyLifecycleGate.evaluate: a halt stops new risk, never a reduction
GateAllows(p, entry, act) == \/ act = "exit"
                             \/ /\ entry.status = "approved"
                                /\ ~Drifted(p, entry)
                                /\ work[p].health = "fine"

\* the strategy, if the reasons of a rejection by the gate say mismatch
Mismatched(p, entry) ==
  {s \in {work[p].on} : /\ entry.status # "missing"
                        /\ Drifted(p, entry) \/ work[p].health = "mismatch"}

\* A rejected decision is saved under the strategy its intent names, and the run goes on.
Reject(p, named) ==
  LET m == Without(work[p]) IN
  /\ mismatch' = mismatch \cup named
  /\ Note(p, [m EXCEPT !.fresh = @ \/ work[p].on \in named \ mismatch])
  /\ Go(p, "deciding")

\* The gate reads the catalog again for every intent, for holding a position too.
Decide(p) ==
  LET s   == work[p].on
      act == Pending(work[p]) IN
  /\ pc[p] = "deciding"
  /\ act # "none"
  /\ LoadCatalog
  /\ \/ /\ GateAllows(p, catalog'[s], act)
        /\ act # "hold"
        /\ Go(p, "placing")
        /\ UNCHANGED <<work, mismatch>>
     \/ /\ GateAllows(p, catalog'[s], act)
        /\ act = "hold"
        /\ Note(p, Without(work[p]))
        /\ UNCHANGED <<pc, mismatch>>
     \/ /\ ~GateAllows(p, catalog'[s], act)
        /\ Reject(p, Mismatched(p, catalog'[s]))
  /\ UNCHANGED <<file, backup, loaded, position, due, unknown, uncovered, losing>>

\* an adapter's error: an intent that names another market passes the gate first, one that
\* names another strategy is a mismatch of that one
Misfit(p) ==
  /\ pc[p] = "deciding"
  /\ Pending(work[p]) # "none"
  /\ Spend("faults")
  /\ \E s \in Strategies :
       /\ s = work[p].on => GateAllows(p, catalog[s], Pending(work[p]))
       /\ Reject(p, {s})
  /\ UNCHANGED <<file, lists, position, due, unknown, uncovered, losing>>

\* The risk check denies new risk in a blocked market and lets risk go down.
Place(p) ==
  LET s   == work[p].on
      act == Pending(work[p]) IN
  /\ pc[p] = "placing"
  /\ position' = IF act = "exit" THEN [position EXCEPT ![s] = "exiting"]
                 ELSE IF act = "enter" /\ ~work[p].blocked /\ s \notin Active
                   THEN [position EXCEPT ![s] = "pending"] ELSE position
  /\ due' = IF act = "exit" THEN due \ {s} ELSE due
  /\ Note(p, Without(work[p]))
  /\ Go(p, "deciding")
  /\ UNCHANGED <<file, lists, unknown, uncovered, losing, mismatch, budget>>

\* no intent is left, or the database fails and the rest of the run with it
RunEnds(p) ==
  /\ \/ /\ pc[p] = "deciding"
        /\ Pending(work[p]) = "none"
        /\ UNCHANGED budget
     \/ /\ pc[p] \in {"scanning", "deciding", "placing"}
        /\ Spend("faults")
  /\ DoneWith(p)
  /\ Go(p, "judging")
  /\ UNCHANGED <<file, lists, records>>

ServiceStep(p) ==
  \/ Open(p) \/ Write(p) \/ Read(p) \/ Ask(p) \/ Unlink(p) \/ Release(p)
  \/ Reconcile(p) \/ StartupAudit(p) \/ CycleAudit(p) \/ Snapshot(p) \/ CycleEnds(p)
  \/ Judge(p) \/ Halt(p) \/ Scan(p) \/ Decide(p) \/ Misfit(p) \/ Place(p) \/ RunEnds(p)

-----------------------------------------------------------------------------
(* The dashboard's writers of the catalog *)

ClerkLoads(c) ==
  /\ loaded[c] = None
  /\ LoadCatalog
  /\ loaded' = [loaded EXCEPT ![c] = catalog']
  /\ UNCHANGED <<file, pc, work, backup, records>>

\* verify, paper, approve, retire, review, select, a candidate scan: delete all the rows and
\* insert what was loaded, profiles too, with one strategy's status changed or not
ClerkSaves(c) ==
  /\ loaded[c] # None
  /\ \E s \in Strategies :
       /\ loaded[c][s].status # "missing"
       /\ \E new \in {loaded[c][s].status} \cup Verdicts :
            catalog' = [loaded[c] EXCEPT ![s].status = new]
  /\ backup' = catalog'
  /\ loaded' = [loaded EXCEPT ![c] = None]
  /\ UNCHANGED <<file, pc, work, records, budget>>

\* update_ai_strategy_record: approved again, under another version
Edit(s) ==
  /\ catalog[s].status # "missing"
  /\ Spend("edits")
  /\ \E profile \in Profiles \ {catalog[s].profile} :
       catalog' = [catalog EXCEPT ![s] = [status |-> "approved", profile |-> profile]]
  /\ backup' = catalog'
  /\ UNCHANGED <<file, pc, work, loaded, records>>

Delete(s) ==
  /\ catalog[s].status # "missing"
  /\ s \notin Active
  /\ Spend("edits")
  /\ catalog' = [catalog EXCEPT ![s] = Missing]
  /\ backup' = catalog'
  /\ UNCHANGED <<file, pc, work, loaded, records>>

\* an operator creates again what was deleted, with the same profile or another
Create(s) ==
  /\ catalog[s].status = "missing"
  /\ \E profile \in Profiles :
       catalog' = [catalog EXCEPT ![s] = [status |-> "approved", profile |-> profile]]
  /\ backup' = catalog'
  /\ UNCHANGED <<file, pc, work, loaded, records, budget>>

-----------------------------------------------------------------------------
(* What happens to the orders and the positions *)

\* an entry fills; its stop may be missing, and the position may be wanted out
EntryFills(s) ==
  /\ position[s] = "pending"
  /\ position' = [position EXCEPT ![s] = "open"]
  /\ unknown' = unknown \ {s}
  /\ \/ UNCHANGED <<uncovered, budget>>
     \/ Spend("faults") /\ uncovered' = uncovered \cup {s}
  /\ UNCHANGED <<file, pc, work, lists, due, losing, mismatch>>

EntryEndsUnsettled(s) ==
  /\ position[s] = "pending"
  /\ position' = [position EXCEPT ![s] = "none"]
  /\ UNCHANGED <<file, pc, work, lists, due, unknown, uncovered, losing, mismatch, budget>>

EntryEnds(s) ==
  /\ position[s] = "pending"
  /\ position' = [position EXCEPT ![s] = "none"]
  /\ unknown' = unknown \ {s}
  /\ UNCHANGED <<file, pc, work, lists, due, uncovered, losing, mismatch, budget>>

AnswerLost(s) ==
  /\ position[s] \in {"pending", "exiting"}
  /\ Spend("faults")
  /\ unknown' = unknown \cup {s}
  /\ UNCHANGED <<file, pc, work, lists, position, due, uncovered, losing, mismatch>>

WantsOut(s) ==
  /\ position[s] = "open"
  /\ due' = due \cup {s}
  /\ UNCHANGED <<file, pc, work, lists, position, unknown, uncovered, losing, mismatch, budget>>

\* the exit fills, with a loss that may pass the limit
ExitFills(s) ==
  /\ position[s] = "exiting"
  /\ position' = [position EXCEPT ![s] = "none"]
  /\ unknown' = unknown \ {s}
  /\ uncovered' = uncovered \ {s}
  /\ \/ UNCHANGED <<losing, budget>>
     \/ Spend("faults") /\ losing' = losing \cup {s}
  /\ UNCHANGED <<file, pc, work, lists, due, mismatch>>

-----------------------------------------------------------------------------
Next ==
  \/ \E p \in Processes : Start(p) \/ ServiceStep(p) \/ Stop(p) \/ Crash(p)
  \/ \E c \in Clerks : ClerkLoads(c) \/ ClerkSaves(c)
  \/ \E s \in Strategies :
       \/ Edit(s) \/ Delete(s) \/ Create(s)
       \/ EntryFills(s) \/ EntryEnds(s) \/ AnswerLost(s) \/ WantsOut(s) \/ ExitFills(s)

Spec == Init /\ [][Next]_vars

\* The threads run; systemd starts the service again (Restart=on-failure), or an
\* operator after a stop.
FairSpec == /\ Spec
            /\ \A p \in Processes : WF_vars(Start(p)) /\ WF_vars(ServiceStep(p))

-----------------------------------------------------------------------------
(* Properties *)

\* Every variable has a value of its kind; only a service that works on a strategy
\* remembers one (the locals of run_market_once).
TypeOK ==
  /\ file \in Files
  /\ pc \in [Processes -> {"off", "dead"} \cup Starting \cup Serving]
  /\ work \in [Processes -> Memory]
  /\ catalog \in Catalog /\ backup \in Catalog
  /\ loaded \in [Clerks -> {None} \cup Catalog]
  /\ position \in [Strategies -> {"none", "pending", "open", "exiting"}]
  /\ due \subseteq {s \in Strategies : position[s] = "open"}
  /\ unknown \subseteq Active
  /\ uncovered \subseteq {s \in Strategies : position[s] \in {"open", "exiting"}}
  /\ losing \subseteq Strategies /\ mismatch \subseteq Strategies
  /\ budget \in [{"outages", "faults", "edits"} -> Nat]

\* Two processes never run the service at once, whatever stops, crashes and refused
\* starts came before (ProcessLease.acquire and release), if starts do not overlap.
OneService == \A p, q \in Processes : pc[p] \in Serving /\ pc[q] \in Serving => p = q

\* A live owner's lease stays (the docstring of ProcessLease).
LeaseIsKept ==
  [][\A p \in Processes :
       /\ pc[p] \in Serving /\ pc'[p] \in Serving
       /\ file # None /\ file.by = p
       => file' = file]_vars

\* A strategy with a decision rejected for a mismatch on record enters nothing, except by a
\* later intent of the very run that recorded the first one, whose health was judged before
\* (run_market_once and run_cycle; StrategyHealthService with max_state_mismatches = 0).
\* Dashboard requests, edits, a restored backup, a restart and failed evaluations do not
\* let it back in.
MismatchOutlastsItsRun ==
  [][\A s \in mismatch :
       position[s] # "pending" /\ position'[s] = "pending"
       => \E p \in Processes : work[p].on = s /\ work[p].fresh]_vars

\* A position its strategy wants out of gets its exit order: a halt, a deleted or
\* edited strategy, a blocked market or a service that died do not keep it
\* (StrategyLifecycleGate.evaluate, run_market_once, ProcessLease.acquire).
ExitIsSent == \A s \in Strategies : s \in due ~> s \notin due
=============================================================================
