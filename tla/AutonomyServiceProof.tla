------------------------ MODULE AutonomyServiceProof ------------------------
(***************************************************************************)
(* Proofs about AutonomyService, for any number of processes, strategies   *)
(* and dashboard requests: its type invariant and, when starts do not      *)
(* overlap, that at most one process runs the service and that a strategy  *)
(* with a recorded mismatch enters nothing after the run that recorded it. *)
(***************************************************************************)
EXTENDS AutonomyService, TLAPS

Steps == {"off", "dead"} \cup Starting \cup Serving
Kinds == {"outages", "faults", "edits"}
Phases == {"none", "pending", "open", "exiting"}

LEMMA StepLiterals ==
  /\ {"off", "dead"} \subseteq Steps
  /\ {"opening", "writing", "reading", "asking", "unlinking"} \subseteq Steps
  /\ {"recovering", "auditing", "idle", "releasing"} \subseteq Steps
  /\ {"snapping", "judging", "halting", "scanning", "deciding", "placing"} \subseteq Steps
  BY DEF Steps, Starting, Serving, InCycle

LEMMA FirstProfile == 0 \in Profiles
  BY ServiceAssumption DEF Profiles

LEMMA NoWorkTyped == NoWork \in Memory
  <1>1. 0 \in 0 .. MaxScan BY ServiceAssumption
  <1> QED BY <1>1, FirstProfile DEF NoWork, Memory

LEMMA GoTyped ==
  ASSUME pc \in [Processes -> Steps], NEW p \in Processes, NEW step \in Steps, Go(p, step)
  PROVE  pc' \in [Processes -> Steps]
  BY DEF Go

LEMMA NoteTyped ==
  ASSUME work \in [Processes -> Memory], NEW p \in Processes, NEW m \in Memory, Note(p, m)
  PROVE  work' \in [Processes -> Memory]
  BY DEF Note

LEMMA QuitsTyped ==
  ASSUME pc \in [Processes -> Steps], work \in [Processes -> Memory],
         NEW p \in Processes, NEW how \in Steps, Quits(p, how)
  PROVE  pc' \in [Processes -> Steps] /\ work' \in [Processes -> Memory]
  BY GoTyped, NoteTyped, NoWorkTyped DEF Quits

LEMMA SpendTyped ==
  ASSUME budget \in [Kinds -> Nat], NEW kind \in Kinds, Spend(kind)
  PROVE  budget' \in [Kinds -> Nat]
  BY DEF Spend

LEMMA DoneTyped ==
  ASSUME work \in [Processes -> Memory], NEW p \in Processes, DoneWith(p)
  PROVE  work' \in [Processes -> Memory]
  <1> DEFINE left == work[p].left \ {work[p].on}
             done == [work[p] EXCEPT !.left = left, !.on = None, !.target = "none",
                                     !.health = "fine", !.entries = 0, !.held = "none",
                                     !.fresh = FALSE]
  <1>1. work[p] \in Memory OBVIOUS
  <1>2. left \in SUBSET Strategies BY <1>1 DEF Memory
  <1>0. 0 \in 0 .. MaxScan BY ServiceAssumption
  <1>3. done \in Memory BY <1>0, <1>1, <1>2 DEF Memory
  <1>4. Note(p, done) BY DEF DoneWith
  <1> QED BY <1>3, <1>4, NoteTyped

LEMMA LoadTyped ==
  ASSUME catalog \in Catalog, backup \in Catalog, budget \in [Kinds -> Nat], LoadCatalog
  PROVE  catalog' \in Catalog /\ budget' \in [Kinds -> Nat]
  BY SpendTyped DEF LoadCatalog, Kinds

LEMMA WithoutTyped ==
  ASSUME NEW m \in Memory
  PROVE  /\ Without(m) \in Memory
         /\ Without(m).on = m.on /\ Without(m).health = m.health
         /\ Without(m).fresh = m.fresh
  <1>1. CASE m.entries > 0
    <2>1. m.entries - 1 \in 0 .. MaxScan BY <1>1, ServiceAssumption DEF Memory
    <2> QED BY <1>1, <2>1 DEF Without, Memory
  <1>2. CASE ~(m.entries > 0) BY <1>2 DEF Without, Memory
  <1> QED BY <1>1, <1>2

LEMMA CatalogWrite ==
  ASSUME NEW c \in Catalog, NEW s \in Strategies, NEW status \in Status
  PROVE  /\ [c EXCEPT ![s].status = status] \in Catalog
         /\ \A profile \in Profiles :
              [c EXCEPT ![s] = [status |-> status, profile |-> profile]] \in Catalog
  <1>1. c[s] \in Entry BY DEF Catalog
  <1>2. [c[s] EXCEPT !.status = status] \in Entry BY <1>1 DEF Entry
  <1>3. \A profile \in Profiles : [status |-> status, profile |-> profile] \in Entry
    BY DEF Entry
  <1> QED BY <1>2, <1>3 DEF Catalog

-----------------------------------------------------------------------------
(* The type invariant, in the parts that change together.                  *)

Control == /\ file \in Files
           /\ pc \in [Processes -> Steps]
           /\ work \in [Processes -> Memory]
           /\ budget \in [Kinds -> Nat]

Lists == /\ catalog \in Catalog /\ backup \in Catalog
         /\ loaded \in [Clerks -> {None} \cup Catalog]

Records == /\ position \in [Strategies -> Phases]
           /\ due \subseteq {s \in Strategies : position[s] = "open"}
           /\ unknown \subseteq Active
           /\ uncovered \subseteq {s \in Strategies : position[s] \in {"open", "exiting"}}
           /\ losing \subseteq Strategies /\ mismatch \subseteq Strategies

LEMMA TypeParts == TypeOK <=> Control /\ Lists /\ Records
  BY DEF TypeOK, Control, Lists, Records, Steps, Kinds, Phases

\* What the type of one process's memory does not say: a starting process has an
\* attempt left, and one that works on a strategy remembers it.
Working == {"halting", "scanning", "deciding", "placing"}

Remembers == \A p \in Processes :
  /\ pc[p] \in {"reading", "asking", "unlinking"} => work[p].tries < 2
  /\ pc[p] \in Working => work[p].on \in Strategies

Typed == Control /\ Lists /\ Records /\ Remembers

LEMMA SameLists == Lists /\ UNCHANGED lists => Lists'
  BY DEF Lists, lists

LEMMA SameRecords == Records /\ UNCHANGED records => Records'
  BY DEF Records, records, Active

LEMMA InitTyped == Init => Typed
  <1> SUFFICES ASSUME Init PROVE Typed OBVIOUS
  <1>1. Control BY NoWorkTyped, StepLiterals, ServiceAssumption DEF Init, Control, Files, Kinds
  <1>2. Lists BY FirstProfile DEF Init, Lists, Catalog, Entry, Status
  <1>3. Records BY DEF Init, Records, Phases, Active
  <1>4. Remembers BY DEF Init, Remembers, Working
  <1> QED BY <1>1, <1>2, <1>3, <1>4 DEF Typed

\* The steps of the lease, a stop and a crash write the lock file and the process only.
LEMMA LeaseTyped ==
  ASSUME Typed, NEW p \in Processes,
         \/ Start(p) \/ Open(p) \/ Write(p) \/ Read(p) \/ Ask(p) \/ Unlink(p)
         \/ Release(p) \/ Stop(p) \/ Crash(p)
  PROVE  Typed'
  <1> Control /\ Lists /\ Records /\ Remembers BY DEF Typed
  <1> USE DEF Control
  <1>1. UNCHANGED <<lists, records>>
    BY DEF Start, Open, Write, Read, Ask, Unlink, Release, Stop, Crash
  <1>2. Control'
    <2>1. CASE Start(p) BY <2>1, GoTyped, StepLiterals DEF Start
    <2>2. CASE Open(p)
      <3>1. CASE Quits(p, "off") /\ UNCHANGED <<file, budget>>
        BY <3>1, QuitsTyped, StepLiterals
      <3>2. CASE /\ file' = [by |-> p, written |-> FALSE]
                 /\ Go(p, "writing") /\ UNCHANGED <<work, budget>>
        BY <3>2, GoTyped, StepLiterals DEF Files
      <3>3. CASE Go(p, "reading") /\ UNCHANGED <<file, work, budget>>
        BY <3>3, GoTyped, StepLiterals
      <3> QED BY <2>2, <3>1, <3>2, <3>3 DEF Open
    <2>3. CASE Write(p)
      <3> DEFINE built == [s \in Strategies |-> catalog[s].profile]
      <3>1. file' \in Files BY <2>3 DEF Write, Files
      <3>2. built \in [Strategies -> Profiles] BY DEF Lists, Catalog, Entry
      <3>3. [NoWork EXCEPT !.built = built] \in Memory BY <3>2, NoWorkTyped DEF Memory
      <3>4. Go(p, "recovering") /\ Note(p, [NoWork EXCEPT !.built = built]) /\ UNCHANGED budget
        BY <2>3 DEF Write
      <3> QED BY <3>1, <3>3, <3>4, GoTyped, NoteTyped, StepLiterals
    <2>4. CASE Read(p)
      <3>1. CASE Quits(p, "off") /\ UNCHANGED <<file, budget>>
        BY <3>1, QuitsTyped, StepLiterals
      <3>2. CASE Go(p, "unlinking") /\ UNCHANGED <<file, work, budget>>
        BY <3>2, GoTyped, StepLiterals
      <3>3. CASE /\ file # None
                 /\ Go(p, "asking") /\ Note(p, [work[p] EXCEPT !.seen = file.by])
                 /\ UNCHANGED <<file, budget>>
        <4>1. [work[p] EXCEPT !.seen = file.by] \in Memory BY <3>3 DEF Memory, Files
        <4> QED BY <3>3, <4>1, GoTyped, NoteTyped, StepLiterals
      <3> QED BY <2>4, <3>1, <3>2, <3>3 DEF Read
    <2>5. CASE Ask(p)
      <3>1. CASE Quits(p, "off") /\ UNCHANGED <<file, budget>>
        BY <3>1, QuitsTyped, StepLiterals
      <3>2. CASE Go(p, "unlinking") /\ Note(p, [work[p] EXCEPT !.seen = None])
                 /\ UNCHANGED <<file, budget>>
        <4>1. [work[p] EXCEPT !.seen = None] \in Memory BY DEF Memory
        <4> QED BY <3>2, <4>1, GoTyped, NoteTyped, StepLiterals
      <3> QED BY <2>5, <3>1, <3>2 DEF Ask
    <2>6. CASE Unlink(p)
      <3>1. work[p].tries + 1 \in 0 .. 2
        BY <2>6 DEF Unlink, Remembers, Memory
      <3>2. [work[p] EXCEPT !.tries = @ + 1] \in Memory BY <3>1 DEF Memory
      <3> QED BY <2>6, <3>2, GoTyped, NoteTyped, StepLiterals DEF Unlink, Files
    <2>7. CASE Release(p)
      BY <2>7, QuitsTyped, StepLiterals DEF Release, Files
    <2>8. CASE Stop(p)
      BY <2>8, GoTyped, NoteTyped, NoWorkTyped, SpendTyped, StepLiterals DEF Stop, Kinds
    <2>9. CASE Crash(p)
      BY <2>9, QuitsTyped, SpendTyped, StepLiterals DEF Crash, Kinds
    <2> QED BY <2>1, <2>2, <2>3, <2>4, <2>5, <2>6, <2>7, <2>8, <2>9
  <1>3. Remembers'
    <2> SUFFICES ASSUME NEW q \in Processes
                 PROVE  /\ pc'[q] \in {"reading", "asking", "unlinking"} => work'[q].tries < 2
                        /\ pc'[q] \in Working => work'[q].on \in Strategies
      BY DEF Remembers
    <2>1. CASE q # p
      <3>1. pc'[q] = pc[q] /\ work'[q] = work[q]
        BY <2>1 DEF Start, Open, Write, Read, Ask, Unlink, Release, Stop, Crash, Go, Note,
                    Quits
      <3> QED BY <3>1 DEF Remembers
    <2>2. CASE q = p
      <3>1. pc'[p] \notin Working
        BY DEF Working, Start, Open, Write, Read, Ask, Unlink, Release, Stop, Crash, Go, Quits
      <3>2. pc'[p] \in {"reading", "asking", "unlinking"} => work'[p].tries < 2
        <4>1. CASE Open(p) BY <4>1 DEF Open, Go, Quits
        <4>2. CASE Read(p)
          BY <4>2 DEF Read, Go, Note, Quits, Remembers, Memory
        <4>3. CASE Ask(p)
          BY <4>3 DEF Ask, Go, Note, Quits, Remembers, Memory
        <4>4. CASE Start(p) \/ Write(p) \/ Unlink(p) \/ Release(p) \/ Stop(p) \/ Crash(p)
          BY <4>4 DEF Start, Write, Unlink, Release, Stop, Crash, Go, Quits
        <4> QED BY <4>1, <4>2, <4>3, <4>4
      <3> QED BY <2>2, <3>1, <3>2
    <2> QED BY <2>1, <2>2
  <1>4. Lists' BY <1>1, SameLists
  <1>5. Records' BY <1>1, SameRecords
  <1> QED BY <1>2, <1>3, <1>4, <1>5 DEF Typed

\* A step of one process leaves what the others remember alone.
LEMMA OthersRemember ==
  ASSUME Typed, NEW p \in Processes,
         \A q \in Processes \ {p} : pc'[q] = pc[q] /\ work'[q] = work[q],
         pc'[p] \notin {"reading", "asking", "unlinking"},
         pc'[p] \in Working => work'[p].on \in Strategies
  PROVE  Remembers'
  BY DEF Typed, Remembers

LEMMA RecoveryTyped ==
  ASSUME Typed, NEW p \in Processes,
         Reconcile(p) \/ StartupAudit(p) \/ CycleAudit(p) \/ Snapshot(p) \/ CycleEnds(p)
  PROVE  Typed'
  <1> Control /\ Lists /\ Records BY DEF Typed
  <1>0. work[p] \in Memory BY DEF Control
  <1>1. UNCHANGED <<file, lists>>
    BY DEF Reconcile, StartupAudit, CycleAudit, Audit, Snapshot, CycleEnds
  <1>2. Control'
    <2> USE <1>1 DEF Control
    <2> "faults" \in Kinds BY DEF Kinds
    <2>1. CASE Reconcile(p)
      <3>1. [work[p] EXCEPT !.blocked = TRUE] \in Memory BY <1>0 DEF Memory
      <3> QED BY <2>1, <3>1, GoTyped, NoteTyped, SpendTyped, StepLiterals DEF Reconcile
    <2>2. ASSUME NEW blocked \in BOOLEAN, NEW left \in SUBSET Strategies,
                 Audit(p, blocked, left)
          PROVE  work' \in [Processes -> Memory] /\ budget' \in [Kinds -> Nat]
      <3>1. [work[p] EXCEPT !.blocked = blocked, !.left = left] \in Memory
        BY <1>0 DEF Memory
      <3>2. [work[p] EXCEPT !.blocked = TRUE, !.left = left] \in Memory BY <1>0 DEF Memory
      <3> QED BY <2>2, <3>1, <3>2, NoteTyped, SpendTyped DEF Audit
    <2>3. CASE StartupAudit(p)
      <3>1. work[p].blocked \in BOOLEAN BY <1>0 DEF Memory
      <3>2. Audit(p, work[p].blocked, {}) BY <2>3 DEF StartupAudit
      <3> QED BY <2>2, <2>3, <3>1, <3>2, GoTyped, StepLiterals DEF StartupAudit
    <2>4. CASE CycleAudit(p)
      <3>1. Audit(p, FALSE, Strategies) BY <2>4 DEF CycleAudit
      <3> QED BY <2>2, <2>4, <3>1, GoTyped, StepLiterals DEF CycleAudit
    <2>5. CASE Snapshot(p)
      <3>1. [work[p] EXCEPT !.blocked = TRUE, !.left = {}] \in Memory BY <1>0 DEF Memory
      <3> QED BY <2>5, <3>1, GoTyped, NoteTyped, SpendTyped, StepLiterals DEF Snapshot
    <2>6. CASE CycleEnds(p) BY <2>6, GoTyped, StepLiterals DEF CycleEnds
    <2> QED BY <2>1, <2>3, <2>4, <2>5, <2>6
  <1>3. Records'
    <2>1. CASE Reconcile(p) BY <2>1 DEF Reconcile, Records, Active
    <2>2. CASE StartupAudit(p) BY <2>2 DEF StartupAudit, Audit, Records, Active
    <2>3. CASE CycleAudit(p) BY <2>3 DEF CycleAudit, Audit, Records, Active
    <2>4. CASE Snapshot(p) \/ CycleEnds(p) BY <2>4, SameRecords DEF Snapshot, CycleEnds
    <2> QED BY <2>1, <2>2, <2>3, <2>4
  <1>4. Remembers'
    <2>1. \A q \in Processes \ {p} : pc'[q] = pc[q] /\ work'[q] = work[q]
      BY DEF Reconcile, StartupAudit, CycleAudit, Audit, Snapshot, CycleEnds, Go, Note, Control
    <2>2. pc'[p] \in {"auditing", "idle", "snapping", "judging"}
      BY DEF Reconcile, StartupAudit, CycleAudit, Snapshot, CycleEnds, Go, Control
    <2> QED BY <2>1, <2>2, OthersRemember DEF Working
  <1>5. Lists' BY <1>1, SameLists
  <1> QED BY <1>2, <1>3, <1>4, <1>5 DEF Typed

LEMMA JudgeTyped ==
  ASSUME Typed, NEW p \in Processes, Judge(p)
  PROVE  Typed'
  <1> Control /\ Lists /\ Records BY DEF Typed
  <1>0. work[p] \in Memory BY DEF Control
  <1>1. PICK s \in work[p].left :
          \/ /\ Note(p, [work[p] EXCEPT !.on = s, !.target = Target(s), !.health = Health(s)])
             /\ Go(p, IF Target(s) = "none" THEN "scanning" ELSE "halting")
             /\ UNCHANGED budget
          \/ /\ Spend("faults")
             /\ Note(p, [work[p] EXCEPT !.on = s, !.health = "mismatch"])
             /\ Go(p, "scanning")
    BY DEF Judge
  <1>2. s \in Strategies BY <1>0 DEF Memory
  <1>3. [work[p] EXCEPT !.on = s, !.target = Target(s), !.health = Health(s)] \in Memory
    BY <1>0, <1>2 DEF Memory, Target, Health
  <1>4. [work[p] EXCEPT !.on = s, !.health = "mismatch"] \in Memory
    BY <1>0, <1>2 DEF Memory
  <1>5. Control'
    <2> USE DEF Control, Kinds
    <2>1. file' \in Files BY DEF Judge
    <2>2. pc' \in [Processes -> Steps] BY <1>1, GoTyped, StepLiterals
    <2>3. work' \in [Processes -> Memory] BY <1>1, <1>3, <1>4, NoteTyped
    <2>4. budget' \in [Kinds -> Nat] BY <1>1, SpendTyped
    <2> QED BY <2>1, <2>2, <2>3, <2>4
  <1>6. Remembers'
    <2>1. \A q \in Processes \ {p} : pc'[q] = pc[q] /\ work'[q] = work[q]
      BY <1>1 DEF Go, Note, Control
    <2>2. pc'[p] \in {"scanning", "halting"} BY <1>1 DEF Go, Control
    <2>3. /\ [work[p] EXCEPT !.on = s, !.target = Target(s), !.health = Health(s)].on = s
          /\ [work[p] EXCEPT !.on = s, !.health = "mismatch"].on = s
      BY <1>0 DEF Memory
    <2>4. \/ work'[p] = [work[p] EXCEPT !.on = s, !.target = Target(s), !.health = Health(s)]
          \/ work'[p] = [work[p] EXCEPT !.on = s, !.health = "mismatch"]
      BY <1>1 DEF Note, Control
    <2> QED BY <1>2, <2>1, <2>2, <2>3, <2>4, OthersRemember
  <1> QED BY <1>5, <1>6, SameLists, SameRecords DEF Judge, Typed

LEMMA HaltTyped ==
  ASSUME Typed, NEW p \in Processes, Halt(p)
  PROVE  Typed'
  <1> Control /\ Lists /\ Records BY DEF Typed
  <1> DEFINE s == work[p].on
  <1>0. work[p] \in Memory BY DEF Control
  <1>1. s \in Strategies BY DEF Halt, Typed, Remembers, Working
  <1>2. Lists'
    <2>1. catalog[s].status \in Status BY <1>1 DEF Lists, Catalog, Entry
    <2>2. work[p].target # "none" => work[p].target \in Status
      BY <1>0 DEF Memory, Status, Halted
    <2>3. Stronger(catalog[s].status, work[p].target) \in Status
      BY <2>1, <2>2 DEF Stronger, Rank, Status, Halted
    <2>4. [catalog EXCEPT ![s].status = Stronger(@, work[p].target)] \in Catalog
      BY <1>1, <2>3, CatalogWrite DEF Lists
    <2> QED BY <2>4 DEF Halt, Lists
  <1>3. Control'
    <2> USE DEF Control
    <2>1. [work[p] EXCEPT !.target = "none"] \in Memory BY <1>0 DEF Memory
    <2>2. [work[p] EXCEPT !.target = "none", !.health = "mismatch"] \in Memory
      BY <1>0 DEF Memory
    <2> QED BY <2>1, <2>2, GoTyped, NoteTyped, StepLiterals DEF Halt
  <1>4. Remembers'
    <2>1. \A q \in Processes \ {p} : pc'[q] = pc[q] /\ work'[q] = work[q]
      BY DEF Halt, Go, Note, Control
    <2>2. pc'[p] = "scanning" BY DEF Halt, Go, Control
    <2>3. /\ [work[p] EXCEPT !.target = "none"].on = s
          /\ [work[p] EXCEPT !.target = "none", !.health = "mismatch"].on = s
      BY <1>0 DEF Memory
    <2>4. \/ work'[p] = [work[p] EXCEPT !.target = "none"]
          \/ work'[p] = [work[p] EXCEPT !.target = "none", !.health = "mismatch"]
      BY DEF Halt, Note, Control
    <2> QED BY <1>1, <2>1, <2>2, <2>3, <2>4, OthersRemember
  <1> QED BY <1>2, <1>3, <1>4, SameRecords DEF Halt, Typed

LEMMA ScanTyped ==
  ASSUME Typed, NEW p \in Processes, Scan(p)
  PROVE  Typed'
  <1> Control /\ Lists /\ Records BY DEF Typed
  <1>0. work[p] \in Memory BY DEF Control
  <1>1. PICK entries \in 0 .. MaxScan, held \in {work[p].held, "none", "hold", "exit"} :
          Note(p, [work[p] EXCEPT !.entries = entries, !.held = held])
    <2>1. \A entries \in 0 .. MaxScan :
            [work[p] EXCEPT !.entries = entries]
            = [work[p] EXCEPT !.entries = entries, !.held = work[p].held]
      BY <1>0 DEF Memory
    <2> QED BY <2>1 DEF Scan
  <1>2. [work[p] EXCEPT !.entries = entries, !.held = held] \in Memory
    BY <1>0 DEF Memory
  <1>3. /\ [work[p] EXCEPT !.entries = entries, !.held = held].on = work[p].on
        /\ work[p].on \in Strategies
    BY <1>0 DEF Memory, Scan, Typed, Remembers, Working
  <1>4. Control'
    <2>1. budget' \in [Kinds -> Nat] BY SpendTyped DEF Scan, Control, Kinds
    <2> QED BY <1>1, <1>2, <2>1, GoTyped, NoteTyped, StepLiterals DEF Scan, Control
  <1>5. Remembers'
    <2>1. \A q \in Processes \ {p} : pc'[q] = pc[q] /\ work'[q] = work[q]
      BY <1>1 DEF Scan, Go, Note, Control
    <2>2. pc'[p] = "deciding" BY DEF Scan, Go, Control
    <2>3. work'[p].on \in Strategies BY <1>1, <1>3 DEF Note, Control
    <2> QED BY <2>1, <2>2, <2>3, OthersRemember
  <1> QED BY <1>4, <1>5, SameLists, SameRecords DEF Scan, Typed

\* A step that goes on with the run of the same strategy, with or without its intent.
LEMMA RunGoesOn ==
  ASSUME Typed, NEW p \in Processes, pc[p] \in Working,
         NEW step \in {"deciding", "placing"}, pc' = [pc EXCEPT ![p] = step],
         \/ work' = work
         \/ Note(p, Without(work[p]))
         \/ \E fresh \in BOOLEAN : Note(p, [Without(work[p]) EXCEPT !.fresh = fresh])
  PROVE  /\ pc' \in [Processes -> Steps] /\ work' \in [Processes -> Memory]
         /\ Remembers'
  <1> Control BY DEF Typed
  <1> DEFINE m == Without(work[p])
  <1>0. work[p] \in Memory /\ work[p].on \in Strategies
    BY DEF Control, Typed, Remembers
  <1>1. m \in Memory /\ m.on = work[p].on BY <1>0, WithoutTyped
  <1>2. \A fresh \in BOOLEAN : LET n == [m EXCEPT !.fresh = fresh] IN
                               n \in Memory /\ n.on = work[p].on
    BY <1>1 DEF Memory
  <1>3. work' \in [Processes -> Memory] /\ work'[p].on \in Strategies
    <2>1. CASE work' = work BY <1>0, <2>1 DEF Control
    <2>2. CASE Note(p, m) BY <1>0, <1>1, <2>2, NoteTyped DEF Note, Control
    <2>3. CASE \E fresh \in BOOLEAN : Note(p, [m EXCEPT !.fresh = fresh])
      BY <1>0, <1>2, <2>3, NoteTyped DEF Note, Control
    <2> QED BY <2>1, <2>2, <2>3
  <1>4. pc' \in [Processes -> Steps] BY GoTyped, StepLiterals DEF Go, Control
  <1>5. \A q \in Processes \ {p} : pc'[q] = pc[q] /\ work'[q] = work[q]
    BY DEF Note, Control
  <1>6. pc'[p] = step BY DEF Control
  <1> QED BY <1>3, <1>4, <1>5, <1>6, OthersRemember

\* What a rejection writes, in the form the lemma above asks for.
LEMMA RejectGoesOn ==
  ASSUME Typed, NEW p \in Processes, NEW named \in SUBSET Strategies, Reject(p, named)
  PROVE  /\ pc' = [pc EXCEPT ![p] = "deciding"]
         /\ \E fresh \in BOOLEAN : Note(p, [Without(work[p]) EXCEPT !.fresh = fresh])
         /\ mismatch' = mismatch \cup named
  <1> DEFINE m == Without(work[p])
             fresh == m.fresh \/ work[p].on \in named \ mismatch
  <1>1. m \in Memory BY WithoutTyped DEF Typed, Control
  <1>2. fresh \in BOOLEAN OBVIOUS
  <1>3. Note(p, [m EXCEPT !.fresh = fresh])
    <2>1. [m EXCEPT !.fresh = @ \/ work[p].on \in named \ mismatch]
          = [m EXCEPT !.fresh = fresh]
      BY <1>1 DEF Memory
    <2> QED BY <2>1 DEF Reject
  <1> QED BY <1>2, <1>3 DEF Reject, Go

LEMMA DecideTyped ==
  ASSUME Typed, NEW p \in Processes, Decide(p) \/ Misfit(p)
  PROVE  Typed'
  <1> Control /\ Lists /\ Records BY DEF Typed
  <1> DEFINE s == work[p].on
  <1>1. pc[p] = "deciding" /\ s \in Strategies
    BY DEF Decide, Misfit, Typed, Remembers, Working
  <1>2. pc \in [Processes -> Steps] BY DEF Control
  <1>3. /\ catalog' \in Catalog /\ budget' \in [Kinds -> Nat]
        /\ UNCHANGED <<file, backup, loaded, position, due, unknown, uncovered, losing>>
    <2>1. CASE Decide(p) BY <2>1, LoadTyped DEF Decide, Lists, Control
    <2>2. CASE Misfit(p) BY <2>2, SpendTyped DEF Misfit, Lists, Control, Kinds, lists
    <2> QED BY <2>1, <2>2
  <1> DEFINE GoesOn == /\ pc' \in [Processes -> Steps] /\ work' \in [Processes -> Memory]
                       /\ Remembers'
                       /\ mismatch' \in SUBSET Strategies
  <1>4. GoesOn
    <2> mismatch \in SUBSET Strategies BY DEF Records
    <2>1. ASSUME NEW named \in SUBSET Strategies, Reject(p, named) PROVE GoesOn
      <3>1. pc[p] \in Working BY <1>1 DEF Working
      <3>2. /\ pc' = [pc EXCEPT ![p] = "deciding"]
            /\ \E fresh \in BOOLEAN : Note(p, [Without(work[p]) EXCEPT !.fresh = fresh])
            /\ mismatch' = mismatch \cup named
        BY <2>1, RejectGoesOn
      <3>3. /\ pc' \in [Processes -> Steps] /\ work' \in [Processes -> Memory]
            /\ Remembers'
        BY <3>1, <3>2, RunGoesOn
      <3> QED BY <3>2, <3>3
    <2>2. CASE Misfit(p)
      <3>1. PICK t \in Strategies : Reject(p, {t}) BY <2>2 DEF Misfit
      <3> QED BY <2>1, <3>1
    <2>3. CASE /\ Go(p, "placing") /\ UNCHANGED <<work, mismatch>>
      BY <1>1, <2>3, RunGoesOn DEF Working, Go
    <2>4. CASE /\ Note(p, Without(work[p])) /\ UNCHANGED <<pc, mismatch>>
      <3>1. pc' = [pc EXCEPT ![p] = "deciding"] BY <1>1, <1>2, <2>4
      <3> QED BY <1>1, <2>4, <3>1, RunGoesOn DEF Working
    <2>5. CASE Reject(p, Mismatched(p, catalog'[s]))
      <3>1. Mismatched(p, catalog'[s]) \in SUBSET Strategies BY <1>1 DEF Mismatched
      <3> QED BY <2>1, <2>5, <3>1
    <2> QED BY <2>2, <2>3, <2>4, <2>5 DEF Decide
  <1>5. Records' BY <1>1, <1>3, <1>4 DEF Records, Active
  <1> QED BY <1>3, <1>4, <1>5 DEF Typed, Control, Lists

LEMMA PlaceTyped ==
  ASSUME Typed, NEW p \in Processes, Place(p)
  PROVE  Typed'
  <1> Control /\ Lists /\ Records BY DEF Typed
  <1> DEFINE s == work[p].on
  <1>1. s \in Strategies BY DEF Place, Typed, Remembers, Working
  <1>2. Lists' BY SameLists DEF Place
  <1>3. /\ pc' \in [Processes -> Steps] /\ work' \in [Processes -> Memory]
        /\ Remembers'
    BY RunGoesOn DEF Place, Working, Go
  <1>4. Records'
    <2>1. position' \in [Strategies -> Phases] BY <1>1 DEF Place, Records, Phases
    <2>2. due' \subseteq {x \in Strategies : position'[x] = "open"}
      BY <1>1 DEF Place, Records, Active
    <2>3. Active \subseteq Active' BY <1>1 DEF Place, Records, Active
    <2>4. uncovered' \subseteq {x \in Strategies : position'[x] \in {"open", "exiting"}}
      BY <1>1 DEF Place, Records, Active
    <2> QED BY <2>1, <2>2, <2>3, <2>4 DEF Place, Records
  <1> QED BY <1>2, <1>3, <1>4 DEF Typed, Control, Place

LEMMA RunEndsTyped ==
  ASSUME Typed, NEW p \in Processes, RunEnds(p)
  PROVE  Typed'
  <1> Control /\ Lists /\ Records BY DEF Typed
  <1>1. Control'
    <2>1. budget' \in [Kinds -> Nat] BY SpendTyped DEF RunEnds, Control, Kinds
    <2> QED BY <2>1, DoneTyped, GoTyped, StepLiterals DEF RunEnds, Control
  <1>2. Remembers'
    <2>1. \A q \in Processes \ {p} : pc'[q] = pc[q] /\ work'[q] = work[q]
      BY DEF RunEnds, DoneWith, Go, Note, Control
    <2>2. pc'[p] = "judging" BY DEF RunEnds, Go, Control
    <2> QED BY <2>1, <2>2, OthersRemember DEF Working
  <1> QED BY <1>1, <1>2, SameLists, SameRecords DEF RunEnds, Typed

LEMMA ClerkTyped ==
  ASSUME Typed, NEW c \in Clerks, ClerkLoads(c) \/ ClerkSaves(c)
  PROVE  Typed'
  <1> Control /\ Lists /\ Records BY DEF Typed
  <1>1. Control'
    <2>1. CASE ClerkLoads(c) BY <2>1, LoadTyped DEF ClerkLoads, Control, Lists
    <2>2. CASE ClerkSaves(c) BY <2>2 DEF ClerkSaves, Control
    <2> QED BY <2>1, <2>2
  <1>2. Lists'
    <2>1. CASE ClerkLoads(c) BY <2>1, LoadTyped DEF ClerkLoads, Control, Lists
    <2>2. CASE ClerkSaves(c)
      <3>1. loaded[c] \in Catalog BY <2>2 DEF ClerkSaves, Lists
      <3>2. PICK s \in Strategies :
              \E new \in {loaded[c][s].status} \cup Verdicts :
                catalog' = [loaded[c] EXCEPT ![s].status = new]
        BY <2>2 DEF ClerkSaves
      <3>3. {loaded[c][s].status} \cup Verdicts \subseteq Status
        BY <3>1, ServiceAssumption DEF Catalog, Entry, Status, Halted
      <3>4. catalog' \in Catalog BY <3>1, <3>2, <3>3, CatalogWrite
      <3> QED BY <2>2, <3>4 DEF ClerkSaves, Lists
    <2> QED BY <2>1, <2>2
  <1>3. Records' BY SameRecords DEF ClerkLoads, ClerkSaves
  <1>4. Remembers' BY DEF Typed, Remembers, ClerkLoads, ClerkSaves
  <1> QED BY <1>1, <1>2, <1>3, <1>4 DEF Typed

LEMMA OperatorTyped ==
  ASSUME Typed, NEW s \in Strategies, Edit(s) \/ Delete(s) \/ Create(s)
  PROVE  Typed'
  <1> Control /\ Lists /\ Records BY DEF Typed
  <1>1. Lists'
    <2>1. {"approved", "missing"} \subseteq Status BY DEF Status
    <2>2. \A profile \in Profiles, status \in {"approved", "missing"} :
            [catalog EXCEPT ![s] = [status |-> status, profile |-> profile]] \in Catalog
      BY <2>1, CatalogWrite DEF Lists
    <2>3. CASE Edit(s) \/ Create(s) BY <2>2, <2>3 DEF Edit, Create, Lists
    <2>4. CASE Delete(s) BY <2>2, <2>4, FirstProfile DEF Delete, Missing, Lists
    <2> QED BY <2>3, <2>4
  <1>2. Control'
    BY SpendTyped DEF Edit, Delete, Create, Control, Kinds
  <1>3. Records' BY SameRecords DEF Edit, Delete, Create
  <1>4. Remembers' BY DEF Typed, Remembers, Edit, Delete, Create
  <1> QED BY <1>1, <1>2, <1>3, <1>4 DEF Typed

LEMMA OrderTyped ==
  ASSUME Typed, NEW s \in Strategies,
         EntryFills(s) \/ EntryEnds(s) \/ AnswerLost(s) \/ WantsOut(s) \/ ExitFills(s)
  PROVE  Typed'
  <1> Control /\ Lists /\ Records BY DEF Typed
  <1>1. Control'
    BY SpendTyped DEF EntryFills, EntryEnds, AnswerLost, WantsOut, ExitFills, Control, Kinds
  <1>2. Records'
    <2> USE DEF Records, Phases, Active
    <2>1. CASE EntryFills(s) BY <2>1 DEF EntryFills
    <2>2. CASE EntryEnds(s)
      <3>1. s \notin uncovered /\ s \notin due BY <2>2 DEF EntryEnds
      <3> QED BY <2>2, <3>1 DEF EntryEnds
    <2>3. CASE AnswerLost(s) BY <2>3 DEF AnswerLost
    <2>4. CASE WantsOut(s) BY <2>4 DEF WantsOut
    <2>5. CASE ExitFills(s) BY <2>5 DEF ExitFills
    <2> QED BY <2>1, <2>2, <2>3, <2>4, <2>5
  <1>3. Lists'
    BY SameLists DEF EntryFills, EntryEnds, AnswerLost, WantsOut, ExitFills
  <1>4. Remembers'
    BY DEF Typed, Remembers, EntryFills, EntryEnds, AnswerLost, WantsOut, ExitFills
  <1> QED BY <1>1, <1>2, <1>3, <1>4 DEF Typed

LEMMA NextTyped == Typed /\ [Next]_vars => Typed'
  <1> SUFFICES ASSUME Typed, [Next]_vars PROVE Typed' OBVIOUS
  <1>1. CASE \E p \in Processes : Start(p) \/ ServiceStep(p) \/ Stop(p) \/ Crash(p)
    BY <1>1, LeaseTyped, RecoveryTyped, JudgeTyped, HaltTyped, ScanTyped, DecideTyped,
       PlaceTyped, RunEndsTyped
    DEF ServiceStep
  <1>2. CASE \E c \in Clerks : ClerkLoads(c) \/ ClerkSaves(c) BY <1>2, ClerkTyped
  <1>3. CASE \E s \in Strategies :
               \/ Edit(s) \/ Delete(s) \/ Create(s)
               \/ EntryFills(s) \/ EntryEnds(s) \/ AnswerLost(s) \/ WantsOut(s)
               \/ ExitFills(s)
    BY <1>3, OperatorTyped, OrderTyped
  <1>4. CASE UNCHANGED vars
    <2>1. UNCHANGED <<file, pc, work, budget, lists, records>>
      BY <1>4 DEF vars, lists, records
    <2>2. Control' /\ Remembers' BY <2>1 DEF Typed, Control, Remembers
    <2> QED BY <2>1, <2>2, SameLists, SameRecords DEF Typed
  <1> QED BY <1>1, <1>2, <1>3, <1>4 DEF Next

LEMMA AlwaysTyped == Spec => []Typed
  BY InitTyped, NextTyped, PTL DEF Spec

\* Every reachable state has the types TypeOK states: positions, orders, reports and the
\* catalog keep their domains, and nothing is uncovered, unknown or due that is not open.
THEOREM TypeCorrect == Spec => []TypeOK
  <1>1. Typed => TypeOK BY TypeParts DEF Typed
  <1> QED BY <1>1, AlwaysTyped, PTL

-----------------------------------------------------------------------------
(* One service.  A serving process is named by the file, a process that    *)
(* writes has its own empty file there, and whoever is about to remove the *)
(* file has nobody to displace.                                            *)

Lease ==
  /\ \A p, q \in Processes : pc[p] \in Starting /\ pc[q] \in Starting => p = q
  /\ \A p \in Processes :
       pc[p] \in Serving => file # None /\ file.by = p /\ file.written
  /\ \A p \in Processes :
       pc[p] = "writing" => file # None /\ file.by = p /\ ~file.written
  /\ \A p, q \in Processes :
       /\ pc[p] = "asking" /\ pc[q] \in Serving => work[p].seen = q
       /\ pc[p] = "unlinking" => pc[q] \notin Serving

LEMMA LeaseInit == Init => Lease
  BY DEF Init, Lease, Starting, Serving, InCycle

\* A step that leaves the file alone and keeps who is starting, serving and writing.
LEMMA LeaseKept ==
  ASSUME Lease, file' = file,
         NEW p \in Processes, pc[p] \in Serving, pc'[p] \in Serving \cup {"dead"},
         \A q \in Processes \ {p} : pc'[q] = pc[q] /\ work'[q] = work[q]
  PROVE  Lease'
  <1>1. \A q \in Processes : pc'[q] \in Serving => pc[q] \in Serving OBVIOUS
  <1>2. pc'[p] \notin Starting BY DEF Starting, Serving, InCycle
  <1>3. \A q \in Processes : pc'[q] \in Starting => q # p /\ pc'[q] = pc[q] /\ work'[q] = work[q]
    BY <1>2
  <1> QED BY <1>1, <1>3 DEF Lease, Starting

LEMMA LeaseProcess ==
  ASSUME Typed, Lease, OneStarter, NEW p \in Processes,
         \/ Start(p) \/ Open(p) \/ Write(p) \/ Read(p) \/ Ask(p) \/ Unlink(p)
         \/ Release(p) \/ Crash(p)
  PROVE  Lease'
  <1> pc \in [Processes -> Steps] /\ work \in [Processes -> Memory] /\ file \in Files
    BY DEF Typed, Control
  <1> USE DEF Lease, Go, Note, Quits, Starting, Serving, InCycle
  <1>1. \A q \in Processes \ {p} : pc'[q] = pc[q] /\ work'[q] = work[q]
    BY DEF Start, Open, Write, Read, Ask, Unlink, Release, Crash
  <1>2. CASE Start(p) BY <1>1, <1>2 DEF Start
  <1>3. CASE Open(p)
    <2>1. \A q \in Processes : pc[q] \in Starting => q = p BY <1>3 DEF Open
    <2>2. pc'[p] \in {"off", "writing", "reading"} BY <1>3 DEF Open
    <2>3. CASE file' = file /\ pc'[p] # "writing" BY <1>1, <2>1, <2>2, <2>3
    <2>4. CASE file = None /\ file' = [by |-> p, written |-> FALSE] /\ pc'[p] = "writing"
      <3>0. [by |-> p, written |-> FALSE] \in [by : Processes, written : BOOLEAN] OBVIOUS
      <3>1. file' # None /\ file'.by = p /\ ~file'.written
        BY <2>4, <3>0, ServiceAssumption
      <3>2. \A q \in Processes : pc'[q] \notin Serving BY <1>1, <2>4
      <3> QED BY <1>1, <2>1, <2>4, <3>1, <3>2
    <2> QED BY <1>3, <2>3, <2>4 DEF Open
  <1>4. CASE Write(p)
    <2>1. file # None /\ file.by = p /\ file \in [by : Processes, written : BOOLEAN]
      BY <1>4 DEF Write, Files
    <2>2. file' = [file EXCEPT !.written = TRUE] BY <1>4, <2>1 DEF Write
    <2>3. file' \in [by : Processes, written : BOOLEAN] /\ file'.by = p /\ file'.written
      BY <2>1, <2>2
    <2>4. \A q \in Processes : pc[q] \in Starting => q = p BY <1>4 DEF Write
    <2>5. \A q \in Processes : pc[q] \notin Serving BY <1>4, <2>1 DEF Write
    <2>6. pc'[p] = "recovering" BY <1>4 DEF Write
    <2> QED BY <1>1, <2>3, <2>4, <2>5, <2>6, ServiceAssumption
  <1>5. CASE Read(p)
    <2>1. file # None /\ file.written => [work[p] EXCEPT !.seen = file.by].seen = file.by
      BY DEF Memory
    <2>2. \A q \in Processes : pc[q] \in Starting => q = p BY <1>5 DEF Read
    <2>3. file' = file BY <1>5 DEF Read
    <2>4. CASE pc'[p] = "off" BY <1>1, <2>2, <2>3, <2>4
    <2>5. CASE pc'[p] = "unlinking" /\ file # None /\ ~file.written
      <3>1. \A q \in Processes : pc[q] \notin Serving BY <2>5
      <3> QED BY <1>1, <2>2, <2>3, <2>5, <3>1
    <2>6. CASE pc'[p] = "asking" /\ file # None /\ work'[p].seen = file.by
      BY <1>1, <2>2, <2>3, <2>6
    <2> QED BY <1>5, <2>1, <2>4, <2>5, <2>6 DEF Read
  <1>6. CASE Ask(p)
    <2>1. ~Alive(work[p].seen) => \A q \in Processes : pc[q] \notin Serving
      BY <1>6 DEF Ask, Alive
    <2> QED BY <1>1, <1>6, <2>1 DEF Ask
  <1>7. CASE Unlink(p) BY <1>1, <1>7 DEF Unlink
  <1>8. CASE Release(p)
    <2>1. \A q \in Processes : pc[q] \in Serving => q = p BY <1>8 DEF Release
    <2>2. \A q \in Processes : pc[q] # "writing" BY <1>8 DEF Release
    <2> QED BY <1>1, <1>8, <2>1, <2>2 DEF Release
  <1>9. CASE Crash(p) BY <1>1, <1>9 DEF Crash
  <1> QED BY <1>2, <1>3, <1>4, <1>5, <1>6, <1>7, <1>8, <1>9

\* The steps of a serving process that stay in the service.
Works(p) == \/ Stop(p) \/ Reconcile(p) \/ StartupAudit(p) \/ CycleAudit(p) \/ Snapshot(p)
            \/ CycleEnds(p) \/ Judge(p) \/ Halt(p) \/ Scan(p) \/ Decide(p) \/ Misfit(p)
            \/ Place(p) \/ RunEnds(p)

LEMMA WorksAlone ==
  ASSUME Typed, NEW p \in Processes, Works(p)
  PROVE  /\ file' = file
         /\ pc[p] \in Serving /\ pc'[p] \in Serving
         /\ \A q \in Processes \ {p} : pc'[q] = pc[q] /\ work'[q] = work[q]
  <1> pc \in [Processes -> Steps] /\ work \in [Processes -> Memory] BY DEF Typed, Control
  <1>1. file' = file
    BY DEF Works, Stop, Reconcile, StartupAudit, CycleAudit, Audit, Snapshot, CycleEnds, Judge,
           Halt, Scan, Decide, Misfit, Place, RunEnds
  <1>2. pc[p] \in Serving /\ pc'[p] \in Serving
    <2> USE DEF Go, Serving, InCycle
    <2>1. CASE Judge(p) BY <2>1 DEF Judge
    <2>2. CASE Decide(p) \/ Misfit(p) BY <2>2 DEF Decide, Misfit, Reject
    <2>3. CASE RunEnds(p) BY <2>3 DEF RunEnds
    <2>4. CASE \/ Stop(p) \/ Reconcile(p) \/ StartupAudit(p) \/ CycleAudit(p) \/ Snapshot(p)
               \/ CycleEnds(p) \/ Halt(p) \/ Scan(p) \/ Place(p)
      BY <2>4 DEF Stop, Reconcile, StartupAudit, CycleAudit, Snapshot, CycleEnds,
                  Halt, Scan, Place
    <2> QED BY <2>1, <2>2, <2>3, <2>4 DEF Works
  <1>3. \A q \in Processes \ {p} : pc'[q] = pc[q] /\ work'[q] = work[q]
    <2>1. CASE Decide(p) \/ Misfit(p) BY <2>1 DEF Decide, Misfit, Reject, Go, Note
    <2>2. CASE ~Decide(p) /\ ~Misfit(p)
      BY <2>2 DEF Works, Stop, Reconcile, StartupAudit, CycleAudit, Audit, Snapshot, CycleEnds,
                  Judge, Halt, Scan, Place, RunEnds, DoneWith, Go, Note
    <2> QED BY <2>1, <2>2
  <1> QED BY <1>1, <1>2, <1>3

LEMMA LeaseElsewhere ==
  ASSUME Typed, Lease, file' = file, pc' = pc,
         \A q \in Processes : work'[q].seen = work[q].seen
  PROVE  Lease'
  BY DEF Lease

\* what dashboard requests, operators and the market do
Outside == \/ \E c \in Clerks : ClerkLoads(c) \/ ClerkSaves(c)
           \/ \E s \in Strategies :
                \/ Edit(s) \/ Delete(s) \/ Create(s)
                \/ EntryFills(s) \/ EntryEnds(s) \/ AnswerLost(s) \/ WantsOut(s) \/ ExitFills(s)

LEMMA OutsideKeeps ==
  ASSUME Outside \/ UNCHANGED vars
  PROVE  UNCHANGED <<file, pc, work, mismatch>>
  BY DEF Outside, ClerkLoads, ClerkSaves, Edit, Delete, Create, EntryFills, EntryEnds, AnswerLost,
         WantsOut, ExitFills, records, vars

\* Every step is one of these.
LEMMA StepKinds ==
  ASSUME [Next]_vars
  PROVE  \/ \E p \in Processes :
               \/ Start(p) \/ Open(p) \/ Write(p) \/ Read(p) \/ Ask(p) \/ Unlink(p)
               \/ Release(p) \/ Crash(p) \/ Works(p)
         \/ Outside \/ UNCHANGED vars
  BY DEF Next, ServiceStep, Works, Outside

LEMMA LeaseNext == OneStarter /\ Typed /\ Lease /\ [Next]_vars => Lease'
  <1> SUFFICES ASSUME OneStarter, Typed, Lease, [Next]_vars PROVE Lease' OBVIOUS
  <1>1. ASSUME NEW p \in Processes, Works(p) PROVE Lease'
    BY <1>1, WorksAlone, LeaseKept
  <1>2. CASE Outside \/ UNCHANGED vars BY <1>2, OutsideKeeps, LeaseElsewhere
  <1> QED BY <1>1, <1>2, LeaseProcess, StepKinds

\* At most one process runs the service, if no two start at the same time: the reader of
\* the lock file finds the owner's pid there, asks for that pid, and removes the file of
\* nobody else before it asks again.
THEOREM OnlyOneService == OneStarter => (Spec => []OneService)
  <1> SUFFICES ASSUME OneStarter PROVE Spec => []OneService OBVIOUS
  <1>1. Init => Typed /\ Lease BY InitTyped, LeaseInit
  <1>2. (Typed /\ Lease) /\ [Next]_vars => (Typed /\ Lease)' BY NextTyped, LeaseNext
  <1>3. Lease => OneService BY DEF Lease, OneService
  <1> QED BY <1>1, <1>2, <1>3, PTL DEF Spec

-----------------------------------------------------------------------------
(* A recorded mismatch outlasts its run.  A run whose health was found fine *)
(* began when no mismatch was on record, or has recorded the first itself;  *)
(* only the process that runs the strategy records one.                     *)

Excused(p) == work[p].on \notin mismatch \/ work[p].fresh

Sound == \A p \in Processes :
  /\ pc[p] \in Working /\ work[p].health = "fine" => Excused(p)
  /\ pc[p] = "placing" /\ Pending(work[p]) = "enter" => work[p].health = "fine"
  /\ pc[p] = "halting" => work[p].health # "fine"

LEMMA SoundInit == Init => Sound
  BY DEF Init, Sound, Working

\* A step of p that records nothing is sound if what p remembers after it is.
LEMMA SoundStep ==
  ASSUME Sound, NEW p \in Processes, mismatch' = mismatch,
         \A q \in Processes \ {p} : pc'[q] = pc[q] /\ work'[q] = work[q],
         pc'[p] \in Working /\ work'[p].health = "fine" => Excused(p)',
         pc'[p] = "placing" /\ Pending(work'[p]) = "enter" => work'[p].health = "fine",
         pc'[p] = "halting" => work'[p].health # "fine"
  PROVE  Sound'
  BY DEF Sound, Excused, Pending

LEMMA SoundJudge ==
  ASSUME Typed, Sound, NEW p \in Processes, Judge(p)
  PROVE  Sound'
  <1>0. /\ pc \in [Processes -> Steps] /\ work \in [Processes -> Memory]
        /\ work[p] \in Memory /\ mismatch' = mismatch
    BY DEF Typed, Control, Judge, records
  <1>1. PICK s \in work[p].left :
          \/ /\ Note(p, [work[p] EXCEPT !.on = s, !.target = Target(s), !.health = Health(s)])
             /\ Go(p, IF Target(s) = "none" THEN "scanning" ELSE "halting")
          \/ /\ Note(p, [work[p] EXCEPT !.on = s, !.health = "mismatch"])
             /\ Go(p, "scanning")
    BY DEF Judge
  <1> DEFINE judged == [work[p] EXCEPT !.on = s, !.target = Target(s), !.health = Health(s)]
             failed == [work[p] EXCEPT !.on = s, !.health = "mismatch"]
  <1>2. /\ judged.on = s /\ judged.health = Health(s) /\ failed.health = "mismatch"
    BY <1>0 DEF Memory
  <1>3. \A q \in Processes \ {p} : pc'[q] = pc[q] /\ work'[q] = work[q]
    BY <1>0, <1>1 DEF Go, Note
  <1>4. /\ Health(s) = "fine" => s \notin mismatch
        /\ Target(s) # "none" => Health(s) # "fine"
    BY DEF Health, Target
  <1>5. CASE work'[p] = judged /\ pc'[p] = IF Target(s) = "none" THEN "scanning" ELSE "halting"
    <2>1. work'[p].on = s /\ work'[p].health = Health(s) BY <1>2, <1>5
    <2>2. pc'[p] # "placing" /\ (pc'[p] = "halting" => Target(s) # "none") BY <1>5
    <2> QED BY <1>0, <1>3, <1>4, <2>1, <2>2, SoundStep DEF Excused
  <1>6. CASE work'[p] = failed /\ pc'[p] = "scanning"
    BY <1>0, <1>2, <1>3, <1>6, SoundStep
  <1> QED BY <1>0, <1>1, <1>5, <1>6 DEF Go, Note

LEMMA SoundHalt ==
  ASSUME Typed, Sound, NEW p \in Processes, Halt(p)
  PROVE  Sound'
  <1>0. /\ pc \in [Processes -> Steps] /\ work \in [Processes -> Memory]
        /\ work[p] \in Memory /\ mismatch' = mismatch
    BY DEF Typed, Control, Halt, records
  <1>1. /\ [work[p] EXCEPT !.target = "none"].health = work[p].health
        /\ [work[p] EXCEPT !.target = "none", !.health = "mismatch"].health = "mismatch"
    BY <1>0 DEF Memory
  <1>2. work[p].health # "fine" BY DEF Halt, Sound
  <1>3. /\ \A q \in Processes \ {p} : pc'[q] = pc[q] /\ work'[q] = work[q]
        /\ pc'[p] = "scanning" /\ work'[p].health # "fine"
    BY <1>0, <1>1, <1>2 DEF Halt, Go, Note
  <1> QED BY <1>0, <1>3, SoundStep

\* A step of a run that keeps its strategy, the report on it and what it has recorded.
LEMMA SoundRun ==
  ASSUME Sound, NEW p \in Processes, pc[p] \in Working, mismatch' = mismatch,
         \A q \in Processes \ {p} : pc'[q] = pc[q] /\ work'[q] = work[q],
         work'[p].on = work[p].on, work'[p].health = work[p].health,
         work'[p].fresh = work[p].fresh, pc'[p] # "halting",
         pc'[p] = "placing" /\ Pending(work'[p]) = "enter" => work'[p].health = "fine"
  PROVE  Sound'
  <1>1. work'[p].health = "fine" => Excused(p)' BY DEF Sound, Excused
  <1> QED BY <1>1, SoundStep

LEMMA SoundScan ==
  ASSUME Typed, Sound, NEW p \in Processes, Scan(p)
  PROVE  Sound'
  <1>0. /\ pc \in [Processes -> Steps] /\ work \in [Processes -> Memory]
        /\ work[p] \in Memory /\ mismatch' = mismatch
    BY DEF Typed, Control, Scan, records
  <1>1. PICK entries \in 0 .. MaxScan, held \in {"none", "hold", "exit"} :
          \/ Note(p, [work[p] EXCEPT !.entries = entries, !.held = held])
          \/ Note(p, [work[p] EXCEPT !.entries = entries])
    BY DEF Scan
  <1> DEFINE m == [work[p] EXCEPT !.entries = entries, !.held = held]
             n == [work[p] EXCEPT !.entries = entries]
  <1>2. /\ work'[p].on = work[p].on /\ work'[p].health = work[p].health
        /\ work'[p].fresh = work[p].fresh
    <2>1. m.on = work[p].on /\ m.health = work[p].health /\ m.fresh = work[p].fresh
      BY <1>0 DEF Memory
    <2>2. n.on = work[p].on /\ n.health = work[p].health /\ n.fresh = work[p].fresh
      BY <1>0 DEF Memory
    <2>3. work'[p] = m \/ work'[p] = n BY <1>0, <1>1 DEF Note
    <2> QED BY <2>1, <2>2, <2>3
  <1>3. /\ \A q \in Processes \ {p} : pc'[q] = pc[q] /\ work'[q] = work[q]
        /\ pc[p] = "scanning" /\ pc'[p] = "deciding"
    BY <1>0 DEF Scan, Go, Note
  <1> QED BY <1>0, <1>2, <1>3, SoundRun DEF Working

LEMMA SoundReject ==
  ASSUME Typed, Lease, Sound, NEW p \in Processes, pc[p] = "deciding",
         NEW named, Reject(p, named)
  PROVE  Sound'
  <1>0. /\ pc \in [Processes -> Steps] /\ work \in [Processes -> Memory]
        /\ work[p] \in Memory
    BY DEF Typed, Control
  <1> DEFINE m == Without(work[p])
             n == [m EXCEPT !.fresh = @ \/ work[p].on \in named \ mismatch]
  <1>1. m \in Memory /\ m.on = work[p].on /\ m.health = work[p].health
        /\ m.fresh = work[p].fresh
    BY <1>0, WithoutTyped
  <1>2. /\ n.on = work[p].on /\ n.health = work[p].health
        /\ n.fresh = (work[p].fresh \/ work[p].on \in named \ mismatch)
    BY <1>1 DEF Memory
  <1>3. work'[p] = n /\ pc'[p] = "deciding" BY <1>0 DEF Reject, Go, Note
  <1>4. \A q \in Processes \ {p} : pc'[q] = pc[q] /\ pc'[q] \notin Serving
    BY <1>0 DEF Reject, Go, Lease, Serving, InCycle
  <1>5. \A q \in Processes \ {p} : pc'[q] \notin Working
    BY <1>4 DEF Working, Serving, InCycle
  <1>6. work'[p].health = "fine" => Excused(p)'
    BY <1>2, <1>3 DEF Sound, Working, Excused, Reject
  <1> QED BY <1>3, <1>5, <1>6 DEF Sound, Working

LEMMA SoundDecide ==
  ASSUME Typed, Lease, Sound, NEW p \in Processes, Decide(p)
  PROVE  Sound'
  <1>0. /\ pc \in [Processes -> Steps] /\ work \in [Processes -> Memory]
        /\ work[p] \in Memory /\ pc[p] = "deciding"
    BY DEF Typed, Control, Decide
  <1> DEFINE s   == work[p].on
             act == Pending(work[p])
  <1>1. CASE /\ GateAllows(p, catalog'[s], act)
             /\ Go(p, "placing") /\ UNCHANGED <<work, mismatch>>
    <2>1. act = "enter" => work[p].health = "fine" BY <1>1 DEF GateAllows
    <2>2. /\ \A q \in Processes \ {p} : pc'[q] = pc[q] /\ work'[q] = work[q]
          /\ pc'[p] = "placing" /\ work'[p] = work[p] /\ mismatch' = mismatch
      BY <1>0, <1>1 DEF Go
    <2> QED BY <1>0, <2>1, <2>2, SoundRun DEF Working
  <1>2. CASE Note(p, Without(work[p])) /\ UNCHANGED <<pc, mismatch>>
    <2>1. /\ Without(work[p]).on = work[p].on /\ Without(work[p]).health = work[p].health
          /\ Without(work[p]).fresh = work[p].fresh
      BY <1>0, WithoutTyped
    <2>2. /\ \A q \in Processes \ {p} : pc'[q] = pc[q] /\ work'[q] = work[q]
          /\ pc'[p] = "deciding" /\ work'[p] = Without(work[p]) /\ mismatch' = mismatch
      BY <1>0, <1>2 DEF Note
    <2> QED BY <1>0, <2>1, <2>2, SoundRun DEF Working
  <1>3. CASE Reject(p, Mismatched(p, catalog'[s]))
    BY <1>0, <1>3, SoundReject
  <1> QED BY <1>1, <1>2, <1>3 DEF Decide

LEMMA SoundPlace ==
  ASSUME Typed, Sound, NEW p \in Processes, Place(p)
  PROVE  Sound'
  <1>0. /\ pc \in [Processes -> Steps] /\ work \in [Processes -> Memory]
        /\ work[p] \in Memory /\ pc[p] = "placing" /\ mismatch' = mismatch
    BY DEF Typed, Control, Place
  <1>1. /\ Without(work[p]).on = work[p].on /\ Without(work[p]).health = work[p].health
        /\ Without(work[p]).fresh = work[p].fresh
    BY <1>0, WithoutTyped
  <1>2. /\ \A q \in Processes \ {p} : pc'[q] = pc[q] /\ work'[q] = work[q]
        /\ pc'[p] = "deciding" /\ work'[p] = Without(work[p])
    BY <1>0 DEF Place, Go, Note
  <1> QED BY <1>0, <1>1, <1>2, SoundRun DEF Working

LEMMA SoundNext == Typed /\ Lease /\ Sound /\ [Next]_vars => Sound'
  <1> SUFFICES ASSUME Typed, Lease, Sound, [Next]_vars PROVE Sound' OBVIOUS
  <1>0. pc \in [Processes -> Steps] /\ work \in [Processes -> Memory]
    BY DEF Typed, Control
  <1>1. ASSUME NEW p \in Processes,
               \/ Start(p) \/ Open(p) \/ Write(p) \/ Read(p) \/ Ask(p) \/ Unlink(p)
               \/ Release(p) \/ Crash(p)
        PROVE  Sound'
    <2>1. /\ mismatch' = mismatch
          /\ pc'[p] \notin {"scanning", "deciding", "placing", "halting"}
          /\ \A q \in Processes \ {p} : pc'[q] = pc[q] /\ work'[q] = work[q]
      BY <1>0, <1>1 DEF Start, Open, Write, Read, Ask, Unlink, Release, Crash, Go, Note, Quits,
                        records
    <2> QED BY <2>1, SoundStep DEF Working
  <1>2. ASSUME NEW p \in Processes,
               \/ Stop(p) \/ Reconcile(p) \/ StartupAudit(p) \/ CycleAudit(p) \/ Snapshot(p)
               \/ CycleEnds(p) \/ RunEnds(p)
        PROVE  Sound'
    <2>1. /\ mismatch' = mismatch
          /\ pc'[p] \notin {"scanning", "deciding", "placing", "halting"}
      BY <1>0, <1>2 DEF Stop, Reconcile, StartupAudit, CycleAudit, Audit, Snapshot,
                        CycleEnds, RunEnds, Go, records
    <2>2. Works(p) BY <1>2 DEF Works
    <2> QED BY <2>1, <2>2, WorksAlone, SoundStep DEF Working
  <1>3. ASSUME NEW p \in Processes, Misfit(p)
        PROVE  Sound'
    BY <1>3, SoundReject DEF Misfit
  <1>4. CASE Outside \/ UNCHANGED vars
    BY <1>4, OutsideKeeps DEF Sound, Excused, Pending
  <1> QED BY <1>1, <1>2, <1>3, <1>4, SoundJudge, SoundHalt, SoundScan, SoundDecide, SoundPlace,
             StepKinds DEF Works

LEMMA EntryIsExcused ==
  ASSUME Typed, Sound, [Next]_vars, NEW s \in mismatch, position[s] # "pending",
         position'[s] = "pending"
  PROVE  \E p \in Processes : work[p].on = s /\ work[p].fresh
  <1>0. position \in [Strategies -> Phases] /\ s \in Strategies BY DEF Typed, Records
  <1>1. ASSUME NEW p \in Processes,
               \/ Start(p) \/ Open(p) \/ Write(p) \/ Read(p) \/ Ask(p) \/ Unlink(p)
               \/ Release(p) \/ Crash(p)
        PROVE  position' = position
    BY <1>1 DEF Start, Open, Write, Read, Ask, Unlink, Release, Crash, records
  <1>2. ASSUME NEW p \in Processes, Works(p), ~Place(p)
        PROVE  position' = position
    BY <1>2 DEF Works, Stop, Reconcile, StartupAudit, CycleAudit, Audit, Snapshot, CycleEnds,
                Judge, Halt, Scan, Decide, Misfit, RunEnds, records
  <1>3. ASSUME NEW p \in Processes, Place(p)
        PROVE  work[p].on = s /\ work[p].fresh
    <2>1. work[p].on = s /\ Pending(work[p]) # "exit" BY <1>0, <1>3 DEF Place
    <2>2. Pending(work[p]) = "enter" BY <1>0, <1>3, <2>1 DEF Place
    <2>3. Excused(p) BY <1>3, <2>2 DEF Place, Sound, Working
    <2> QED BY <2>1, <2>3 DEF Excused
  <1>4. CASE Outside \/ UNCHANGED vars
    <2>1. ASSUME NEW x \in Strategies, EntryFills(x) \/ EntryEnds(x) \/ ExitFills(x)
          PROVE  position'[s] # "pending"
      <3>1. \/ position' = [position EXCEPT ![x] = "open"]
            \/ position' = [position EXCEPT ![x] = "none"]
        BY <2>1 DEF EntryFills, EntryEnds, ExitFills
      <3> QED BY <1>0, <3>1
    <2>2. CASE ~\E x \in Strategies : EntryFills(x) \/ EntryEnds(x) \/ ExitFills(x)
      BY <1>4, <2>2 DEF Outside, ClerkLoads, ClerkSaves, Edit, Delete, Create, AnswerLost,
                        WantsOut, records, vars
    <2> QED BY <1>4, <2>1, <2>2
  <1> QED BY <1>1, <1>2, <1>3, <1>4, StepKinds

\* With one service, a strategy with a recorded mismatch enters nothing after the run that
\* recorded the first one, however often the catalog says it is approved.
THEOREM MismatchKeepsOut == OneStarter => (Spec => MismatchOutlastsItsRun)
  <1> SUFFICES ASSUME OneStarter PROVE Spec => MismatchOutlastsItsRun OBVIOUS
  <1> DEFINE I == Typed /\ Lease /\ Sound
             A == \A s \in mismatch :
                    position[s] # "pending" /\ position'[s] = "pending"
                    => \E p \in Processes : work[p].on = s /\ work[p].fresh
  <1>1. Init => I BY InitTyped, LeaseInit, SoundInit
  <1>2. I /\ [Next]_vars => I' BY NextTyped, LeaseNext, SoundNext
  <1>3. I /\ [Next]_vars => [A]_vars BY EntryIsExcused
  <1>4. Spec => [][A]_vars BY <1>1, <1>2, <1>3, PTL DEF Spec
  <1> QED BY <1>4 DEF MismatchOutlastsItsRun
=============================================================================
