--------------------------- MODULE DetectionEngine ---------------------------
(***************************************************************************)
(* One polling detection engine (detections/engine/fusion_detection) over  *)
(* its ClickHouse tables. DetectionEngine.run_cycle is a sequence of store *)
(* calls; each call is one action, so ingestion, a crash or a write that   *)
(* the client gave up on can fall between any two of them. The engine      *)
(* keeps nothing in memory from one cycle to the next: an exception and a  *)
(* crash leave the same state, both are Abort.                             *)
(*                                                                         *)
(* A table read with FINAL is modelled by the rows FINAL returns. At most  *)
(* one scope row per ruleset and one checkpoint row per engine are visible,*)
(* each held as a set of at most one record.                               *)
(***************************************************************************)
EXTENDS Integers, FiniteSets

CONSTANTS
  Events,       \* logical source events; the number is the event_uid
  EventTime,    \* EventTime[e]: the event_time of e, fixed with its uid
  Rulesets,     \* ruleset fingerprints
  Rules,        \* rule ids
  Matches,      \* Matches[r][e]: rule ids matched on e under ruleset r
  Failing,      \* Failing[r]: events whose evaluation raises under ruleset r
  BatchSize,    \* Settings.batch_size
  Lookback,     \* Settings.lookback_seconds
  LegacyRows,   \* checkpoint rows an upgraded deployment may start with
  MaxSkew,      \* how far an event_time may lie ahead of its ingestion
  MaxClock,     \* bound: the last instant of the wall clock
  MaxRows,      \* bound: physical rows of one event (replays of the sink)
  MaxAborts,    \* bound: cycles that end in an exception or a crash
  MaxSwitches,  \* bound: restarts under another ruleset
  LateWrites    \* TRUE: an insert the client gave up on may land later

Position == [time : Int, uid : Nat]
LegacyRow == [time : Int, uid : Nat, ruleset : Rulesets, floor : SUBSET Int]

ASSUME EventsAssumption ==
  Events \subseteq Nat \ {0} /\ EventTime \in [Events -> Int]
ASSUME RulesAssumption ==
  /\ Matches \in [Rulesets -> [Events -> SUBSET Rules]]
  /\ Failing \in [Rulesets -> SUBSET Events]
ASSUME SettingsAssumption == BatchSize \in Nat \ {0} /\ Lookback \in Nat
ASSUME LegacyAssumption == LegacyRows \subseteq LegacyRow
ASSUME BoundsAssumption ==
  /\ MaxSkew \in Nat /\ MaxClock \in Nat /\ MaxRows \in Nat
  /\ MaxAborts \in Nat /\ MaxSwitches \in Nat /\ LateWrites \in BOOLEAN

VARIABLES
  clock,          \* wall clock of the host
  rows,           \* rows[e]: ingested_at of the physical rows of e in sysmon_events
  detectionRows,  \* detectionRows[d]: rows inserted into fusion.detections under id d
  ledger,         \* <<ruleset, event>> keys of detection_evaluated_events
  scope,          \* scope[r]: the visible row of detection_evaluation_scopes
  checkpointRow,  \* the visible row of detection_checkpoints
  lateDetections, \* detections of an insert the client gave up on
  lateMarks,      \* ledger keys of an insert the client gave up on
  lateScopes,     \* scope rows of inserts the client gave up on
  lateCheckpoints,\* checkpoint rows of such inserts
  ruleset,        \* fingerprint of the running process
  pc,             \* next store call of run_cycle
  checkpoint, floor, cursor, page, passed, fresh,  \* locals of run_cycle
  aborts, switches

tables == <<rows, detectionRows, ledger, scope, checkpointRow>>
late == <<lateDetections, lateMarks, lateScopes, lateCheckpoints>>
locals == <<checkpoint, floor, cursor, page, passed, fresh>>
bounds == <<aborts, switches>>
vars == <<clock, tables, late, ruleset, pc, locals, bounds>>

(***************************************************************************)
(* Positions, candidates and pages                                         *)
(***************************************************************************)
Pos(e) == [time |-> EventTime[e], uid |-> e]

Leq(p, q) == p.time < q.time \/ (p.time = q.time /\ p.uid <= q.uid)

IsLast(p, P) == \A q \in P : Leq(q, p)

\* Some physical row of e passes the query's floor condition.
EligibleFrom(e, from) ==
  rows[e] # {} /\ (EventTime[e] >= from \/ \E at \in rows[e] : at >= from)

Unevaluated(r, from) ==
  {e \in Events : EligibleFrom(e, from) /\ <<r, e>> \notin ledger}

\* The query's order: positions after the cursor first, then the wrapped ones.
Wrapped(c, e) == \E p \in c : Leq(Pos(e), p)
Earlier(c, d, e) ==
  \/ ~Wrapped(c, d) /\ Wrapped(c, e)
  \/ (Wrapped(c, d) <=> Wrapped(c, e)) /\ d # e /\ Leq(Pos(d), Pos(e))

\* Mutant: the scan never wraps around.
PageWithoutWrap(S, c) ==
  {e \in S : /\ ~Wrapped(c, e)
             /\ Cardinality({d \in S : Earlier(c, d, e)}) < BatchSize}
\* fetch_unevaluated_events: the first BatchSize logical events of S.
Page(S, c) ==
  {e \in S : Cardinality({d \in S : Earlier(c, d, e)}) < BatchSize}

IsLastOfPage(e, S, c) == \A d \in S : d = e \/ Earlier(c, d, e)

\* Mutant: the identity hash leaves the event uid out.
CandidatesOfRule(r, S) == {<<x>> : x \in UNION {Matches[r][e] : e \in S}}
\* Detection ids are H(rule id, event uid): the ruleset is not part of them.
Candidates(r, S) == {d \in Rules \X S : d[1] \in Matches[r][d[2]]}

DetectionIds == Rules \X Events
Published == {d \in DetectionIds : detectionRows[d] > 0}

Insert(D) ==
  detectionRows' =
    [d \in DetectionIds |-> detectionRows[d] + (IF d \in D THEN 1 ELSE 0)]

Origin == [time |-> 0, uid |-> 0]

IdleLocals ==
  /\ checkpoint = Origin /\ floor = 0 /\ cursor = {}
  /\ page = {} /\ passed = {} /\ fresh = {}

Goto(from, to) == pc = from /\ pc' = to

Init ==
  /\ clock = 0
  /\ rows = [e \in Events |-> {}]
  /\ detectionRows = [d \in DetectionIds |-> 0]
  /\ ledger = {}
  /\ scope = [r \in Rulesets |-> {}]
  /\ checkpointRow \in {{}} \cup {{row} : row \in LegacyRows}
  /\ lateDetections = {} /\ lateMarks = {}
  /\ lateScopes = {} /\ lateCheckpoints = {}
  /\ ruleset \in Rulesets
  /\ pc = "idle"
  /\ IdleLocals
  /\ aborts = 0 /\ switches = 0

(***************************************************************************)
(* Environment: the clock, the Vector sink, restarts                       *)
(***************************************************************************)
Tick ==
  /\ clock < MaxClock
  /\ clock' = clock + 1
  /\ UNCHANGED <<tables, late, ruleset, pc, locals, bounds>>

\* A physical row of e becomes visible. The sink delivers at least once, so a
\* second row of the same logical event may follow with a later ingested_at.
Ingest(e) ==
  /\ EventTime[e] <= clock + MaxSkew
  /\ Cardinality(rows[e]) < MaxRows
  /\ clock \notin rows[e]
  /\ rows' = [rows EXCEPT ![e] = @ \cup {clock}]
  /\ UNCHANGED <<clock, detectionRows, ledger, scope, checkpointRow, late,
                 ruleset, pc, locals, bounds>>

\* The service restarts with other rules, mappings or another code version.
SwitchRuleset(r) ==
  /\ pc = "idle" /\ r # ruleset /\ switches < MaxSwitches
  /\ ruleset' = r
  /\ switches' = switches + 1
  /\ UNCHANGED <<clock, tables, late, pc, locals, aborts>>

(***************************************************************************)
(* One cycle: DetectionEngine.run_cycle, one action per store call         *)
(***************************************************************************)
LoadCheckpoint ==
  /\ Goto("idle", "loadScope")
  /\ LET stored == {[time |-> row.time, uid |-> row.uid] : row \in checkpointRow}
         marked == {Pos(e) : e \in {x \in Events : <<ruleset, x>> \in ledger}}
         known  == stored \cup marked
     IN  \/ known = {} /\ checkpoint' = [time |-> clock - Lookback, uid |-> 0]
         \/ \E p \in known : IsLast(p, known) /\ checkpoint' = p
  /\ UNCHANGED <<clock, tables, late, ruleset, floor, cursor, page, passed,
                 fresh, bounds>>

LoadEvaluationScope ==
  /\ pc = "loadScope"
  /\ \/ \E row \in scope[ruleset] :
           floor' = row.floor /\ cursor' = row.cursor /\ pc' = "fetch"
     \/ scope[ruleset] = {} /\ UNCHANGED <<floor, cursor>> /\ pc' = "loadLegacy"
  /\ UNCHANGED <<clock, tables, late, ruleset, checkpoint, page, passed, fresh,
                 bounds>>

\* Mutant: the enrollment window is dropped from the floor.
LoadLegacyFloorNoWindow ==
  /\ Goto("loadLegacy", "insertScope")
  /\ floor' = checkpoint.time
  /\ UNCHANGED <<clock, tables, late, ruleset, checkpoint, cursor, page, passed,
                 fresh, bounds>>
\* The floor of a draft checkpoint row, else a window below the checkpoint.
LoadLegacyFloor ==
  /\ Goto("loadLegacy", "insertScope")
  /\ LET mine == {row \in checkpointRow : row.ruleset = ruleset}
     IN  \/ \E row \in mine : floor' \in row.floor
         \/ /\ \A row \in mine : row.floor = {}
            /\ floor' = checkpoint.time - Lookback
  /\ UNCHANGED <<clock, tables, late, ruleset, checkpoint, cursor, page, passed,
                 fresh, bounds>>

\* FINAL keeps the row of the latest updated_at: an abandoned row of the same
\* ruleset that is still to land never becomes visible after this one.
StoreScope(row) ==
  /\ scope' = [scope EXCEPT ![ruleset] = {row}]
  /\ lateScopes' = {w \in lateScopes : w.ruleset # ruleset}

\* initialize_evaluation_floor is two inserts: the scope row comes first.
InsertScope ==
  /\ Goto("insertScope", "insertCheckpoint")
  /\ StoreScope([floor |-> floor, cursor |-> {}])
  /\ UNCHANGED <<clock, rows, detectionRows, ledger, checkpointRow,
                 lateDetections, lateMarks, lateCheckpoints, ruleset, locals,
                 bounds>>

CheckpointOf(p) ==
  [time |-> p.time, uid |-> p.uid, ruleset |-> ruleset, floor |-> {floor}]

\* There is one checkpoint row for all rulesets: FINAL keeps the last one.
StoreCheckpoint(p) ==
  /\ checkpointRow' = {CheckpointOf(p)}
  /\ lateCheckpoints' = {}

InsertCheckpoint ==
  /\ Goto("insertCheckpoint", "fetch")
  /\ StoreCheckpoint(checkpoint)
  /\ UNCHANGED <<clock, rows, detectionRows, ledger, scope, lateDetections,
                 lateMarks, lateScopes, ruleset, locals, bounds>>

FetchUnevaluated ==
  /\ Goto("fetch", "evaluate")
  /\ page' = Page(Unevaluated(ruleset, floor), cursor)
  /\ UNCHANGED <<clock, tables, late, ruleset, checkpoint, floor, cursor,
                 passed, fresh, bounds>>

\* Mutant: existing_detection_ids is not consulted.
EvaluatePageUnchecked ==
  /\ Goto("evaluate", "insertDetections")
  /\ passed' = page \ Failing[ruleset]
  /\ fresh' = Candidates(ruleset, passed')
  /\ UNCHANGED <<clock, tables, late, ruleset, checkpoint, floor, cursor, page,
                 bounds>>
\* Evaluation, and the query for the detections that are already stored. An
\* event whose evaluation raises contributes nothing and is not marked.
EvaluatePage ==
  /\ Goto("evaluate", "insertDetections")
  /\ passed' = page \ Failing[ruleset]
  /\ fresh' = Candidates(ruleset, passed') \ Published
  /\ UNCHANGED <<clock, tables, late, ruleset, checkpoint, floor, cursor, page,
                 bounds>>

\* Mutant: the insert is acknowledged before it is visible, as it would be
\* with wait_for_async_insert switched off.
InsertDetectionsUnacknowledged ==
  /\ Goto("insertDetections", "markEvaluated")
  /\ lateDetections' = lateDetections \cup fresh
  /\ UNCHANGED <<clock, tables, lateMarks, lateScopes, lateCheckpoints, ruleset,
                 locals, bounds>>
InsertDetections ==
  /\ Goto("insertDetections", "markEvaluated")
  /\ Insert(fresh)
  /\ UNCHANGED <<clock, rows, ledger, scope, checkpointRow, late, ruleset,
                 locals, bounds>>

\* Mutant: the whole page is marked, the failed events included.
MarkWholePage ==
  /\ Goto("markEvaluated", "saveCursor")
  /\ ledger' = ledger \cup ({ruleset} \X page)
  /\ UNCHANGED <<clock, rows, detectionRows, scope, checkpointRow, late, ruleset,
                 locals, bounds>>
MarkEvaluated ==
  /\ Goto("markEvaluated", "saveCursor")
  /\ ledger' = ledger \cup ({ruleset} \X passed)
  /\ UNCHANGED <<clock, rows, detectionRows, scope, checkpointRow, late, ruleset,
                 locals, bounds>>

SaveCursorAs(e, from) ==
  /\ cursor' = {Pos(e)}
  /\ StoreScope([floor |-> from, cursor |-> {Pos(e)}])

\* Mutant: the floor follows the checkpoint instead of staying fixed.
SaveCursorMovingFloor ==
  /\ Goto("saveCursor", "saveCheckpoint")
  /\ \/ page = {} /\ UNCHANGED <<cursor, scope, lateScopes>>
     \/ \E e \in page : /\ IsLastOfPage(e, page, cursor)
                        /\ SaveCursorAs(e, checkpoint.time - Lookback)
  /\ UNCHANGED <<clock, rows, detectionRows, ledger, checkpointRow,
                 lateDetections, lateMarks, lateCheckpoints, ruleset,
                 checkpoint, floor, page, passed, fresh, bounds>>
\* Mutant: the cursor is saved at the last event that passed.
SaveCursorOfPassed ==
  /\ Goto("saveCursor", "saveCheckpoint")
  /\ \/ passed = {} /\ UNCHANGED <<cursor, scope, lateScopes>>
     \/ \E e \in passed : /\ IsLastOfPage(e, passed, cursor)
                          /\ SaveCursorAs(e, floor)
  /\ UNCHANGED <<clock, rows, detectionRows, ledger, checkpointRow,
                 lateDetections, lateMarks, lateCheckpoints, ruleset,
                 checkpoint, floor, page, passed, fresh, bounds>>
\* The cursor moves past the whole attempted page, failed events included.
SaveCandidateCursor ==
  /\ Goto("saveCursor", "saveCheckpoint")
  /\ \/ page = {} /\ UNCHANGED <<cursor, scope, lateScopes>>
     \/ \E e \in page : IsLastOfPage(e, page, cursor) /\ SaveCursorAs(e, floor)
  /\ UNCHANGED <<clock, rows, detectionRows, ledger, checkpointRow,
                 lateDetections, lateMarks, lateCheckpoints, ruleset,
                 checkpoint, floor, page, passed, fresh, bounds>>

EndCycle ==
  /\ pc' = "idle"
  /\ checkpoint' = Origin /\ floor' = 0 /\ cursor' = {}
  /\ page' = {} /\ passed' = {} /\ fresh' = {}

Reached == {checkpoint} \cup {Pos(e) : e \in passed}

\* Mutant: the furthest event that passed is stored even when it lies behind.
SaveFurthest ==
  /\ pc = "saveCheckpoint"
  /\ LET reached == IF passed = {} THEN {checkpoint} ELSE {Pos(e) : e \in passed}
     IN  \E p \in reached : IsLast(p, reached) /\ StoreCheckpoint(p)
  /\ EndCycle
  /\ UNCHANGED <<clock, rows, detectionRows, ledger, scope, lateDetections,
                 lateMarks, lateScopes, ruleset, bounds>>
\* Mutant: nothing is stored when no event passed.
SaveOnlyProgress ==
  /\ pc = "saveCheckpoint"
  /\ IF passed = {} THEN UNCHANGED <<checkpointRow, lateCheckpoints>>
     ELSE \E p \in Reached : IsLast(p, Reached) /\ StoreCheckpoint(p)
  /\ EndCycle
  /\ UNCHANGED <<clock, rows, detectionRows, ledger, scope, lateDetections,
                 lateMarks, lateScopes, ruleset, bounds>>
\* The watermark moves to the furthest event that passed, never back, and the
\* row is written after an empty cycle too. (fetch_backlog_status only reads.)
SaveCheckpoint ==
  /\ pc = "saveCheckpoint"
  /\ \E p \in Reached : IsLast(p, Reached) /\ StoreCheckpoint(p)
  /\ EndCycle
  /\ UNCHANGED <<clock, rows, detectionRows, ledger, scope, lateDetections,
                 lateMarks, lateScopes, ruleset, bounds>>

(***************************************************************************)
(* Failures                                                                *)
(***************************************************************************)
\* The process dies or a store call raises: run_cycle leaves nothing behind.
Abort ==
  /\ pc # "idle" /\ aborts < MaxAborts
  /\ aborts' = aborts + 1
  /\ EndCycle
  /\ UNCHANGED <<clock, tables, late, ruleset, switches>>

\* The rows of two abandoned inserts are told apart by the cycle that ended,
\* whose number orders their updated_at.
AbandonScope(position) ==
  /\ lateScopes' = lateScopes \cup
       {[at |-> aborts + 1, ruleset |-> ruleset,
         row |-> [floor |-> floor, cursor |-> position]]}
  /\ UNCHANGED <<lateDetections, lateMarks, lateCheckpoints>>

AbandonCheckpoint(p) ==
  /\ lateCheckpoints' =
       lateCheckpoints \cup {[at |-> aborts + 1, row |-> CheckpointOf(p)]}
  /\ UNCHANGED <<lateDetections, lateMarks, lateScopes>>

\* The client times out on an insert that the server has yet to apply: any of
\* the six inserts of a cycle.
AbandonInsert ==
  /\ LateWrites /\ aborts < MaxAborts
  /\ \/ pc = "insertScope" /\ AbandonScope({})
     \/ pc = "insertCheckpoint" /\ AbandonCheckpoint(checkpoint)
     \/ /\ pc = "insertDetections" /\ fresh # {}
        /\ lateDetections' = lateDetections \cup fresh
        /\ UNCHANGED <<lateMarks, lateScopes, lateCheckpoints>>
     \/ /\ pc = "markEvaluated" /\ passed # {}
        /\ lateMarks' = lateMarks \cup ({ruleset} \X passed)
        /\ UNCHANGED <<lateDetections, lateScopes, lateCheckpoints>>
     \/ /\ pc = "saveCursor"
        /\ \E e \in page : IsLastOfPage(e, page, cursor) /\ AbandonScope({Pos(e)})
     \/ /\ pc = "saveCheckpoint"
        /\ \E p \in Reached : IsLast(p, Reached) /\ AbandonCheckpoint(p)
  /\ aborts' = aborts + 1
  /\ EndCycle
  /\ UNCHANGED <<clock, tables, ruleset, switches>>

LandDetections ==
  /\ lateDetections # {}
  /\ Insert(lateDetections)
  /\ lateDetections' = {}
  /\ UNCHANGED <<clock, rows, ledger, scope, checkpointRow, lateMarks,
                 lateScopes, lateCheckpoints, ruleset, pc, locals, bounds>>

LandMarks ==
  /\ lateMarks # {}
  /\ ledger' = ledger \cup lateMarks
  /\ lateMarks' = {}
  /\ UNCHANGED <<clock, rows, detectionRows, scope, checkpointRow,
                 lateDetections, lateScopes, lateCheckpoints, ruleset, pc,
                 locals, bounds>>

\* Any abandoned row may land first; the rows older than it stay hidden.
LandScope ==
  /\ \E w \in lateScopes :
        /\ scope' = [scope EXCEPT ![w.ruleset] = {w.row}]
        /\ lateScopes' =
             {v \in lateScopes : v.ruleset # w.ruleset \/ v.at > w.at}
  /\ UNCHANGED <<clock, rows, detectionRows, ledger, checkpointRow,
                 lateDetections, lateMarks, lateCheckpoints, ruleset, pc,
                 locals, bounds>>

LandCheckpoint ==
  /\ \E w \in lateCheckpoints :
        /\ checkpointRow' = {w.row}
        /\ lateCheckpoints' = {v \in lateCheckpoints : v.at > w.at}
  /\ UNCHANGED <<clock, rows, detectionRows, ledger, scope, lateDetections,
                 lateMarks, lateScopes, ruleset, pc, locals, bounds>>

(***************************************************************************)
(* Specification                                                           *)
(***************************************************************************)
Cycle ==
  \/ LoadCheckpoint \/ LoadEvaluationScope \/ LoadLegacyFloor
  \/ InsertScope \/ InsertCheckpoint \/ FetchUnevaluated \/ EvaluatePage
  \/ InsertDetections \/ MarkEvaluated \/ SaveCandidateCursor \/ SaveCheckpoint

Environment ==
  \/ Tick \/ (\E e \in Events : Ingest(e)) \/ (\E r \in Rulesets : SwitchRuleset(r))

Land == LandDetections \/ LandMarks \/ LandScope \/ LandCheckpoint

Failure == Abort \/ AbandonInsert \/ Land

Next == Cycle \/ Environment \/ Failure

Spec == Init /\ [][Next]_vars

\* The run loop calls run_cycle again after every poll or backoff and every
\* store call returns or raises: the engine is never stuck between two calls.
\* Ingestion, time, restarts and failures are owed nothing.
FairSpec == Spec /\ WF_vars(Cycle)

(***************************************************************************)
(* Properties                                                              *)
(***************************************************************************)
Steps == {"idle", "loadScope", "loadLegacy", "insertScope", "insertCheckpoint",
          "fetch", "evaluate", "insertDetections", "markEvaluated",
          "saveCursor", "saveCheckpoint"}
ScopeRow == [floor : Int, cursor : SUBSET Position]
LedgerKeys == Rulesets \X Events
LateScope == [at : Nat, ruleset : Rulesets, row : ScopeRow]
LateCheckpoint == [at : Nat, row : LegacyRow]

\* Every table holds rows of its columns' types, and every local of run_cycle
\* the kind of value the Python code gives it.
TypeOK ==
  /\ clock \in Nat
  /\ rows \in [Events -> SUBSET Nat]
  /\ detectionRows \in [DetectionIds -> Nat]
  /\ ledger \subseteq LedgerKeys
  /\ scope \in [Rulesets -> SUBSET ScopeRow]
  /\ checkpointRow \subseteq LegacyRow
  /\ lateDetections \subseteq DetectionIds
  /\ lateMarks \subseteq LedgerKeys
  /\ lateScopes \subseteq LateScope
  /\ lateCheckpoints \subseteq LateCheckpoint
  /\ ruleset \in Rulesets
  /\ pc \in Steps
  /\ checkpoint \in Position /\ floor \in Int /\ cursor \subseteq Position
  /\ page \subseteq Events /\ passed \subseteq Events
  /\ fresh \subseteq DetectionIds
  /\ aborts \in Nat /\ switches \in Nat

\* "Nothing is marked complete before its detections are safe" (run_cycle): an
\* event in the ledger has every detection its ruleset owes for it, wherever a
\* crash fell and whenever an abandoned insert lands.
LedgerImpliesDetections ==
  \A r \in Rulesets, e \in Events :
     <<r, e>> \in ledger => Candidates(r, {e}) \subseteq Published

\* Replaying a page after a crash between the detection insert and the ledger
\* insert writes no second row under a detection id (existing_detection_ids).
SingleDetectionRow == \A d \in DetectionIds : detectionRows[d] <= 1

\* The enrollment floor of a scope never moves and its row never disappears,
\* across crashes, cursor writes and A -> B -> A ruleset changes. (Of writes
\* that are not late: an abandoned enrollment may land between the scope
\* query of a later cycle and its own enrollment, which then replaces it.)
FloorFixed ==
  [][\A r \in Rulesets : \A old \in scope[r] :
       scope'[r] # {} /\ \A new \in scope'[r] : new.floor = old.floor]_vars

\* The stored watermark never moves back, whichever ruleset writes it. (Of
\* writes that are not late: an abandoned row may land after another ruleset
\* has loaded its checkpoint, and is followed by a lower one.)
CheckpointNeverRegresses ==
  [][\A old \in checkpointRow : \A new \in checkpointRow' : Leq(old, new)]_vars

\* A cycle that completes stores a watermark at or above everything the ledger
\* holds for the ruleset: also what a crashed cycle marked without storing it.
CheckpointHealed ==
  [][(pc = "saveCheckpoint" /\ pc' = "idle" /\ UNCHANGED aborts) =>
       \A e \in Events : <<ruleset, e>> \in ledger =>
          \E row \in checkpointRow' : Leq(Pos(e), row)]_vars

\* A row that becomes visible once a ruleset's scope is enrolled is eligible
\* under it, however old its event_time: lookback is no maximum age.
LaterRowsEligible ==
  [][\A r \in Rulesets : \A s \in scope[r] : \A e \in Events :
       rows'[e] # rows[e] => EligibleFrom(e, s.floor)']_vars

\* The refinement: detections and ledger implement the evaluation contract.
Abstract == INSTANCE EvaluationContract
              WITH published <- Published, completed <- ledger
ImplementsContract == Abstract!Contract

\* What the ledger anti-join leaves for ruleset r: its actual pending work.
Pending(r) == UNION {Unevaluated(r, s.floor) : s \in scope[r]}

\* The floor of r has been replaced by a later one, above e.
Excluded(r, e) == scope[r] # {} /\ ~ \E s \in scope[r] : EligibleFrom(e, s.floor)

\* A pending event that can be evaluated is evaluated, even behind full pages
\* of events that always fail, unless the service changes ruleset first or a
\* late enrollment takes the event out of the backlog.
PendingIsEvaluated ==
  \A r \in Rulesets : \A e \in Events \ Failing[r] :
     (ruleset = r /\ e \in Pending(r)) ~>
        (<<r, e>> \in ledger \/ ruleset # r \/ Excluded(r, e))

\* An event whose evaluation fails is attempted again and again.
FailedIsRetried ==
  \A r \in Rulesets : \A e \in Failing[r] :
     (ruleset = r /\ e \in Pending(r)) ~>
        (e \in page \/ ruleset # r \/ Excluded(r, e))

\* An event that was once pending is evaluated in the end or stays pending as
\* a visible failure: it "is never silently discarded".
NeverSilentlyDiscarded ==
  \A e \in Events :
     (<>(e \in Pending(ruleset))) =>
        []<>( \/ \E r \in Rulesets : <<r, e>> \in ledger
              \/ e \in Pending(ruleset) )
=============================================================================
