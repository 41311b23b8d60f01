------------------------- MODULE CorrelationService -------------------------
(***************************************************************************)
(* The process around the correlation cycle: the run loop, run_cycle over  *)
(* the compiled rules, the enrollment of a scope (ensure_scope) and the    *)
(* integrity preflight (check_scope_integrity), each store call an action. *)
(* The evaluation of a page, which CorrelationEngine models, is one step.  *)
(*                                                                         *)
(* A detection is a physical row in fusion.detections that two             *)
(* materialized views copy to the history and the witness table. The parts *)
(* of one INSERT become visible one after the other, in any order, and an  *)
(* INSERT that fails may leave some of them behind for good.               *)
(*                                                                         *)
(* The durations of sleeps, and merges of the detection tables, are left   *)
(* out; a merge would only make one more snapshot unconfirmed.             *)
(***************************************************************************)
EXTENDS Integers, FiniteSets, FiniteSetsExt

CONSTANTS
  NumRules,    \* compiled rules, one scope each, evaluated in this order
  Rows,        \* physical detection rows
  InputOf,     \* their detection_id
  DetectedAt,  \* their detected_at
  Lookback,    \* settings.lookback_seconds
  BatchSize,   \* settings.batch_size
  MaxTime,     \* bound: the clock
  MaxFaults    \* bound: failed calls and inserts, detached projections, restarts

Rules == 1 .. NumRules
Times == 0 .. MaxTime
Inputs == {InputOf[v] : v \in Rows}

ASSUME ServiceAssumption ==
  /\ NumRules \in Nat \ {0} /\ BatchSize \in Nat \ {0}
  /\ InputOf \in [Rows -> Nat] /\ DetectedAt \in [Rows -> Times]
  /\ Lookback \in Nat /\ MaxTime \in Nat /\ MaxFaults \in Nat

VARIABLES
  now,
  source, history, witness,  \* rows visible in the detection tables
  inserting,      \* the row whose INSERT is in progress, as a set
  ended,          \* rows whose INSERT has ended, complete or not
  attached,       \* the history projection has its contract
  ruleState,      \* [rule, floor]: rows of correlation_rule_state
  confirmations,  \* [rule, floor]: correlation_scope_bootstrap_confirmations_current
  late,           \* rule state rows whose insert the client gave up, and may land
  events,         \* [rule, kind]: rows of correlation_integrity_events
  ledger,         \* [rule, input, observed]: rows of correlation_evaluated_inputs
  pc, rule, floor,  \* next store call, scope and floor of run_rule_cycle
  floors,         \* CorrelationEngine._floors: confirmed floors, as sets
  gaps, parts, verdict,  \* first snapshot, generation before, second snapshot against the first
  faults

detections == <<now, source, history, witness, inserting, ended, attached>>
scopes == <<ruleState, confirmations, late>>
preflight == <<gaps, parts, verdict>>
serviceVars == <<detections, scopes, events, ledger, pc, rule, floor, floors, preflight, faults>>

NoParts == [source |-> {}, history |-> {}, witness |-> {}]
ServiceInit ==
  /\ now = 0
  /\ source = {} /\ history = {} /\ witness = {} /\ inserting = {} /\ ended = {}
  /\ attached = TRUE
  /\ ruleState = {} /\ confirmations = {} /\ late = {} /\ events = {} /\ ledger = {}
  /\ pc = "start" /\ rule = 1 /\ floor = 0 /\ floors = [r \in Rules |-> {}]
  /\ gaps = {} /\ parts = NoParts /\ verdict = "none"
  /\ faults = 0

Fault == faults < MaxFaults /\ faults' = faults + 1

(***************************************************************************)
(* Views and integrity queries                                             *)
(***************************************************************************)
\* correlation_rule_state_current: a state row counts once its confirmation exists.
CurrentFloor(r) == {s.floor : s \in {k \in ruleState \cap confirmations : k.rule = r}}
Raw(r) == {s \in ruleState : s.rule = r}
Blocked(r) == \E e \in events : e.rule = r

Visible == source \cup history \cup witness
Ledgered(r) == {l.input : l \in {k \in ledger : k.rule = r}}
\* Inputs with an observation at or after the floor, and those of the ledger.
Covered(r, from) == {InputOf[v] : v \in {w \in Visible : DetectedAt[w] >= from}} \cup Ledgered(r)
Gaps(r, from) ==
  {g \in [row : Visible, table : {"history", "witness"}] :
     /\ InputOf[g.row] \in Covered(r, from)
     /\ g.row \notin (IF g.table = "history" THEN history ELSE witness)}
Parts == [source |-> source, history |-> history, witness |-> witness]
\* Mutant: the activity of the source table is not looked at.
InsertInProgressNever == FALSE
InsertInProgress == inserting # {}

Observations(i) == {DetectedAt[v] : v \in {w \in history : InputOf[w] = i}}
Canonical(i) == Min(Observations(i))
Mismatches(r) ==
  {l \in ledger : l.rule = r /\ Observations(l.input) # {} /\ l.observed # Canonical(l.input)}

\* Mutant: candidates are bounded by any observation, not by the first.
EligibleByReplay(r, from) ==
  {i \in Inputs \ Ledgered(r) : \E t \in Observations(i) : t >= from}
Eligible(r, from) ==
  {i \in Inputs \ Ledgered(r) : Observations(i) # {} /\ Canonical(i) >= from}

(***************************************************************************)
(* Environment: writers of detections, the operator, the clock, ClickHouse *)
(***************************************************************************)
Engine == <<pc, rule, floor, floors, preflight>>

Tick == /\ now < MaxTime /\ now' = now + 1
        /\ UNCHANGED <<source, history, witness, inserting, ended, attached, scopes, events,
                       ledger, Engine, faults>>

\* The only writer inserts one row at a time; a row may be sent long after the
\* time it carries. Its part of the source table is the first to be visible.
BeginInsert(v) ==
  /\ inserting = {} /\ v \notin ended /\ DetectedAt[v] <= now
  /\ inserting' = {v} /\ source' = source \cup {v}
  /\ UNCHANGED <<now, history, witness, ended, attached, scopes, events, ledger, Engine, faults>>
Publish ==
  /\ \/ attached /\ ~(inserting \subseteq history)
        /\ history' = history \cup inserting /\ UNCHANGED witness
     \/ ~(inserting \subseteq witness)
        /\ witness' = witness \cup inserting /\ UNCHANGED history
  /\ UNCHANGED <<now, source, inserting, ended, attached, scopes, events, ledger, Engine, faults>>
EndInsert ==
  /\ inserting # {} /\ inserting' = {} /\ ended' = ended \cup inserting
  /\ \/ inserting \subseteq witness /\ (attached => inserting \subseteq history)
        /\ UNCHANGED faults
     \/ Fault
  /\ UNCHANGED <<now, source, history, witness, attached, scopes, events, ledger, Engine>>

\* An operator changes the projection, and puts it back.
Detach == attached /\ Fault /\ attached' = FALSE
Attach == ~attached /\ attached' = TRUE /\ UNCHANGED faults
Operate ==
  /\ Detach \/ Attach
  /\ UNCHANGED <<now, source, history, witness, inserting, ended, scopes, events, ledger,
                 Engine>>

\* An insert of rule state that the client gave up lands after all, and a merge
\* keeps one of the rows of a scope: the one written last.
LateStateLands ==
  /\ late # {} /\ late' = {} /\ ruleState' = ruleState \cup late
  /\ UNCHANGED <<detections, confirmations, events, ledger, Engine, faults>>
\* Mutant: the table has no version column.
LastWrittenUnversioned(r) == Raw(r)
LastWritten(r) == {s \in Raw(r) : \A q \in Raw(r) : q.floor <= s.floor}
MergeState(r) ==
  /\ Cardinality(Raw(r)) > 1
  /\ \E s \in LastWritten(r) : ruleState' = (ruleState \ Raw(r)) \cup {s}
  /\ UNCHANGED <<detections, confirmations, late, events, ledger, Engine, faults>>

(***************************************************************************)
(* run_cycle and run_rule_cycle                                            *)
(***************************************************************************)
ForgetSnapshots == gaps' = {} /\ parts' = NoParts /\ verdict' = "none"
\* The statistics of this rule are returned; the next rule's turn, or the end of
\* the cycle: the loop sleeps, drains on or has failed, and is at its top.
NextRule ==
  /\ ForgetSnapshots /\ floor' = 0
  /\ IF rule < NumRules THEN rule' = rule + 1 /\ pc' = "start" ELSE rule' = 1 /\ pc' = "start"
\* Mutant: a blocked scope ends the cycle.
BlockEndsCycle == ForgetSnapshots /\ floor' = 0 /\ rule' = 1 /\ pc' = "start"
\* A blocked scope gives its turn to the next rule.
ReturnBlocked == NextRule

Goto(from, to) == pc = from /\ pc' = to
Here == UNCHANGED <<rule, floor>>

(***************************************************************************)
(* check_scope_integrity                                                   *)
(***************************************************************************)
\* A new event blocks the scope; one that is there already is not repeated.
Persist(kind) == events' = events \cup {[rule |-> rule, kind |-> kind]} /\ ReturnBlocked
\* Blocked for this cycle only.
Transient == UNCHANGED events /\ ReturnBlocked
Continue(to) == pc' = to /\ UNCHANGED <<rule, events, preflight>>

\* Mutant: a persisted block is reconsidered.
StartRuleAnew ==
  /\ pc = "start"
  /\ IF ~attached THEN Persist("contract")
     ELSE /\ Continue("gaps")
          /\ floor' = IF floors[rule] = {} THEN now - Lookback ELSE Min(floors[rule])
  /\ UNCHANGED <<scopes, ledger, floors>>
\* The rule's turn, up to the validation of the projection contracts; only this
\* process writes the events it loads on the way.
StartRule ==
  /\ pc = "start"
  /\ IF Blocked(rule) THEN Transient
     ELSE IF ~attached THEN Persist("contract")
     ELSE /\ Continue("gaps")
          /\ floor' = IF floors[rule] = {} THEN now - Lookback ELSE Min(floors[rule])
  /\ UNCHANGED <<scopes, ledger, floors>>

FindGaps ==
  /\ pc = "gaps" /\ gaps' = Gaps(rule, floor)
  /\ pc' = IF gaps' = {} THEN "mismatch" ELSE "generation"
  /\ Here /\ UNCHANGED <<scopes, events, ledger, floors, parts, verdict>>

GenerationBefore ==
  /\ Goto("generation", "activity") /\ parts' = Parts
  /\ Here /\ UNCHANGED <<scopes, events, ledger, floors, gaps, verdict>>

Activity(from, to) ==
  /\ pc = from
  /\ IF InsertInProgress THEN Transient ELSE Continue(to) /\ Here
  /\ UNCHANGED <<scopes, ledger, floors>>

FindGapsAgain ==
  /\ Goto("again", "activityAgain")
  /\ verdict' = IF Gaps(rule, floor) = {} THEN "closed"
                ELSE IF Gaps(rule, floor) = gaps THEN "stable" ELSE "changed"
  /\ Here /\ UNCHANGED <<scopes, events, ledger, floors, gaps, parts>>

GenerationAfter ==
  /\ pc = "generationAfter"
  /\ IF parts # Parts THEN Transient ELSE Continue("revalidate") /\ Here
  /\ UNCHANGED <<scopes, ledger, floors>>

\* Mutant: a stable gap is never more than transient.
RevalidateTransient ==
  /\ pc = "revalidate"
  /\ IF ~attached THEN Persist("contract")
     ELSE IF verdict = "closed" THEN Continue("mismatch") /\ Here ELSE Transient
  /\ UNCHANGED <<scopes, ledger, floors>>
Revalidate ==
  /\ pc = "revalidate"
  /\ CASE ~attached           -> Persist("contract")
       [] attached /\ verdict = "closed"  -> Continue("mismatch") /\ Here
       [] attached /\ verdict = "changed" -> Transient
       [] attached /\ verdict = "stable"  -> Persist("gap")
  /\ UNCHANGED <<scopes, ledger, floors>>

\* A scope that passes is enrolled before its first page, and then checked again
\* with the floor it was enrolled with.
FindMismatches ==
  /\ pc = "mismatch"
  /\ IF Mismatches(rule) # {} THEN Persist("mismatch")
     ELSE /\ pc' = IF floors[rule] = {} THEN "readState" ELSE "fetch"
          /\ ForgetSnapshots /\ Here /\ UNCHANGED events
  /\ UNCHANGED <<scopes, ledger, floors>>

Uncertainty ==
  CASE pc \in {"start", "revalidate"} -> "contract"
    [] pc = "mismatch" -> "mismatch uncertain"
    [] OTHER -> "coverage uncertain"
\* A query of the proof fails: what cannot be proved blocks.
QueryFails ==
  /\ pc \in {"start", "gaps", "generation", "activity", "again", "activityAgain",
             "generationAfter", "revalidate", "mismatch"}
  /\ pc = "start" => ~Blocked(rule)
  /\ Fault /\ Persist(Uncertainty)
  /\ UNCHANGED <<detections, scopes, ledger, floors>>

Preflight ==
  \/ StartRule \/ FindGaps \/ GenerationBefore
  \/ Activity("activity", "again") \/ FindGapsAgain
  \/ Activity("activityAgain", "generationAfter") \/ GenerationAfter
  \/ Revalidate \/ FindMismatches

(***************************************************************************)
(* ensure_scope                                                            *)
(***************************************************************************)
\* Two rows of one bootstrap token contradict each other.
Conflicted(r) == Cardinality(Raw(r)) > 1
Enrolled(f) == floors' = [floors EXCEPT ![rule] = {f}] /\ floor' = f /\ pc' = "start"

\* The floor of a row that is there wins over the requested one.
ReadState ==
  /\ pc = "readState" /\ ~Conflicted(rule)
  /\ \/ Raw(rule) = {} /\ pc' = "insertState" /\ UNCHANGED <<floor, floors>>
     \/ \E s \in Raw(rule) :
          IF CurrentFloor(rule) # {} THEN Enrolled(s.floor)
          ELSE pc' = "confirm" /\ floor' = s.floor /\ UNCHANGED floors
  /\ UNCHANGED <<scopes, events, ledger, rule, preflight>>

InsertState ==
  /\ Goto("insertState", "confirm")
  /\ ruleState' = ruleState \cup {[rule |-> rule, floor |-> floor]}
  /\ Here /\ UNCHANGED <<confirmations, late, events, ledger, floors, preflight>>

\* Mutant: the read back of the state row counts as its confirmation.
ConfirmByReadBack ==
  /\ pc = "confirm" /\ [rule |-> rule, floor |-> floor] \in ruleState
  /\ Enrolled(floor)
  /\ UNCHANGED <<scopes, events, ledger, rule, preflight>>
\* The state is read back first.
Confirm ==
  /\ pc = "confirm" /\ [rule |-> rule, floor |-> floor] \in ruleState
  /\ confirmations' = {c \in confirmations : c.rule # rule} \cup {[rule |-> rule, floor |-> floor]}
  /\ Enrolled(floor)
  /\ UNCHANGED <<ruleState, late, events, ledger, rule, preflight>>

EnsureScope == ReadState \/ InsertState \/ Confirm

(***************************************************************************)
(* The page, and the run loop                                              *)
(***************************************************************************)
\* A page is some of the eligible inputs: CorrelationEngine says which, and what
\* becomes of each. All of them are in the ledger at its end.
EvaluatePage ==
  /\ pc = "fetch"
  /\ LET E == Eligible(rule, floor)
     IN  \E P \in {Q \in SUBSET E : Cardinality(Q) = Min({BatchSize, Cardinality(E)})} :
           ledger' = ledger \cup
             {[rule |-> rule, input |-> i, observed |-> Canonical(i)] : i \in P}
  /\ NextRule
  /\ UNCHANGED <<scopes, events, floors>>

\* An exception leaves run_cycle: no rule after this one has its turn, and the
\* loop backs off.
Abort == ForgetSnapshots /\ floor' = 0 /\ rule' = 1 /\ pc' = "start"
\* The bootstrap rows contradict each other, or the row to confirm is not there.
Contradicted ==
  IF pc = "readState" THEN Conflicted(rule)
  ELSE pc = "confirm" /\ [rule |-> rule, floor |-> floor] \notin ruleState
RaiseConflict == Contradicted /\ Abort /\ UNCHANGED <<scopes, events, ledger, floors>>
\* A call fails; the insert of a state row may still land later.
CallFails ==
  /\ Fault /\ Abort
  /\ \/ UNCHANGED late
     \/ pc = "insertState" /\ late = {} /\ late' = {[rule |-> rule, floor |-> floor]}
  /\ UNCHANGED <<detections, ruleState, confirmations, events, ledger, floors>>

Advance ==
  /\ Preflight \/ EnsureScope \/ EvaluatePage \/ RaiseConflict
  /\ UNCHANGED <<detections, faults>>

\* The process stops anywhere and starts again, without its cached floors.
Restart ==
  /\ Fault
  /\ ForgetSnapshots /\ floor' = 0 /\ rule' = 1 /\ pc' = "start"
  /\ floors' = [r \in Rules |-> {}]
  /\ UNCHANGED <<detections, scopes, events, ledger>>

Environment ==
  Tick \/ (\E v \in Rows : BeginInsert(v)) \/ Publish \/ EndInsert \/ Operate
       \/ LateStateLands \/ (\E r \in Rules : MergeState(r))
ServiceNext == Environment \/ Advance \/ QueryFails \/ CallFails \/ Restart
ServiceSpec == ServiceInit /\ [][ServiceNext]_serviceVars

\* The loop has a next step until it ends; an INSERT goes on or fails.
FairService ==
  ServiceSpec /\ WF_serviceVars(Advance) /\ WF_serviceVars(Publish \/ EndInsert)

(***************************************************************************)
(* Properties                                                              *)
(***************************************************************************)
Kinds == {"contract", "gap", "mismatch", "coverage uncertain", "mismatch uncertain"}
State == [rule : Rules, floor : -Lookback .. MaxTime]
ServiceSteps ==
  {"start", "gaps", "generation", "activity", "again",
   "activityAgain", "generationAfter", "revalidate", "mismatch", "readState", "insertState",
   "confirm", "fetch"}

\* Tables, locals and bounds keep their types, and a cached floor is a confirmed one.
ServiceTypeOK ==
  /\ now \in Times /\ attached \in BOOLEAN
  /\ Visible \subseteq inserting \cup ended /\ inserting \cap ended = {}
  /\ inserting \cup ended \subseteq Rows /\ Cardinality(inserting) <= 1
  /\ ruleState \subseteq State /\ confirmations \subseteq State /\ late \subseteq State
  /\ events \subseteq [rule : Rules, kind : Kinds]
  /\ ledger \subseteq [rule : Rules, input : Inputs, observed : Times]
  /\ pc \in ServiceSteps /\ rule \in Rules /\ floor \in -Lookback .. MaxTime
  /\ \A r \in Rules : floors[r] \subseteq {c.floor : c \in {k \in confirmations : k.rule = r}}
  /\ gaps \subseteq [row : Rows, table : {"history", "witness"}]
  /\ verdict \in {"none", "closed", "changed", "stable"}
  /\ faults \in 0 .. MaxFaults

\* Nothing is polled or evaluated for a scope whose bootstrap is not confirmed,
\* nor an input observed before the floor of the scope
\* (docs/v06-acceptance-plan.md:95, :145).
NoPollingBeforeConfirmation ==
  /\ pc = "fetch" => floor \in CurrentFloor(rule)
  /\ \A l \in ledger : \E f \in CurrentFloor(l.rule) : l.observed >= f

\* The visible floor of a scope never changes, whichever process enrolls it, at
\* whatever time, and whatever an insert that was given up leaves behind
\* (docs/v06-architecture.md:117).
FloorIsFixed ==
  [][\A r \in Rules : CurrentFloor(r) # {} => CurrentFloor(r)' = CurrentFloor(r)]_serviceVars

\* An INSERT that is still becoming visible is never persisted as a gap: there is
\* a row that will lack a projection for ever, or an observation that moved
\* (clickhouse.py, check_scope_integrity: "a false sticky operator fault").
Torn == (ended \cap Visible) \ (history \cap witness)
BlockIsJustified ==
  \A e \in events :
    /\ e.kind = "gap" => Torn # {}
    /\ e.kind = "mismatch" => Mismatches(e.rule) # {}

\* After an event is persisted for a scope nothing is enrolled or evaluated for
\* it, however often the process restarts and whatever is repaired.
BlockedScopeIsFrozen ==
  [][\A r \in Rules : Blocked(r) =>
        /\ Ledgered(r)' = Ledgered(r)
        /\ {c \in confirmations' : c.rule = r} = {c \in confirmations : c.rule = r}]_serviceVars

\* A scope whose bootstrap rows conflict ends every cycle at its turn.
OutOfService == \E r \in Rules : Conflicted(r)
\* A block is scoped: as long as the loop runs, an input that a scope should
\* evaluate is evaluated, or that scope is blocked itself
\* (tests/test_runtime_engine_acceptance.py:2218).
OtherScopesAreServed ==
  \A r \in Rules, i \in Inputs :
    (\E f \in CurrentFloor(r) : i \in Eligible(r, f)) ~>
      (OutOfService \/ Blocked(r) \/ \A f \in CurrentFloor(r) : i \notin Eligible(r, f))

\* A row that lacks a projection for good, and an observation that moved under
\* the ledger, block the enrolled scopes they belong to.
Harmed(r) ==
  \/ Mismatches(r) # {}
  \/ \E v \in Torn, f \in CurrentFloor(r) : InputOf[v] \in Covered(r, f)
HarmBlocks == \A r \in Rules : Harmed(r) ~> (OutOfService \/ Blocked(r))
=============================================================================
