# Fusion Open: a verification project

TLA+ modules for the two engines of Fusion Open, the TLC runs that check them
on small instances, and TLAPS proofs about both engines, the incident lifecycle
and the scope service for every instance. Paths are relative to the repository;
`src/` in PROJECT.json is its root.

    tlc -config MCDetectionCrash.cfg MCDetectionEngine     # a run
    tlapm IncidentLifecycle_proofs.tla                     # the proofs of a module

## 1. The system

Events flow from agents and network sensors through Vector into ClickHouse.
The **detection engine** polls `fusion.sysmon_events`, evaluates Sigma rules and
writes `fusion.detections`. The **correlation engine** polls detections and
events, evaluates threshold, sequence and join rules and writes incidents with
their evidence. Dashboards read serving views. Nothing passes between the
engines but tables, and no ClickHouse transaction spans two inserts: every
guarantee is built from the order of inserts, deterministic identities,
anti-joins with ledgers, and views that hide what no ledger confirms.

| Component | State it keeps | Operations | What makes it correct | Hard because of |
| --- | --- | --- | --- | --- |
| Detection engine cycle (`checkpoint.py`, `clickhouse.py`, `main.py`) | ledger, scope rows (floor, cursor), checkpoint row | `run_cycle` and its store calls | nothing is ledgered before its detections; one row per detection id; floors fixed; watermark never back; nothing starved | crash between inserts, abandoned inserts that land later, late rows, A -> B -> A rulesets, clock skew |
| Detection rules (`compiler.py`, `evaluator.py`) | none | compile, evaluate | a rule matches what its condition says | condition language |
| Correlation cycle (`engine.py`, `clickhouse.py`) | evaluated inputs, incidents, links, episode states, schedule | `run_rule_cycle`, `_persist_effects`, `mark_evaluated` | replay converges; readers see whole decisions; every input is evaluated | five inserts per decision, provisional rows, inputs that arrive between a stop and its replay |
| Threshold / sequence / join evaluation (`evaluator.py`, `incident.py`) | none; reads episodes, incidents, links | `evaluate` | one owner per match, no evidence lost or used twice to qualify | order of arrival, boundaries, lateness |
| Incident lifecycle (`transition_incident`, `control.py`) | lifecycle revisions, audit rows, mutation lock | acknowledge and close, over a socket | one audit row per transition; no lost update | a second thread; stop between revision and audit |
| Scope bootstrap, integrity gate (`ensure_scope`, `check_scope_integrity`) | rule state, bootstrap confirmations, integrity events | enroll, check, block | one floor per scope; no work while blocked | several inserts; a source insert in progress while it is checked |
| Run loops (`main.py` of both) | backoff, drain counter | poll, drain, back off, stop | every cycle is followed by another until stopped | failures inside a drain |
| Schema and views (`clickhouse/`) | the tables | views over ledgers | join the ledger first, rank after | the order inside a view |
| Vector (`vector/vector.yaml`) | disk buffers | transform, deliver at least once | no event lost over a restart | redelivery |
| Agents, Suricata, scripts, dashboards, rules, samples | none of their own | installation, collection, queries | | |

PROJECT.json lists every component with its status, and every hazard with the
line where it bites and the properties that would catch it.

## 2. Modules

| Module | Models | Checked by |
| --- | --- | --- |
| `EvaluationContract` | what readers of detections and ledger rely on | refined by `DetectionEngine` |
| `DetectionEngine` | one detection engine over its tables | `MCDetectionEngine`, `DetectionEngine_proofs` |
| `IncidentContract` | what readers of incidents rely on | refined by `CorrelationEngine` |
| `RuleEvaluation` | `evaluate` for threshold, sequence and join rules, as operators | through `CorrelationEngine`, `RuleEvaluation_proofs` |
| `CorrelationEngine` | one correlation engine over its tables, for one scope and group | `MCCorrelationEngine`, `CorrelationEngine_proofs`, `CorrelationEvidence_proofs`, `CorrelationCompleteness_proofs` |
| `IncidentLifecycle` | the control thread and its clients beside `CorrelationEngine`, which it extends | `MCIncidentLifecycle`, `IncidentLifecycle_proofs` |
| `CorrelationService` | the run loop over several scopes, `ensure_scope` and `check_scope_integrity` | `MCCorrelationService`, `CorrelationService_proofs` |
| `FiniteExtrema` | no code: least and greatest members of finite sets of integers | lemmas for the proof modules |

The proof modules extend each other as the modules do:
`FiniteExtrema` <- `RuleEvaluation_proofs` <- `CorrelationEngine_proofs` <-
`CorrelationEvidence_proofs` <- `CorrelationCompleteness_proofs` and
`IncidentLifecycle_proofs`.

An operator whose comment says *Mutant* is a plausible bug. No specification
uses one; each is there to show that the properties notice it.

### Detection engine

`run_cycle` is a program counter over its store calls, one action each:
`LoadCheckpoint`, `LoadEvaluationScope`, `LoadLegacyFloor`, `InsertScope`,
`InsertCheckpoint`, `FetchUnevaluated`, `EvaluatePage`, `InsertDetections`,
`MarkEvaluated`, `SaveCandidateCursor`, `SaveCheckpoint`. Between any two of
them a row can be ingested (again, late, behind every cursor), the clock can
tick, and the cycle can end: `Abort` is an exception or a crash, which leave the
same state because the engine remembers nothing between cycles;
`SwitchRuleset` is a restart under another ruleset. `AbandonInsert` is an insert
the client gave up on (`send_receive_timeout`), any of the six of a cycle, which
`LandDetections`, `LandMarks`, `LandScope` and `LandCheckpoint` may apply at any
later time, after its retry too.

Tables read with FINAL are the rows FINAL returns. Scope and checkpoint rows are
ordered by an `updated_at` the model takes to grow: an abandoned row is dropped
when a newer one is stored, and two abandoned rows are ordered by the number of the
cycle they end (`at`). `Matches` and `Failing` are
constants: what the rules do to an event is data here. A detection identity is
the rule id and the event uid, as the code hashes it, without the ruleset.

### Correlation engine

One rule scope and one group: inputs of other groups meet neither in a context
nor in an episode nor in an incident. The scope is enrolled, its integrity
preflight passes, and all inputs lie after its floor (`CorrelationService` has
the rest). Inputs are numbered by their order key, and a hashed identity is the
input it is derived from: an incident is its anchor, an episode its earliest
member when it was opened, a token its candidate. An invalid input (conflicting
rows) is invalid from the start: a ledgered input whose rows begin to conflict
later is fetched again by the code (`_unevaluated_or_new_conflict_sql`), and not
here. The rule is the variable `condition`, chosen at
the start and constant, so that one run covers a threshold, a sequence and a join.

`FetchCandidates` reads the cursor and a page; `EvaluateCandidate` takes the next
one, loads what the code loads (a cached or new context window, the confirmed
episode states and those left by the same token, the confirmed incidents and
links, the raw incident rows) and decides. A decision with effects is persisted
before the next candidate is looked at: `WriteIncident`, `WriteDetectionLinks`,
`WriteEventLinks`, `WriteEpisodeState`, `MarkEvaluated`. A write that finds
contradicting rows is a `PersistenceConflict`: the candidate stays unledgered and
its rows stay provisional. `MarkStateless` ledgers the others of the page,
`SaveSchedule` the cursor. `Crash` is a stop, or an exception that leaves the
cycle, at any of these points.

The views are operators: `CurrentIncidents` and `CurrentEpisodes` join the ledger
(the audits, for a revision of a transition), then rank; `Linked` is the confirmed
membership. The read-back of `confirm_decision` and the backlog query only read,
and without late writes always succeed; they belong to the call after them. The
page's snapshot of episode states is dropped by each write of episode states, so
reading the table is the same.

`RuleEvaluation` follows `evaluate`: the matches that hold the candidate
(`Matches`), the owner each could join and whether it may (`Attachable`,
`Admissible`), the one preferred, and then `MatchDecision`, nothing
(`OutsideBoundary`), or `PartialDecision`. `Satisfying` says which sets fill the
stages of the rule: a threshold is one stage; a sequence is filled in strict order
of time, so its set determines the stages (`StageOf`); a join needs an input of
its own for each stage, and its relations, which compare field values, are the
constant `Joinable`. In an ownership join (`derived`) the group comes from the
relation, further ownership events are related evidence, and there is no partial
episode. A sequence remembers its longest canonical prefix (`Prefix`).

Ties are broken by text that has nothing to do with time. Of two matches with the
same owner, and of two prefixes, the code takes the one whose list of tagged ids is
lexically first (`Canonical`); of two owners at the same distance the one with the
smaller hash for an incident id, then for an episode id (`FirstNamed`). These orders
belong to the rule, since the hashes depend on it: `condition.tags`, `.incidents` and
`.episodes` are any orders of the inputs. Only inputs of one instant have their tags
in the order of their numbers (`TagsAssumption`), because the order key ends with
the tag. `Rejected` are the sets of members `build_incident` refuses: without a
detection, with more than 256 members, or with more than 32768 bytes of evidence.
An invalid candidate is evaluated without a context window, as in
`_evaluate_candidate`.

`min_distinct` is a count of distinct inputs. The bound on the combinations a
search may try is left out: the model finds every match. So is the scan limit of
`fetch_candidates` (`clickhouse.py:1886`), an error that ends the cycle of a rule
with more than `context_limit` candidate events.

`Takes` is the rule of late evidence: observed until the deadline, and, in a closed
incident, occurred before the closure. A closure comes from `IncidentLifecycle`.

`IncidentContract` has no tables, tokens or views: an input is decided in one
step, and the incident it opens or adds to becomes visible with its evidence.

### Lifecycle of incidents

`IncidentLifecycle` extends `CorrelationEngine` by the second thread of the
process. A client connects (`Ask`), its request waits in the backlog of the socket,
and the control thread accepts it when it gets the lock, which the engine holds for
a whole `run_cycle` (`LockIsFree`: the engine is between cycles). `Accept` is all
`transition_incident` reads: an earlier use of the transition id (`Resume`), the
visible incident, the table of allowed transitions. `InsertRevision` and
`WriteAudit` are the two inserts; the revision is visible when the audit row names
it. `Reply` sends the answer. A store call, and the probe of the integrity state
before a transition (which only reads), may fail: `Fail`, and the second disjunct
of `Accept`. `GiveUp` is the client's timeout, `Stop` a stop of the process, which
ends both threads and all connections; `Crash` is an exception that ends a cycle.
A client that has no final answer asks again with the same id. The stop of the
control server at the end of the process, and requests that are not well formed,
are left out.

### Scopes and the integrity gate

`CorrelationService` is the run loop over `NumRules` scopes. Each turn of a scope
is `check_scope_integrity` call by call (`StartRule`, `FindGaps`,
`GenerationBefore`, `Activity`, `FindGapsAgain`, `Activity`, `GenerationAfter`,
`Revalidate`, `FindMismatches`), for a scope without a cached floor then
`ensure_scope` (`ReadState`, `InsertState`, `Confirm`) and the check again with the
confirmed floor, and the page. `EvaluatePage` is what `CorrelationEngine` models,
as one step that ledgers the page with the observation times it was read with.

A detection is a row of three tables. An INSERT makes it visible in the source
first and in the history and the witness after it, in any order (`Publish`);
one that fails leaves what was visible (`EndInsert`). An operator may detach the
history projection and put it back; rows inserted in between never reach it. The
contract of a projection, its columns, keys and query, is this one flag. A
detection may have several rows with different `detected_at`, of which the earliest
is its observation time. Rows of the rule state carry their floor for `updated_at`,
which the code takes from the same clock: a merge keeps the later one.

`Persist` writes an event, which blocks the scope for good, and `Transient` blocks
it for one turn. A proof query that fails is persisted as uncertainty
(`QueryFails`), as the tests of the repository expect; any other failed call leaves
the cycle (`CallFails`), and its insert may land later (`LateStateLands`). A late
insert is modelled for the rule state alone: a confirmation or an integrity event
that lands late repeats what its retry wrote, or what still has to be written.
`Restart` forgets the cached floors. Sleeps, the backoff, the drain counter and
`--once` are left out; a loop that was stopped is one that takes no more steps.

## 3. Runs

| Run | Question | Result |
| --- | --- | --- |
| `detection_crash_replay` | stops at every call, redelivery, skew, an upgraded deployment, A -> B -> A; no late writes | single rows, fixed floors, a watermark that only moves forward and is healed |
| `detection_late_writes` | any insert of a cycle abandoned and applied at any later time, pages full of events that always fail | the ledger never runs ahead: the contract is implemented; the other events are evaluated and the failing ones retried, unless a late enrollment moves the floor above them |
| `correlation_crash_replay` | a threshold or a sequence whose ties prefer later inputs; two stops anywhere, arrivals in any order between cycles that leave nothing provisional, a conflicted input | replay converges; readers see whole decisions, which only grow; the backlog empties unless the name of an episode is taken |
| `correlation_arrivals` | a threshold, a sequence of three stages, an ownership join; arrivals at any point, an input too late for the interval it opens and one too late for some, a stop that leaves nothing provisional | revisions are written once and intervals fixed; incidents are opened by what satisfies the rule; no input qualifies two that have an episode state; no match goes unnoticed; a threshold keeps what is in time |
| `incident_lifecycle` | an acknowledgement and a closure beside the engine, with a fault and a stop anywhere | one audit per transition, which tells the visible history; success is visible and final; deadlines do not slide; a closed incident takes no later evidence; an unaudited transition is repaired while the control thread lives |
| `correlation_service` | two scopes, an input observed twice, INSERTs that publish part by part, one fault | floors are confirmed first and fixed; an INSERT in progress is never taken for a gap; a lasting gap blocks; a block is for good and for its scope only |

Six of the repository's statements do not hold of the code, each with a run that
finds a trace (`expect: violation`):

| Run | What happens |
| --- | --- |
| `detection_discard` | an event that failed under one ruleset falls below the floor of the ruleset that corrects it |
| `correlation_wedged` | another input becomes visible between a stop and its replay; the replayed revision conflicts with the row left behind, at every retry |
| `correlation_late_neighbor` | no stop at all: an episode's interval starts at an input too late to be its member, and a later match takes the episode's identity and revision |
| `correlation_starved` | the cursor is never older than the last ledgered input, so a page of failing inputs before it is read for ever |
| `correlation_shared_overlap` | two overlapping incidents share evidence; every match of a further input, in time for both, holds evidence of one that is not its owner, and the input becomes evidence of neither |
| `lifecycle_unserved` | the answer to a client that has given up ends the control thread, so that no retry repairs a transition left without its audit |

Evidence may be shared: two incidents with overlapping intervals may both hold
an input that lies in both, as long as it qualifies only one of them. The code
means it (`eligible_member`), `IncidentContract` says it, and
`docs/v06-architecture.md` ("owned inputs are not reused") is to be read of
qualifying inputs.

The price of sharing is `correlation_shared_overlap`, and it bounds
`TimelyEvidenceIsKept`: that property speaks of thresholds, and of inputs around
which no incident was opened by evidence another one holds. It is not enough that
the incidents *around the input* share nothing. With a threshold of two and inputs
1 and 2 at one instant and 3, 4 and 5 one, two and three units later, 3 and 4 open an
incident, then 1 and 2 open another, whose members 3 and 4 are too; input 5 lies in
the interval of the first incident only, but each match it completes there holds
evidence of the other, and it is evidence of neither. In a sequence an input that
lies inside the interval of an incident is a member if it is evaluated before the
match that opens it, and may be dropped if it is evaluated after, because it
completes no match of its own; `docs/v06-correlation-model.md:211` ("Changing observation or processing
order never changes membership") is to be read of the inputs that qualify.
`NoMissedMatch` leaves out matches one of whose inputs lies in the interval of an
incident that one of them is too late for. The code keeps such a *candidate* from
seeding another incident (`OutsideBoundary`, lines 223 and 224 of that document),
but looks only at the candidate (`evaluator.py:926`): a match completed by another
input may still hold the late one, which is listed as a hazard.

The passing runs of `CorrelationEngine` are two because each restricts the
environment (`ArriveAnytime`, `CrashAnytime`) where the code keeps its promise.
`correlation_wedged` shows that the restriction is needed: a stop that leaves rows
behind and an arrival before the replay break convergence. `TypeOK`, `WrittenOnce`,
`EpisodeIntervalFixed` and `QualifyingSatisfiesRule` need no restriction; they are
proved without one (section 4).

Two statements are weaker in the runs than the documentation makes them, for one
reason: an episode may find its name taken (`NameIsTaken`) after its incident was
written, without any stop.

- *The backlog empties* (`InputsAreLedgeredUnlessNamed`). A partial episode is named
  by its earliest member, and a match that takes the episode over keeps the name
  without holding that input. In `correlation_crash_replay`, input 1 is alone at
  first; 4 arrives, then 3, which ties {1,3} with {3,4}. If the tags prefer {3,4},
  that match takes over the episode named by 1; when 2 arrives, {1,2} names it again,
  at revision 1, and input 2 conflicts at every retry. `correlation_late_neighbor`
  is another way to the same end; its input stays out for ever.
- *No input opens two incidents* (`docs/v06-correlation-model.md:223`,
  `OneQualification`). The incident such a conflict leaves behind has a row and links
  but no episode state, so that nothing owns its evidence. If its input joins another
  incident later and is ledgered, the rows left behind become visible, and what
  opened them may open both. With a window of two, a lateness of one, a threshold of
  two and inputs 1 (observed far too late), 2, 3 and 4 at the instants 0, 1, 3 and 4:
  input 3 conflicts and leaves {2,3} behind, 4 opens {3,4}, the retry of 3 joins that
  one, and 3 has opened two. `correlation_arrivals` therefore checks
  `EpisodesQualifyOnce`: of the incidents that have an episode state, no two share
  what opened them. Without rows left behind the full statement is the theorem
  `InputsQualifyOnce`.

`FloorFixed` and `CheckpointNeverRegresses` are checked without late writes, and are
false with them. An abandoned enrollment may land between `LoadEvaluationScope` and
the `InsertScope` of a later cycle, which replaces its floor by a later one. An
abandoned checkpoint row of one ruleset may land after another has loaded its
checkpoint, and is followed by a lower one. `PendingIsEvaluated` and
`FailedIsRetried`, which are checked with late writes, except an event that such an
enrollment takes out of the backlog (`Excluded`).

What `correlation_service` does not promise: a scope whose bootstrap rows have
different floors raises in every cycle and ends it for the scopes after it until a
merge removes one of the rows (`OutOfService`), which takes an insert that lands
after its retry. With two such inserts before the confirmation, a merge may also
leave another floor than the confirmed one.

### Bounds

Detection: two events, two rulesets, two rules. Ruleset A fails on an
event B corrects, and a page of one event is full of it. In `detection_crash_replay`
and `detection_discard` the event times are two apart and the lookback one, so that
a floor can lie between. Two switches are the fewest for A -> B -> A, and two
physical rows the fewest for a redelivery. `detection_late_writes` has pages of one
event, two abandoned inserts or stops, so that two late rows of the same table can
land in either order, and one switch of the ruleset.

Correlation: two inputs open an incident. Four inputs one unit apart and a window of
two units give two overlapping intervals, an input owned by a neighbour, matches
completed from both ends and by the middle, and an episode that changes owner.
Both passing runs have a fifth input at the instant of the fourth: conflicted in
`correlation_crash_replay`; in `correlation_arrivals` too late for an episode that
starts at input 1 and, at its deadline, in time for one that starts at 2. Input 1 is
there too late for the interval it opens, which is what makes episode names collide.
For two incidents that share evidence, two inputs at one instant and three at the
next (`MCOccurredTwice`) are the fewest. The orders of identities prefer later
inputs to earlier ones in some pairs and not in others (`MCByHash`, `MCByKind`: the
tags of events come after those of detections, as in the code); the violation runs and
the lifecycle keep the order of time (`MCByTime`). A page of two and one cached context make a page that spans a
persisted decision and an eviction; a page of three and two cached contexts, in
`correlation_arrivals`, one on which a context that was read before a decision is
used again after it. Input 2 is an event, so that every incident that
holds it has links in both tables; in `correlation_arrivals` inputs 4 and 5 are, and
a set of both has no detection and is refused (`Rejected`). Two stops let a replay be stopped itself.
The sequence of two stages shares inputs between its stages, so that an order of
arrival decides which fills which; the one of three stages has a prefix of two and a last
stage that several inputs can fill; the join has two ownership events for one alert.

Lifecycle: three inputs, of which two open an incident and the third occurs after
it can have been closed and before the deadline of the closure. An acknowledgement
and a closure with ids of their own, one stop and one fault (a failed call, a
refusal, or a client that gives up) are the fewest for a transition that is cut
short, repaired, and overtaken by another. The backlog of the socket has two places.

Service: two scopes, so that one can be blocked before the other's turn; one input
with two rows, the earlier of which may be inserted last, so that its observation
moves under the ledger; a clock of two instants, so that a retry asks for another
floor; one fault of any kind (`MaxFaults`), anywhere. Environment steps cease, so
the run does not check deadlock.

### Fairness

The detection run loop calls `run_cycle` again after success and after failure,
and store calls return or raise: `WF_vars(Cycle)`. Ingestion, time, restarts and
failures are owed nothing; stops are bounded by `MaxAborts`. The correlation loop
is the same. Some step of its cycle is possible in every state and a page has
finitely many candidates, so weak fairness of `Cycle` is that its program counter
moves on for ever. `FairSpec` says that of `pc` alone (`WF_pc(Proceed)`), which
spares TLC a whole decision whenever it evaluates ENABLED; stops, the only other
steps that move `pc`, are bounded by `MaxCrashes`.

The lifecycle adds: the control thread goes on under the lock (store calls return or
raise) and gets the lock in the end. The lock is free again and again, between two
cycles, so this is strong fairness of the acceptance of a waiting connection; Python
makes no promise about lock order, but the engine sleeps outside the lock whenever
it has no full page, and at the latest after `max_consecutive_drain_cycles`. An
administrator repeats a request until it has a final answer, which is how
`docs/v06-incident-model.md:177` has an unaudited transition repaired. Arrivals, first requests, faults and stops are
owed nothing. In the service the loop takes its next step, and an INSERT goes on or
fails.

## 4. Proofs

The theorems hold for any inputs, rules, bounds and numbers of stops, faults,
requests and scopes; a hypothesis, where one is needed, is named in the theorem.
Assumptions on constants are those the modules name (`...Assumption`): inputs and
events are numbered in the order of the code's keys, times are naturals, a page is
not empty, a rule has stages with positive counts, and more than one of them if it
is a sequence or a join, and identities have an order in which no two are equal, which
for tags agrees with the order of the inputs at one instant. They hold for the code: keys are total orders, `Settings`
bounds the sizes below by one, the rule compilers reject other rules. TLC evaluates
each of them in every run. No definition of the model is recursive: what the proofs
need of finite sets (a first element, the size of a stage) comes from the library's
theorems on cardinality and on the well-founded order of finite subsets.

### Detection engine (`DetectionEngine_proofs`)

| Theorem | Argument |
| --- | --- |
| `TypeCorrect` | `TypeOK` is inductive |
| `LedgerSafe` | `ContractInv`: what is in the ledger, in an abandoned mark or about to be marked can be evaluated and has its candidates published. `LedgerImpliesDetections` alone says nothing of the locals between the two inserts or of marks still to land, so it is not inductive |
| `ContractImplemented` | from the same invariant, a step maps to `Publish`, `Complete` or a stutter |
| `FloorNeverMoves` | if no insert lands late (`NothingLate`), `FloorInv`: a scope has one floor, and from the moment its row is known the local floor is the stored one; the cursor insert writes the local |
| `WatermarkForward` | under the same condition, `WatermarkInv`: within a cycle no stored row is above the loaded checkpoint, and what is stored is at or above it |
| `LaterRowsStayEligible` | under `SkewWithinLookback`, `PastInv`: no watermark, stored or abandoned, runs ahead of the clock by more than the skew, so no floor is in the future. Without the condition one can be: an event stamped further ahead than the lookback moves the floor of the next ruleset past rows that arrive later |
| `OneRowPerDetection` | if no insert lands late, `OnTimeInv`: what a page is about to insert is not published. With `LateWrites` it is false: an insert the client gave up on may land after its retry, which is why readers go by the identity and not by the row |
| `WatermarkIsHealed` | under the same condition, `MarkedInv`: what the ledger holds of the running ruleset is below the loaded checkpoint or was passed in this cycle. A late mark may land above the checkpoint after it was loaded |

### Correlation engine (`RuleEvaluation_proofs`, `CorrelationEngine_proofs`)

Nothing is assumed about arrivals and stops here: both may come between any two
store calls, and any number of attempts may have left rows behind.

| Theorem | Argument |
| --- | --- |
| `EngineInvariant` | the inductive invariant of the next three, `EngineInv`. A page is split into what is still to evaluate, what had no effects and the candidate at hand; a decision stays `Sound` from the moment it is made to the last of its writes: its first revision is a first one, a later one follows a *visible* row, which stays visible whatever arrives |
| `TypeCorrect` | the decision of an evaluation has the types of the tables for every context, episode states and rows it can be given (`EvaluationFollows`) |
| `RevisionsAreWrittenOnce` | each write compares with what is there; event links are inserted without a second comparison, so `LinksWereCompared` is part of the invariant |
| `IntervalsAreFixed` | a revision is served only directly after the one that was (`OneRevisionAtATime`), and keeps its interval and incident |
| `OpenedAsTheRuleAsks` | what opens an incident fills the stages of the rule: the ranks of its inputs partition it into stages (`StagesPartition`), a join has one input for each (`JoinFulfils`), and a later revision takes over what opened the incident instead of what it matched |
| `EvidenceOnlyGrows` | `IncidentsOnlyGrow` from `SnapshotMatchesLinks`: a decision keeps the linked members, which are then those of the revision it follows |

### Evidence (`CorrelationEvidence_proofs`)

Under `[]NothingIsLeftBehind`: outside the persistence of a decision no row is
provisional. Arrivals stay free, and stops too, as long as they cut no decision
short. This is a hypothesis and not a restriction of constants because a
persistence conflict leaves rows behind without any stop (`correlation_late_neighbor`).

| Theorem | Argument |
| --- | --- |
| `EvidenceInvariant` | `EvidenceInv`: provisional rows are the ones written of the decision at hand (`Clean`); cached contexts lie in the window of their instant; and the decision at hand ignores what is visible, opens one incident of inputs no visible one holds, or adds to one what the interval, the deadline and the closure admit (`FollowsVisible`). Because all of it becomes visible in one insert into the ledger, incidents, links and episodes agree before and after it (`Coherent`) |
| `SnapshotsMatchLinks`, `EpisodesMatchIncidents`, `InputsQualifyOnce` | read off the invariant. None is inductive: each follows from what the next decision was built on, hence from the others |
| `VisibleIncidentsOnlyGrow` | the hypothesis of `EvidenceOnlyGrows` is discharged |
| `EngineImplementsContract` | every step is a step of `IncidentContract` or a stutter: the insert into the ledger dismisses, opens or enriches, and the other steps show nothing (`QuietStepsRefine`, `MarkRefines`) |

The crux is `NewEvidenceIsFree`: why does the match of a new incident hold no
evidence of another? An incident's evidence lies in its interval, an episode
of the same interval owns it, and an interval that meets the candidate's context
reaches the candidate's window, so that the episode was loaded and the match
rejected.

Without the hypothesis the theorems are false, and not only in the runs above.
The token of a decision depends on its input alone (`evaluator.py:91`), so the
rows of an attempt that was cut short become visible when a later attempt at the
same input is ledgered, whatever that attempt decided. With an ownership join whose
alerts 1, 3, 4 and ownership events 2, 5, 6 are related as {1,2}, {3,5}, {4,5} and
{3,6}: input 4 joins the incident of {3,5} and the process stops after
`WriteIncident`; 1 and 2 open another incident; 4 is evaluated again, now without
effect, and ledgered. The revision left behind is visible without its link, and the
next revision, built on the links, loses input 4 again: `SnapshotMatchesLinks` and
`IncidentsOnlyGrow` both fail. `docs/v06-incident-model.md:118` promises
convergence; `correlation_wedged` is the run that shows it broken.

### Completeness (`CorrelationCompleteness_proofs`)

What the engine does *not* leave out, under the same hypothesis.

| Theorem | Argument |
| --- | --- |
| `CompletenessInvariant` | `CompletenessInv`, below |
| `TimelyIsKept`, `NoMatchIsMissed` | the invariant says both of the inputs that are handled: ledgered, dismissed and still to be ledgered with the page, or being persisted |
| `LeftByNamesOnly` | if no stop cuts a decision short, every write but one finds its name free: the revision of an incident follows the visible one, its links are new. Only an episode may find its name taken (`correlation_late_neighbor`), with its incident already written. Without such a conflict nothing is left behind |
| `OwnershipLeavesNothing` | an ownership join remembers no partial episodes (`DerivedEpisodes`): an episode whose name is taken would be named by an input that opened another incident, and which that incident still holds; a match that opens an incident holds no such input (`DerivedNamesAreFree`) |
| `OwnershipIsCoherent` | hence the evidence theorems hold of ownership joins with no hypothesis but `~CrashAnytime` |

Neither `TimelyEvidenceIsKept` nor `NoMissedMatch` is inductive. An input is dismissed
because of what its evaluation saw, and the properties are about what is visible later;
in between, inputs arrive, the rest of the page is evaluated over contexts cached
before, and incidents open. `CompletenessInv` says what is needed of each:

- A cached context lacks no input of its window that is handled or on the page
  (`ContextsAreComplete`). An input that arrives later may be missing, but cannot be
  handled before the next page, when nothing is cached any more. Hence whichever input
  of a match is handled last is evaluated over the whole match
  (`EvaluatedOverAll`), however it arrived.
- An evaluation over a whole match in time takes it, unless an owner is in the way
  (`MatchIsOption`, `OptionIsNoticed`), and an owner in the way is an incident that
  has evidence of the match or that one of its inputs is too late for.
- For evidence in time the danger is an incident opened by a *later* decision than the
  dismissal. It takes what is in its interval and in time of all that is handled
  or on the page (`OpeningIsComplete`), also what a candidate of the same page has
  yet to be evaluated for: that candidate may use a context without the inputs that
  opened the incident, and complete no match (`TodoIsServed`).
- A deadline never moves here (`TermsAreNew`), so an input once in time stays so.

An incident may be around an input, in time, and still not take it: every match of the
input there may hold evidence of another incident. The hypothesis of
`TimelyEvidenceIsKept` on what opened the incidents around the input excludes just
that, since then the input and enough of what opened the incident are a match of their
own (`TimelyIsOption`).

### Lifecycle (`IncidentLifecycle_proofs`)

| Theorem | Argument |
| --- | --- |
| `LifecycleInvariant` | `LifecycleInv`: `EngineInv` for both writers, each revision follows a visible one (`HistoryFollows`), no revision is missing below a visible one, visible revisions never go back, and what the control thread read under the lock still holds when it writes (`ControlIsRight`) |
| `EngineTypeCorrect`, `LifecycleTypeCorrect`, `LifecycleWritesOnce` | parts of the invariant. Two writers give no incident the same revision, because the second compares with the raw table under the lock |
| `DeadlinesAreFixed` | an evaluation keeps the deadline, a closure sets the last one |
| `AuditsTellTheTruth` | an audit row records the revision of its transition, of which there is one, and that revision follows the visible one it names |
| `SuccessesAreVisible` | what is answered was visible under the lock, and visible histories do not go back |
| `TransitionsLast` | from the order of the visible history |

These hold whatever either thread leaves half done. The following have the
hypothesis of the evidence theorems, on which they build:

| Theorem | Argument |
| --- | --- |
| `EvidenceNextToTransitions` | `EvidenceInv` is kept by the control thread too: it writes while the engine is between cycles, so no decision is at hand; its revision is invisible before its audit row (`InsertIsInvisible`) and then takes the place of the one it follows, with the same evidence (`TransitionIsServed`). That this is still the served one, however long ago the revision was left behind, follows from the unbroken history |
| `TransitionsKeepEvidence` | read off it |
| `ClosuresBoundEvidence` | only the ledgering of an input links anything, and what it links was checked against the closure when it was decided; the closure cannot have changed since, for want of the lock |
| `IncidentsGrowThroughTransitions`, `SystemImplementsContract` | a transition shows nothing of an incident that the contract sees |

`TransitionsKeepTheRule` (`QualifyingSatisfiesRule` next to the control thread) has
no hypothesis.

### Service (`CorrelationService_proofs`)

| Theorem | Argument |
| --- | --- |
| `ServiceTypeCorrect` | `ServiceTypeInv`, with the cached floors and the finiteness of the tables |
| `BlockedForGood` | a blocked scope is left at the start of its turn (`BlockedAtStart`), so nothing of it is read or written again |
| `BlocksAreJustified` | `JustifiedInv`: the parts a comparison read are still in the tables, a gap that outlives an unchanged generation and a finished activity is a row that will never be complete, and an observation only moves to earlier instants, so a mismatch remains |
| `PollingIsConfirmed`, `FloorNeverChanges` | under `[]LostIsOldest` (no insert that was given up asks for a later floor than a row that is there), `FloorInv`: floors are asked for in the order of the clock, and the confirmed row is the last written one of its scope, which a merge keeps |
| `OneFaultMovesNoFloor` | with at most one fault that condition holds by itself. With two, a merge may keep the row of the second lost insert, and the floor moves |

### What stays with TLC

- Liveness, and so every property with `~>`, `[]<>` or a fairness hypothesis: a proof
  needs ENABLED and the induction over a decreasing measure, both outside the prover.
- `OverlapHasOwner` and the other statements of violation runs.

## 5. Plan

Modelled: `EvaluationContract`, `DetectionEngine`, `IncidentContract`,
`RuleEvaluation`, `CorrelationEngine`, `IncidentLifecycle`, `CorrelationService`,
each with proofs of its safety properties. What is left, in the order of its
importance:

1. Convergence of a replay without `NothingIsLeftBehind`: the conditions under which
   a second attempt decides what the first one did.
2. Late writes in the correlation cycle, with `confirm_decision` as an action.
3. Row versions by a clock that may step back, for both engines.

## 6. Not modelled

Agents, the Suricata integration, scripts, dashboards and samples keep no state
of their own that a model could get wrong. Field normalisation, rule-file
validation, titles, severities, JSON and hashing are data: identities enter as
injective names, and what a rule says of an event as a relation. Two engines with
the same engine id are outside what the documentation supports. Storage of
ClickHouse (merges, retention) is taken to do what FINAL and the views say, except
for the parts of an INSERT and the merge of rule state in `CorrelationService`.

Of the correlation engine: the search order and the bound on combinations, field
relations and grouping (constants), the startup healthcheck and the global
projection probe (they only read), status reports and backlog statistics, durations
of the run loop. Of the detection engine: the condition language of Sigma rules,
whose outcome is the constant `Matches`.
