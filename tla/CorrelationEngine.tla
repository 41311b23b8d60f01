-------------------------- MODULE CorrelationEngine --------------------------
(***************************************************************************)
(* One polling correlation engine (correlation/engine/fusion_correlation)  *)
(* over its ClickHouse tables, for one rule and one group.                 *)
(* run_rule_cycle is a sequence of store calls; each call that changes     *)
(* state is one action, so that inputs can become visible, and the process *)
(* can stop, between any two of them. Confirmation and the backlog only    *)
(* read and are part of the call that follows them.                        *)
(*                                                                         *)
(* A row becomes visible when the token that introduced it is in the       *)
(* ledger of evaluated inputs; a row that is not visible is provisional.   *)
(* The scope is enrolled, its integrity preflight passes, and every input  *)
(* was observed after its floor.                                           *)
(***************************************************************************)
EXTENDS RuleEvaluation

CONSTANTS
  EventInputs,     \* inputs that are events: their links have a table of their own
  BatchSize,       \* settings.batch_size
  CacheSlots,      \* context windows one page keeps
  MaxCrashes,      \* bound: cycles that end in a crash or a store error
  ArriveAnytime,   \* FALSE: inputs only arrive between cycles, over no provisional row
  CrashAnytime     \* FALSE: no stop leaves provisional rows behind

ASSUME EngineAssumption ==
  /\ EventInputs \subseteq Inputs
  /\ BatchSize \in Nat \ {0} /\ CacheSlots \in Nat \ {0}
  /\ MaxCrashes \in Nat /\ ArriveAnytime \in BOOLEAN /\ CrashAnytime \in BOOLEAN
\* The tag of an input begins with its kind: "detection" comes before "event".
ASSUME KindsAssumption ==
  \A d \in Conditions, i \in Inputs \ EventInputs, j \in EventInputs : d.tags[i] < d.tags[j]

VARIABLES
  sources,       \* inputs visible in fusion.detections and the event tables
  incidentRows,  \* rows of fusion.incidents
  linkRows,      \* rows of incident_detection_links and incident_event_links
  episodeRows,   \* rows of correlation_episode_state
  ledger,        \* inputs, and so tokens, in correlation_evaluated_inputs
  schedule,      \* cursor of correlation_schedule_state
  audits,        \* rows of incident_status_transitions; the engine only reads them
  pc,            \* next store call of run_rule_cycle
  cursor,        \* cursor the page was fetched with
  reached,       \* cursor the cycle will save
  todo,          \* candidates of the page still to evaluate
  contexts,      \* context_cache: visible inputs by occurrence time
  stateless,     \* pending_stateless
  candidate, decision,  \* candidate whose effects are being persisted
  crashes

given == <<condition, sources, audits>>
tables == <<incidentRows, linkRows, episodeRows, ledger, schedule>>
page == <<cursor, reached, todo, contexts, stateless>>
current == <<candidate, decision>>
vars == <<given, tables, pc, page, current, crashes>>

(***************************************************************************)
(* Serving views                                                           *)
(***************************************************************************)
Committed(R) == {r \in R : r.token \in ledger}
\* Mutant: a lifecycle revision needs no audit row.
CommittedIncidentsUnaudited(R) == {r \in R : r.token \in ledger \/ r.token \notin Inputs}
\* A revision of a lifecycle transition needs the audit row that names it.
CommittedIncidents(R) ==
  {r \in R : \/ r.token \in ledger
             \/ \E a \in audits : /\ a.id = r.token /\ a.incident = r.id
                                  /\ a.revision = r.revision}
Latest(R) == {r \in R : \A q \in R : q.id = r.id => q.revision <= r.revision}

\* Mutant: the view ranks the revisions before it joins the ledger.
CurrentIncidentsRankedFirst == CommittedIncidents(Latest(incidentRows))
\* Mutant: the view does not join the ledger.
CurrentIncidentsUnjoined == Latest(incidentRows)
CurrentIncidents == Latest(CommittedIncidents(incidentRows))
\* Mutant: the view ranks the revisions before it joins the ledger.
CurrentEpisodesRankedFirst == Committed(Latest(episodeRows))
CurrentEpisodes == Latest(Committed(episodeRows))
Linked == [x \in Inputs |-> {l.input : l \in {k \in Committed(linkRows) : k.incident = x}}]

Provisional ==
  \E R \in {{r \in incidentRows : r.token \in Inputs}, linkRows, episodeRows} :
    Committed(R) # R

(***************************************************************************)
(* Candidates and what an evaluation loads                                 *)
(***************************************************************************)
\* The query's order: inputs after the cursor first, then the wrapped ones.
Ahead(from, i, j) ==
  \/ i > from /\ j <= from
  \/ (i > from <=> j > from) /\ i < j

\* Mutant: the scan never wraps around.
PageWithoutWrap(S, from) ==
  {i \in S : i > from /\ Cardinality({j \in S : Ahead(from, j, i)}) < BatchSize}
Page(S, from) == {i \in S : Cardinality({j \in S : Ahead(from, j, i)}) < BatchSize}

\* Mutant: the anti-join with the ledger is missing.
UnevaluatedUnjoined == sources
Unevaluated == sources \ ledger

\* Mutant: only the past of the candidate is loaded.
SourceWindowBehind(c) ==
  {i \in sources \ Invalid : Occurred[c] - Window <= Occurred[i]
                             /\ Occurred[i] <= Occurred[c]}
SourceWindow(c) ==
  {i \in sources \ Invalid : Occurred[c] - Window <= Occurred[i]
                             /\ Occurred[i] <= Occurred[c] + Window}

\* The committed states that reach the candidate's window, and the states an
\* earlier attempt at the candidate left behind.
LoadedEpisodes(c) ==
  Latest({s \in CurrentEpisodes \cup {r \in episodeRows : r.token = c} :
            s.start <= Occurred[c] + Window /\ s.start + Window >= Occurred[c] - Window})

Decide(c, context) ==
  LET S == LoadedEpisodes(c)
      loaded == {r \in CurrentIncidents : \E s \in Owning(S) : s.incident = r.id}
  IN  IF Cardinality(context) > ContextLimit THEN Failed
      ELSE Evaluate(c, context, S, loaded, Linked, incidentRows)

HasEffects(d) == d.incident # {} \/ d.links # {} \/ d.episode # {}

Relationship(d, i) ==
  IF i = d.anchor THEN "trigger" ELSE IF i \in d.qualifying THEN "supporting" ELSE "context"
LinksOf(d) ==
  {[incident |-> d.anchor, input |-> i, token |-> candidate,
    relationship |-> Relationship(d, i)] : i \in d.links}

IdleLocals ==
  /\ cursor = 0 /\ reached = 0 /\ todo = {} /\ contexts = <<>> /\ stateless = {}
  /\ candidate = 0 /\ decision = Stateless

Init ==
  /\ condition \in Conditions
  /\ sources = {} /\ audits = {}
  /\ incidentRows = {} /\ linkRows = {} /\ episodeRows = {} /\ ledger = {}
  /\ schedule = 0
  /\ pc = "idle" /\ IdleLocals
  /\ crashes = 0

(***************************************************************************)
(* Environment                                                             *)
(***************************************************************************)
\* A detection or an event becomes visible; nothing orders its arrival.
Arrive(i) ==
  /\ i \notin sources
  /\ ArriveAnytime \/ (pc = "idle" /\ ~Provisional)
  /\ sources' = sources \cup {i}
  /\ UNCHANGED <<condition, audits, tables, pc, page, current, crashes>>

(***************************************************************************)
(* One cycle: CorrelationEngine.run_rule_cycle                             *)
(***************************************************************************)
\* The cursor is the later of the saved one and the last ledgered input.
FetchCandidates ==
  /\ pc = "idle" /\ pc' = "evaluate"
  /\ LET from == Max({schedule} \cup ledger)
         P    == Page(Unevaluated, from)
     IN  /\ cursor' = from
         /\ todo' = P
         /\ reached' = IF P = {} THEN from
                       ELSE The({i \in P : \A j \in P \ {i} : Ahead(from, j, i)})
  /\ UNCHANGED <<given, tables, contexts, stateless, current, crashes>>

\* One candidate of the page: a failure is left for a later cycle, a decision
\* without effects is ledgered with the page, another is persisted at once. An
\* input whose rows conflict matches no selector and is its own context.
EvaluateCandidate ==
  /\ pc = "evaluate"
  /\ \E c \in todo :
       LET known   == Occurred[c] \in DOMAIN contexts
           context == IF c \in Invalid THEN {c}
                      ELSE IF known THEN contexts[Occurred[c]] ELSE SourceWindow(c)
           kept    == IF Cardinality(DOMAIN contexts) >= CacheSlots THEN <<>> ELSE contexts
       IN  \E d \in {Decide(c, context)} :
           /\ \A j \in todo \ {c} : Ahead(cursor, c, j)
           /\ todo' = todo \ {c}
           /\ contexts' = IF c \in Invalid \/ known \/ Cardinality(context) > ContextLimit
                          THEN contexts
                          ELSE [t \in {Occurred[c]} \cup DOMAIN kept |->
                                  IF t = Occurred[c] THEN context ELSE kept[t]]
           /\ stateless' = IF d.failed \/ HasEffects(d) THEN stateless
                           ELSE stateless \cup {c}
           /\ IF HasEffects(d)
              THEN pc' = "writeIncident" /\ candidate' = c /\ decision' = d
              ELSE UNCHANGED <<pc, current>>
  /\ UNCHANGED <<given, tables, cursor, reached, crashes>>

Goto(from, to) == pc = from /\ pc' = to
NextCandidate == pc' = "evaluate" /\ candidate' = 0 /\ decision' = Stateless

\* Mutant: only the token is compared.
RivalsOfToken(R, r) == {q \in R : q.id = r.id /\ q.token = r.token}
\* Rows that hold the row's revision or its token for the same identity.
Rivals(R, r) ==
  {q \in R : q.id = r.id /\ (q.revision = r.revision \/ q.token = r.token)}
Conflicts(R, N) == \E r \in N : Rivals(R, r) \ {r} # {}

WriteIncident ==
  /\ Goto("writeIncident", "writeLinks")
  /\ ~Conflicts(incidentRows, decision.incident)
  /\ incidentRows' = incidentRows \cup decision.incident
  /\ UNCHANGED <<given, linkRows, episodeRows, ledger, schedule, page, current, crashes>>

\* write_links compares every link before it inserts any; detection links and
\* event links are two inserts.
LinkConflict ==
  \E l \in LinksOf(decision), k \in linkRows :
    k.incident = l.incident /\ k.input = l.input /\ k # l
\* Mutant: links found in the table count as the whole batch.
WriteDetectionLinksUnlessPresent ==
  /\ pc = "writeLinks"
  /\ IF LinksOf(decision) \cap linkRows = {}
     THEN /\ pc' = "writeEventLinks"
          /\ linkRows' = linkRows \cup {l \in LinksOf(decision) : l.input \notin EventInputs}
     ELSE pc' = "writeEpisode" /\ UNCHANGED linkRows
  /\ UNCHANGED <<given, incidentRows, episodeRows, ledger, schedule, page, current, crashes>>
WriteDetectionLinks ==
  /\ Goto("writeLinks", "writeEventLinks")
  /\ ~LinkConflict
  /\ linkRows' = linkRows \cup {l \in LinksOf(decision) : l.input \notin EventInputs}
  /\ UNCHANGED <<given, incidentRows, episodeRows, ledger, schedule, page, current, crashes>>
WriteEventLinks ==
  /\ Goto("writeEventLinks", "writeEpisode")
  /\ linkRows' = linkRows \cup LinksOf(decision)
  /\ UNCHANGED <<given, incidentRows, episodeRows, ledger, schedule, page, current, crashes>>

WriteEpisodeState ==
  /\ Goto("writeEpisode", "markEvaluated")
  /\ ~Conflicts(episodeRows, decision.episode)
  /\ episodeRows' = episodeRows \cup decision.episode
  /\ UNCHANGED <<given, incidentRows, linkRows, ledger, schedule, page, current, crashes>>

\* What the write at hand finds in the table contradicts it.
Refused ==
  \/ pc = "writeIncident" /\ Conflicts(incidentRows, decision.incident)
  \/ pc = "writeLinks" /\ LinkConflict
  \/ pc = "writeEpisode" /\ Conflicts(episodeRows, decision.episode)
\* CorrelationPersistenceConflict: the candidate stays unledgered and what was
\* written of it stays in the tables.
PersistenceConflict ==
  /\ Refused
  /\ NextCandidate
  /\ UNCHANGED <<given, tables, page, crashes>>

MarkEvaluated ==
  /\ pc = "markEvaluated" /\ NextCandidate
  /\ ledger' = ledger \cup {candidate}
  /\ UNCHANGED <<given, incidentRows, linkRows, episodeRows, schedule, page, crashes>>

MarkStateless ==
  /\ Goto("evaluate", "saveSchedule") /\ todo = {}
  /\ ledger' = ledger \cup stateless
  /\ stateless' = {}
  /\ UNCHANGED <<given, incidentRows, linkRows, episodeRows, schedule, cursor,
                 reached, todo, contexts, current, crashes>>

EndCycle ==
  /\ pc' = "idle"
  /\ cursor' = 0 /\ reached' = 0 /\ todo' = {} /\ contexts' = <<>> /\ stateless' = {}
  /\ candidate' = 0 /\ decision' = Stateless

SaveSchedule ==
  /\ pc = "saveSchedule" /\ EndCycle
  /\ schedule' = reached
  /\ UNCHANGED <<given, incidentRows, linkRows, episodeRows, ledger, crashes>>

\* The process stops, or a store call raises out of the cycle.
Crash ==
  /\ pc # "idle" /\ crashes < MaxCrashes
  /\ CrashAnytime \/ ~Provisional
  /\ crashes' = crashes + 1
  /\ EndCycle
  /\ UNCHANGED <<given, tables>>

Persist ==
  \/ WriteIncident \/ WriteDetectionLinks \/ WriteEventLinks \/ WriteEpisodeState
  \/ PersistenceConflict \/ MarkEvaluated
Cycle == FetchCandidates \/ EvaluateCandidate \/ Persist \/ MarkStateless \/ SaveSchedule

Next == (\E i \in Inputs : Arrive(i)) \/ Cycle \/ Crash

Spec == Init /\ [][Next]_vars
\* The run loop runs the next cycle after success and after a caught error, and
\* a page has finitely many candidates. Some step of Cycle is possible in every
\* state, so fairness of Cycle is that its program counter moves on for ever;
\* stated of pc alone, it spares TLC the decision when it evaluates ENABLED.
Steps == {"idle", "evaluate", "writeIncident", "writeLinks", "writeEventLinks",
          "writeEpisode", "markEvaluated", "saveSchedule"}
Proceed == pc' \in Steps \ {pc}
FairSpec == Spec /\ WF_pc(Proceed)

(***************************************************************************)
(* Properties                                                              *)
(***************************************************************************)
IncidentRow == [id : Inputs, revision : Nat, token : Nat,
                members : SUBSET Inputs, qualifying : SUBSET Inputs,
                status : {"new", "acknowledged", "closed"},
                from : {"", "new", "acknowledged"}, closedAt : Int, deadline : Nat]
EpisodeRow == [id : Inputs, revision : Nat, token : Inputs, qualifying : SUBSET Inputs,
               incident : {0} \cup Inputs, start : Nat, owned : SUBSET Inputs,
               deadline : Nat, collisions : Nat]
LinkRow == [incident : Inputs, input : Inputs, token : Inputs,
            relationship : {"trigger", "supporting", "context"}]

\* Every table and local keeps its type; a token is the candidate's own.
TypeOK ==
  /\ condition \in Conditions
  /\ sources \subseteq Inputs /\ ledger \subseteq sources
  /\ incidentRows \subseteq IncidentRow /\ linkRows \subseteq LinkRow
  /\ episodeRows \subseteq EpisodeRow
  /\ schedule \in {0} \cup Inputs
  /\ pc \in Steps
  /\ cursor \in {0} \cup Inputs /\ reached \in {0} \cup Inputs
  /\ todo \subseteq sources \ ledger /\ stateless \subseteq sources \ ledger
  /\ \A t \in DOMAIN contexts : contexts[t] \subseteq sources
  /\ candidate \in {0} \cup (sources \ ledger)
  /\ crashes \in 0 .. MaxCrashes

\* The snapshot of a visible incident and the visible links, the authority on
\* membership, agree, whatever was left behind by crashes on the way.
SnapshotMatchesLinks ==
  /\ \A r \in CurrentIncidents : r.members = Linked[r.id]
  /\ \A x \in Inputs : Linked[x] # {} => \E r \in CurrentIncidents : r.id = x

\* A visible incident has exactly one visible episode state, which owns the
\* evidence of the incident and nothing else.
EpisodeMatchesIncident ==
  \A r \in CurrentIncidents :
    LET S == {s \in CurrentEpisodes : s.incident = r.id}
    IN  Cardinality(S) = 1 /\ \A s \in S : s.owned = r.members /\ s.qualifying = r.qualifying

\* No input qualifies two incidents (docs/v06-correlation-model.md:223). A conflict
\* over the name of an episode can break it: the incident it leaves behind shows
\* once its input joins another one and is ledgered.
OneQualification ==
  \A r, q \in CurrentIncidents : r # q => r.qualifying \cap q.qualifying = {}

\* No input qualifies two incidents that have an episode state: however arrivals and
\* conflicts interleave, what a conflict leaves behind never gets a state of its own.
EpisodesQualifyOnce ==
  \A r, q \in {i \in CurrentIncidents : \E s \in CurrentEpisodes : s.incident = i.id} :
    r # q => r.qualifying \cap q.qualifying = {}

\* The visible incidents whose interval holds the input.
Around(i) == {r \in CurrentIncidents : InWindow(Start(r.qualifying), i)}

\* An evaluated input the threshold counts is evidence of some incident if it is in
\* time for an incident whose interval holds it, however it was reordered, unless
\* another incident holds what opened one of those around it.
TimelyEvidenceIsKept ==
  \A i \in ledger \ Invalid :
    ( /\ condition.kind = "threshold" /\ i \in condition.stages[1].select
      /\ \E r \in Around(i) : Observed[i] <= r.deadline
      /\ \A r \in Around(i), q \in CurrentIncidents : r # q => r.qualifying \cap q.members = {} )
    => \E x \in Inputs : i \in Linked[x]

\* An input that lies in the intervals of two incidents, in time for both, is
\* evidence of one of them, the nearest (docs/v06-correlation-model.md:225).
OverlapHasOwner ==
  ~condition.derived => \A i \in ledger \ Invalid :
    (\E r, q \in Around(i) : r # q /\ Observed[i] <= r.deadline /\ Observed[i] <= q.deadline)
      => \E x \in Inputs : i \in Linked[x]

\* What a rule asks of the inputs that open an incident: each stage has its
\* number of inputs the stage selects, and a sequence has them strictly in order.
Fulfils(M) ==
  \E f \in [M -> Stages] :
    /\ \A k \in Stages : LET K == {i \in M : f[i] = k}
                         IN  /\ Cardinality(K) = condition.stages[k].count
                             /\ K \subseteq condition.stages[k].select
    /\ condition.kind # "join" => \A i, j \in M : f[i] < f[j] => Occurred[i] < Occurred[j]
    /\ condition.kind = "join" => M \in Joinable
Qualifying(S) ==
  {M \in (SUBSET S) \ {{}} :
     Fulfils(M) /\ \A i, j \in M : Occurred[j] - Occurred[i] <= Window}

\* However its inputs arrived, and whatever partial episode they passed through,
\* an incident is opened by inputs that satisfy the rule, and by an input of each
\* stage in strict order of occurrence if the rule is a sequence.
QualifyingSatisfiesRule == \A r \in CurrentIncidents : r.qualifying \in Qualifying(Inputs)

\* Evaluated inputs that satisfy the rule and were observed in time never go
\* unnoticed: one of them at least is evidence of an incident, or lies in the
\* interval of an incident that one of them is too late for.
NoMissedMatch ==
  ~condition.derived => \A M \in Qualifying(ledger \ Invalid) :
    (\A i \in M : Observed[i] <= Deadline(Start(M)))
      => \/ \E i \in M, x \in Inputs : i \in Linked[x]
         \/ \E r \in CurrentIncidents, i, j \in M :
              InWindow(Start(r.qualifying), i) /\ Observed[j] > r.deadline

\* Whatever inputs overtake a write that a stop cut short, a revision of an
\* incident or of an episode, and a link, is written once.
WrittenOnce ==
  /\ \A R \in {incidentRows, episodeRows} : \A r, q \in R :
       r.id = q.id /\ r.revision = q.revision => r = q
  /\ \A l, k \in linkRows : l.incident = k.incident /\ l.input = k.input => l = k

\* A visible incident never disappears, goes back to an earlier revision, loses
\* evidence or changes the inputs that opened it.
IncidentsOnlyGrow ==
  [][\A r \in CurrentIncidents : \E q \in CurrentIncidents' :
        /\ q.id = r.id /\ q.revision >= r.revision
        /\ r.members \subseteq q.members /\ q.qualifying = r.qualifying]_vars

\* The interval and the incident of an episode are immutable.
EpisodeIntervalFixed ==
  [][\A s \in Owning(CurrentEpisodes) : \E t \in CurrentEpisodes' :
        t.id = s.id /\ t.incident = s.incident /\ t.start = s.start]_vars

\* An episode with an incident finds its name taken, after its incident is written:
\* the identity and revision of its state are stored with other contents.
NameIsTaken ==
  /\ pc = "writeEpisode" /\ Conflicts(episodeRows, decision.episode)
  /\ \E e \in decision.episode : e.incident # 0

\* Visible incidents change as if each input were decided in one step.
IncidentContract == INSTANCE IncidentContract WITH
  qualifies <- Qualifying(Inputs), evaluated <- ledger,
  incidents <- {[id |-> r.id, qualifying |-> r.qualifying, members |-> Linked[r.id]] :
                  r \in CurrentIncidents}
ImplementsIncidentContract == IncidentContract!IncidentSpec

\* Every input that becomes visible is evaluated: the backlog empties.
EveryInputIsLedgered == \A i \in Inputs : i \in sources ~> i \in ledger

\* Every input that becomes visible is evaluated, however often the process stopped,
\* unless the name of its episode is taken.
InputsAreLedgeredUnlessNamed ==
  \A i \in Inputs : i \in sources ~> (i \in ledger \/ (candidate = i /\ NameIsTaken))

\* Failing candidates do not starve the others behind them: an input is
\* evaluated or its own window holds more than the limit.
NoCandidateIsStarved ==
  \A i \in Inputs :
    i \in sources ~> (i \in ledger \/ Cardinality(SourceWindow(i)) > ContextLimit)
=============================================================================
