---------------------- MODULE CorrelationEvidence_proofs ----------------------
(***************************************************************************)
(* What is visible of incidents, as long as no stop and no conflict leaves *)
(* rows behind: a visible incident, its links and its episode hold the     *)
(* same evidence, and change together when an input is ledgered. Inputs    *)
(* arrive at any time, in any order.                                       *)
(***************************************************************************)
EXTENDS CorrelationEngine_proofs

\* Rows are provisional only while the decision they belong to is persisted.
NothingIsLeftBehind == pc \notin Persisting => ~ Provisional

(***************************************************************************)
(* The inductive invariant                                                 *)
(***************************************************************************)
USE DEF given, tables, page, current, vars

VisibleEpisodes == Committed(episodeRows)
Episodes == Owning(CurrentEpisodes)

\* Provisional rows are the ones that have been written of the decision at hand,
\* and a call that is over has written all of its rows. Revisions of transitions
\* depend on their audit rows, not on the ledger, and open no incident.
Clean ==
  /\ \A a \in audits : a.id \notin Inputs
  /\ \A r \in incidentRows :
       IF r.token \in Inputs
       THEN r.token \in ledger \/ (pc \in Persisting /\ r \in decision.incident)
       ELSE r.revision # 1
  /\ \A l \in linkRows : l.token \in ledger \/ (pc \in Persisting /\ l \in LinksOf(decision))
  /\ \A e \in episodeRows : e.token \in ledger \/ (pc \in Persisting /\ e \in decision.episode)
  /\ pc \in {"writeEpisode", "markEvaluated"} => LinksOf(decision) \subseteq linkRows
  /\ pc = "markEvaluated" => decision.episode \subseteq episodeRows

\* A cached context holds inputs of the window around its instant.
Near(time, i) == time - Window <= Occurred[i] /\ Occurred[i] <= time + Window
ContextsAreWindows == \A t \in DOMAIN contexts : \A i \in contexts[t] : Near(t, i)

\* An episode has had a first revision.
FirstIsVisible ==
  \A e \in VisibleEpisodes : \E f \in VisibleEpisodes : f.id = e.id /\ f.revision = 1

\* An incident is named by one of the inputs that opened it, which are evidence,
\* and its evidence lies in the interval they set.
WellFormed(r) ==
  /\ r.id \in r.qualifying /\ r.qualifying \subseteq r.members
  /\ \A i \in r.members : InWindow(Start(r.qualifying), i)

\* The episode s holds what the incident r does.
Owns(s, r) ==
  /\ s.incident = r.id /\ s.owned = r.members
  /\ s.qualifying = r.qualifying /\ s.start = Start(r.qualifying)

\* Incidents, links and episodes tell the same; inputs qualify one incident each.
Coherent ==
  /\ \A r \in CurrentIncidents :
       WellFormed(r) /\ r.members = Linked[r.id] /\ \E s \in Episodes : Owns(s, r)
  /\ \A x \in Inputs : Linked[x] # {} => \E r \in CurrentIncidents : r.id = x
  /\ \A s \in Episodes : \E r \in CurrentIncidents : r.id = s.incident
  /\ \A s, t \in Episodes : s.incident = t.incident => s = t
  /\ OneQualification

\* A new episode, or the next revision of one that has no incident yet.
Starts(e) == e.revision = 1 \/ \E s \in Partial(CurrentEpisodes) : Continues(s, e)

\* d leaves incidents alone, opens one, or adds evidence to one.
Ignores(d, c) ==
  /\ d.incident = {} /\ d.links = {}
  /\ \A e, f \in d.episode : e = f
  /\ \A e \in d.episode : e.token = c /\ e.incident = 0 /\ Starts(e)
OpensOne(d, c) ==
  \E n \in d.incident, e \in d.episode :
    /\ d.incident = {n} /\ d.episode = {e} /\ e.token = c
    /\ n.id = d.anchor /\ n.revision = 1 /\ d.links = n.members
    /\ WellFormed(n) /\ c \in n.members
    /\ Owns(e, n) /\ Starts(e)
    /\ \A r \in Visible : r.id # n.id
    /\ \A r \in CurrentIncidents : r.members \cap n.qualifying = {}
EnrichesOne(d, c) ==
  \E r \in CurrentIncidents, s \in Episodes, e \in d.episode :
    /\ d.episode = {e} /\ e.token = c
    /\ r.id = d.anchor /\ Owns(s, r)
    /\ Continues(s, e) /\ e.qualifying = s.qualifying
    /\ e.owned = r.members \cup d.links /\ c \in e.owned
    /\ \A i \in e.owned : InWindow(s.start, i)
    /\ r.status = "closed" => \A i \in d.links : Occurred[i] <= r.closedAt
    /\ \/ d.incident = {} /\ d.links = {}
       \/ \E n \in d.incident :
            d.incident = {n} /\ Precedes(r, n) /\ n.members = e.owned
FollowsVisible ==
  pc \in Persisting => \/ Ignores(decision, candidate)
                       \/ OpensOne(decision, candidate)
                       \/ EnrichesOne(decision, candidate)

EvidenceInv == Clean /\ ContextsAreWindows /\ FirstIsVisible /\ Coherent /\ FollowsVisible

(***************************************************************************)
(* What an evaluation finds                                                *)
(***************************************************************************)
\* When no row is provisional an incident has visible rows if it has any.
LEMMA AllIsVisible ==
  ASSUME EngineInv, Clean, pc \notin Persisting
  PROVE  \A r \in incidentRows : \E t \in Visible : t.id = r.id
<1>1. ASSUME NEW r \in incidentRows, r.token \in Inputs PROVE r \in Visible
  BY <1>1 DEF Clean, Visible, CommittedIncidents
<1>2. ASSUME NEW r \in incidentRows, r.token \notin Inputs
      PROVE  \E t \in Visible : Precedes(t, r)
  BY <1>2 DEF Clean, Visible, EngineInv, RevisionsFollow
<1>. QED  BY <1>1, <1>2 DEF Precedes

\* One row is current of each episode, and it has a positive revision.
LEMMA OneEpisodeIsCurrent ==
  ASSUME EngineInv
  PROVE  /\ \A s, t \in CurrentEpisodes : s.id = t.id => s = t
         /\ \A e \in episodeRows : e.revision \in Nat /\ e.revision # 0
         /\ CurrentEpisodes \subseteq VisibleEpisodes /\ VisibleEpisodes \subseteq episodeRows
<1>1. \A e \in episodeRows : e.revision \in Nat /\ e.revision # 0
  BY RowsAreServed DEF Servable
<1>2. CurrentEpisodes \subseteq VisibleEpisodes /\ VisibleEpisodes \subseteq episodeRows
  BY DEF CurrentEpisodes, Latest, VisibleEpisodes, Committed
<1>3. ASSUME NEW s \in CurrentEpisodes, NEW t \in CurrentEpisodes, s.id = t.id PROVE s = t
  <2>1. s.revision <= t.revision /\ t.revision <= s.revision
    BY <1>3 DEF CurrentEpisodes, Latest
  <2>2. s.revision = t.revision
    BY <1>1, <1>2, <2>1
  <2>. QED  BY <1>2, <1>3, <2>2 DEF EngineInv, WrittenOnce
<1>. QED  BY <1>1, <1>2, <1>3

\* What is loaded for a candidate is the current episodes that reach its window.
LEMMA LoadedAreCurrent ==
  ASSUME EngineInv, Clean, pc \notin Persisting, NEW c \in Inputs, c \notin ledger
  PROVE  LoadedEpisodes(c) =
           {s \in CurrentEpisodes : /\ s.start <= Occurred[c] + Window
                                    /\ s.start + Window >= Occurred[c] - Window}
<1>1. {r \in episodeRows : r.token = c} = {}
  BY DEF Clean
<1>2. \A s, t \in CurrentEpisodes : s.id = t.id => s = t
  BY OneEpisodeIsCurrent
<1>3. \A s \in CurrentEpisodes : s.revision <= s.revision
  BY OneEpisodeIsCurrent
<1>. QED  BY <1>1, <1>2, <1>3 DEF LoadedEpisodes, Latest

\* A match of a new episode shares no evidence with a visible incident: an episode
\* of the incident would reach the candidate's window, and be loaded.
LEMMA NewEvidenceIsFree ==
  ASSUME EngineInv, Clean, Coherent, pc \notin Persisting,
         NEW c \in Inputs, c \notin ledger,
         NEW S, S = LoadedEpisodes(c),
         NEW E \in SUBSET Inputs, \A i \in E : Near(Occurred[c], i),
         \A s \in Owning(S) : E \cap s.owned = {}
  PROVE  \A r \in CurrentIncidents : E \cap r.members = {}
<1>. SUFFICES ASSUME NEW r \in CurrentIncidents, NEW i \in E, i \in r.members
              PROVE  FALSE
  OBVIOUS
<1>1. PICK s \in Episodes : Owns(s, r)
  BY DEF Coherent
<1>2. WellFormed(r)
  BY DEF Coherent
<1>3. InWindow(s.start, i)
  BY <1>1, <1>2 DEF Owns, WellFormed
<1>4. s \in CurrentEpisodes /\ s.incident # 0
  BY <1>1 DEF Episodes, Owning
<1>5. s.start \in Nat
  BY <1>4, OneEpisodeIsCurrent, TimesAreNatural DEF EngineInv, TypeOK, EpisodeRow
<1>6. Occurred[c] \in Nat /\ Occurred[i] \in Nat /\ Window \in Nat
  BY TimesAreNatural, RuleAssumption
<1>7. s \in S
  <2>1. s.start <= Occurred[c] + Window /\ s.start + Window >= Occurred[c] - Window
    BY <1>3, <1>5, <1>6 DEF InWindow, Near
  <2>. QED  BY <1>4, <2>1, LoadedAreCurrent
<1>. QED  BY <1>1, <1>4, <1>7 DEF Owning, Owns

(***************************************************************************)
(* What a match decides                                                    *)
(***************************************************************************)
\* Inputs that span at most the window lie in the interval their first one sets;
\* more inputs set an interval that starts no later.
LEMMA IntervalOfInputs ==
  ASSUME NEW M \in SUBSET Inputs, M # {}
  PROVE  /\ Spans(M) => \A i \in M : InWindow(Start(M), i)
         /\ \A E \in SUBSET Inputs : M \subseteq E =>
              Start(E) \in Nat /\ Start(M) \in Nat /\ Start(E) <= Start(M)
<1>1. \A T \in SUBSET Inputs : T # {} => /\ Min(T) \in T /\ Max(T) \in T /\ Start(T) \in Nat
                                         /\ \A i \in T : Min(T) <= i /\ i <= Max(T)
  <2>. SUFFICES ASSUME NEW T \in SUBSET Inputs, T # {}
                PROVE  /\ Min(T) \in T /\ Max(T) \in T /\ Start(T) \in Nat
                       /\ \A i \in T : Min(T) <= i /\ i <= Max(T)
    OBVIOUS
  <2>1. T \in SUBSET Int
    BY InputsAssumption
  <2>. QED  BY <2>1, SomeInputs, MinOfFinite, MaxOfFinite
<1>2. \A i, j \in Inputs : i <= j => Occurred[i] <= Occurred[j]
  <2>1. ASSUME NEW i \in Inputs, NEW j \in Inputs, i <= j PROVE Occurred[i] <= Occurred[j]
    <3>1. i = j \/ i < j
      BY <2>1, TimesAreNatural
    <3>2. Occurred[i] \in Nat /\ Occurred[j] \in Nat
      BY TimesAreNatural
    <3>. QED  BY <3>1, <3>2, InputsAssumption
  <2>. QED  BY <2>1
<1>3. ASSUME Spans(M), NEW i \in M PROVE InWindow(Start(M), i)
  <2>1. Min(M) \in Inputs /\ Max(M) \in Inputs /\ i \in Inputs /\ Min(M) <= i /\ i <= Max(M)
    BY <1>1
  <2>2. Occurred[Min(M)] <= Occurred[i] /\ Occurred[i] <= Occurred[Max(M)]
    BY <1>2, <2>1
  <2>3. /\ Occurred[Min(M)] \in Nat /\ Occurred[Max(M)] \in Nat /\ Occurred[i] \in Nat
        /\ Window \in Nat
    BY <2>1, TimesAreNatural, RuleAssumption
  <2>. QED  BY <1>3, <2>2, <2>3 DEF Spans, Start, InWindow
<1>4. ASSUME NEW E \in SUBSET Inputs, M \subseteq E
      PROVE  Start(E) \in Nat /\ Start(M) \in Nat /\ Start(E) <= Start(M)
  <2>1. Min(E) \in E /\ Min(M) \in M /\ Min(E) <= Min(M)
    BY <1>1, <1>4
  <2>. QED  BY <1>1, <1>2, <1>4, <2>1 DEF Start
<1>. QED  BY <1>3, <1>4

\* What the code checks of an option before it selects it.
LEMMA OptionIsAdmissible ==
  ASSUME NEW c, NEW context, NEW S, NEW known, NEW p \in Selected(c, context, S, known)
  PROVE  /\ Admissible(c, S, p.match, p.owner)
         /\ Spans(p.match.members)
         /\ p.match.related = RelatedTo(p.match.members, context)
<1>1. p \in Options(c, context, S, known)
  BY DEF Selected
<1>2. Admissible(c, S, p.match, p.owner) /\ p.match \in Matches(c, context)
  BY <1>1 DEF Options
<1>3. PICK M \in Satisfying(context) :
        p.match = [members |-> M, related |-> RelatedTo(M, context)]
  BY <1>2 DEF Matches
<1>. QED  BY <1>2, <1>3 DEF Satisfying

\* The evidence of a match that opens an incident lies in its interval and is
\* taken by it.
LEMMA NewEvidenceIsTaken ==
  ASSUME NEW M \in SUBSET Inputs, M # {}, Spans(M), NEW E \in SUBSET Inputs, M \subseteq E,
         \A i \in E \ M : InWindow(Start(M), i),
         \A i \in E : Observed[i] <= Deadline(Start(E))
  PROVE  \A i \in E : InWindow(Start(M), i) /\ Takes(NewTerms(Start(M)), i)
<1>1. /\ \A i \in M : InWindow(Start(M), i)
      /\ Start(E) \in Nat /\ Start(M) \in Nat /\ Start(E) <= Start(M)
  BY IntervalOfInputs
<1>2. Deadline(Start(E)) <= Deadline(Start(M))
  BY <1>1, RuleAssumption DEF Deadline
<1>3. ASSUME NEW i \in E PROVE Observed[i] <= Deadline(Start(M))
  <2>1. Observed[i] \in Nat /\ Deadline(Start(E)) \in Nat /\ Deadline(Start(M)) \in Nat
    BY <1>1, TimesAreNatural
  <2>. QED  BY <1>2, <2>1
<1>4. NewTerms(Start(M)).deadline = Deadline(Start(M)) /\ NewTerms(Start(M)).status # "closed"
  BY DEF NewTerms
<1>. QED  BY <1>1, <1>3, <1>4 DEF Takes

\* An incident that d opens takes what its interval holds of the context, if it is in
\* time; a derived join takes its match alone.
TakesContext(d, context) ==
  \A n \in d.incident :
    /\ n.qualifying \subseteq context
    /\ ~ condition.derived =>
         \A i \in context :
           InWindow(Start(n.qualifying), i) /\ Observed[i] <= Deadline(Start(n.qualifying))
             => i \in n.members

\* An episode is named by an input of its match unless a partial episode named it.
NamesEpisode(d, S) ==
  \A e \in d.episode : e.id \in e.qualifying \/ \E s \in Partial(S) : s.id = e.id

\* A match without an owner opens an incident, of inputs that are evidence of no
\* visible one, unless it fails.
LEMMA MatchOpens ==
  ASSUME EngineInv, Clean, Coherent, pc \notin Persisting,
         NEW c \in Inputs, c \notin ledger,
         NEW context \in SUBSET Inputs, \A i \in context : Near(Occurred[c], i),
         NEW S, S = LoadedEpisodes(c),
         NEW rows, rows = {r \in CurrentIncidents : \E s \in Owning(S) : s.incident = r.id},
         NEW o \in Selected(c, context, S, rows), o.owner = {},
         NEW d, d = MatchDecision(c, context, S, rows, Linked, incidentRows, o)
  PROVE  \/ d = Failed
         \/ OpensOne(d, c) /\ TakesContext(d, context) /\ NamesEpisode(d, S)
<1>. DEFINE M          == o.match.members
            E          == Evidence(o.match)
            state      == Nearest(c, {s \in Partial(S) : Covers(s, c)})
            anchor     == Max(M)
            start      == Start(M)
            owned      == context \cap UNION {s.owned : s \in state}
            approved   == IF condition.derived THEN E ELSE context
            members    == MembersOf(start, NewTerms(start), {}, owned, approved)
            incident   == NextIncident(anchor, {}, c, members, M, NewTerms(start))
            episode    == NextEpisode(state, S, c, M, anchor, members, M, start,
                                      incident.deadline)
            result     == [failed |-> FALSE, anchor |-> anchor, qualifying |-> M,
                           incident |-> {incident}, links |-> members, episode |-> {episode}]
<1>1. /\ condition \in Conditions /\ S \in SUBSET EpisodeRow
      /\ \A s \in S : s.start \in Nat /\ s.incident \in {0} \cup Inputs /\ s.id \in Inputs
      /\ Loadable(c, context, S, rows, Linked, incidentRows)
  <2>1. rows \in SUBSET CurrentIncidents
    OBVIOUS
  <2>2. Loadable(c, context, S, rows, Linked, incidentRows)
    BY <2>1, EvaluationLoads
  <2>. QED  BY <2>2, LoadedStates DEF Loadable
<1>2. /\ M \in SUBSET context /\ M # {} /\ E \in SUBSET context /\ c \in E /\ M \subseteq E
      /\ E = M \cup o.match.related
  <2>1. o.match \in Matches(c, context)
    BY <1>1, OptionHasOneOwner
  <2>. QED  BY <1>1, <2>1, MatchHasInputs DEF Evidence
<1>3. /\ Admissible(c, S, o.match, {}) /\ Spans(M)
      /\ \A i \in E \ M : InWindow(start, i)
  <2>1. /\ Admissible(c, S, o.match, o.owner) /\ Spans(M)
        /\ o.match.related = RelatedTo(M, context)
    <3>. HIDE DEF E
    <3>. QED  BY ONLY o \in Selected(c, context, S, rows), OptionIsAdmissible
  <2>2. \A i \in RelatedTo(M, context) : InWindow(Start(M), i)
    BY DEF RelatedTo
  <2>. QED  BY <1>2, <2>1, <2>2
<1>4. \A r \in CurrentIncidents : E \cap r.members = {}
  <2>1. \A s \in Owning(S) : E \cap s.owned = {}
    BY <1>3 DEF Admissible
  <2>2. E \in SUBSET Inputs /\ \A i \in E : Near(Occurred[c], i)
    BY <1>2
  <2>. HIDE DEF E
  <2>. QED  BY <2>1, <2>2, NewEvidenceIsFree
<1>5. anchor \in M /\ anchor \in Inputs
  BY <1>2, SomeInputs
<1>6. /\ \A r \in CurrentIncidents : r.id # anchor
      /\ \A r \in incidentRows : r.id # anchor
  <2>1. \A r \in CurrentIncidents : r.id # anchor
    <3>1. \A r \in CurrentIncidents : r.id \in r.members
      BY DEF Coherent, WellFormed
    <3>. QED  BY <1>2, <1>4, <1>5, <3>1
  <2>2. \A r \in incidentRows : \E t \in CurrentIncidents : t.id = r.id
    <3>1. /\ IsFiniteSet(CommittedIncidents(incidentRows))
          /\ \A t \in CommittedIncidents(incidentRows) : t.revision \in Nat
      BY RowsAreServed DEF Servable
    <3>2. \A t \in CommittedIncidents(incidentRows) : \E q \in CurrentIncidents : q.id = t.id
      BY <3>1, LatestExists DEF CurrentIncidents
    <3>. QED  BY <3>2, AllIsVisible DEF Visible
  <2>. QED  BY <2>1, <2>2
<1>7. Linked[anchor] = {}
  BY <1>5, <1>6 DEF Coherent
<1>. HIDE DEF M, E, anchor
<1>8. \A i \in E : InWindow(start, i) /\ Takes(NewTerms(start), i)
  <2>1. \A i \in E : Observed[i] <= Deadline(Start(E))
    BY <1>3 DEF Admissible, E
  <2>. QED  BY <1>2, <1>3, <2>1, NewEvidenceIsTaken
<1>9. /\ E \subseteq members /\ members \subseteq Inputs
      /\ \A i \in members : InWindow(start, i)
  <2>1. E \subseteq approved /\ approved \subseteq Inputs /\ owned \subseteq Inputs
    BY <1>2
  <2>. HIDE DEF approved, owned, start
  <2>. QED  BY <1>8, <2>1 DEF MembersOf
<1>10. d = Failed \/ d = result
  <2>. DEFINE owner  == IF o.owner # {} THEN o.owner
                        ELSE Nearest(c, {s \in Partial(S) : Covers(s, c)})
              held   == Owning(owner)
              prior  == context \cap UNION {s.owned : s \in owner}
              name   == IF held # {} THEN The(held).incident ELSE Max(o.match.members)
              old    == {r \in rows : r.id = name}
              known  == held # {} \/ old # {}
              kept   == IF known THEN Linked[name] ELSE {}
              first  == IF old # {} THEN UNION {r.qualifying : r \in old} ELSE o.match.members
              canon  == IF held # {} THEN UNION {s.qualifying : s \in held} ELSE first
              from   == IF held # {} THEN The(held).start ELSE Start(first)
              terms  == TermsOf(old, from)
              all    == MembersOf(from, terms, kept, prior, approved)
              carried == TermsOf(old, Start(first))
              row    == NextIncident(name, old, c, all, first, carried)
              same   == \E r \in old : r.members = all /\ r.token \in Inputs
              clash  == {r \in incidentRows : r.id = name}
              stored == old = {} /\ clash # {}
              next   == NextEpisode(owner, S, c, o.match.members, name, all, canon, from,
                                    row.deadline)
  <2>1. \/ known
        \/ d = Failed
        \/ d = [failed |-> FALSE, anchor |-> name, qualifying |-> first,
                incident |-> IF same \/ stored THEN {} ELSE {row},
                links |-> all \ Linked[name], episode |-> {next}]
    BY ZenonT(40) DEF MatchDecision, E
  <2>2. owner = state /\ held = {} /\ prior = owned
    <3>1. owner = state
      OBVIOUS
    <3>2. \A s \in state : s.incident = 0
      BY DEF Partial, Nearest
    <3>. HIDE DEF owner, state
    <3>. QED  BY <3>1, <3>2 DEF Owning
  <2>. HIDE DEF owner, state, owned, approved, held, prior
  <2>3. name = anchor
    BY <2>2 DEF anchor, M
  <2>. HIDE DEF name
  <2>4. old = {} /\ clash = {}
    BY <1>6, <2>3
  <2>. HIDE DEF old, clash
  <2>5. ~ stored /\ ~ same /\ ~ known /\ kept = {} /\ first = M
    BY <2>2, <2>4 DEF M
  <2>. HIDE DEF stored, same, known, kept, first
  <2>6. canon = M /\ from = start
    BY <2>2, <2>5
  <2>. HIDE DEF canon, from
  <2>7. terms = NewTerms(start) /\ carried = NewTerms(start)
    BY <2>4, <2>5, <2>6 DEF TermsOf
  <2>. HIDE DEF terms, carried
  <2>8. all = members /\ all \ Linked[name] = members
    BY <1>7, <2>2, <2>3, <2>5, <2>6, <2>7
  <2>. HIDE DEF all
  <2>9. row = incident
    BY <2>2, <2>3, <2>4, <2>5, <2>7, <2>8 DEF M
  <2>. HIDE DEF row, incident
  <2>10. next = episode
    BY <2>2, <2>3, <2>5, <2>6, <2>8, <2>9 DEF M
  <2>. HIDE DEF next, episode, members
  <2>. QED  BY ZenonT(40), <2>1, <2>3, <2>5, <2>8, <2>9, <2>10
<1>. SUFFICES ASSUME d = result
              PROVE  OpensOne(d, c) /\ TakesContext(d, context) /\ NamesEpisode(d, S)
  BY <1>10
<1>11. ~ condition.derived =>
         \A i \in context : InWindow(start, i) /\ Observed[i] <= Deadline(start) => i \in members
  <2>1. NewTerms(start).deadline = Deadline(start) /\ NewTerms(start).status # "closed"
    BY DEF NewTerms
  <2>2. ~ condition.derived => approved = context
    OBVIOUS
  <2>. HIDE DEF approved, owned, start
  <2>. QED  BY <2>1, <2>2 DEF MembersOf, Takes
<1>0. EpisodeId(state, M) \in M \/ \E s \in Partial(S) : s.id = EpisodeId(state, M)
  <2>1. state = {} \/ The(state) \in Partial(S)
    BY DEF Nearest, The
  <2>2. Min(M) \in M
    BY <1>2, SomeInputs
  <2>. HIDE DEF state
  <2>. QED  BY <2>1, <2>2 DEF EpisodeId
<1>12. Follows(d, c, S, rows, Linked, incidentRows)
  BY <1>1, MatchDecisionFollows
<1>. HIDE DEF members, start, state
<1>13. /\ incident.id = anchor /\ incident.qualifying = M /\ incident.members = members
       /\ episode.token = c /\ episode.incident = anchor /\ episode.owned = members
       /\ episode.qualifying = M /\ episode.start = start
       /\ episode.id = EpisodeId(state, M)
  BY DEF NextIncident, NextEpisode
<1>. HIDE DEF incident, episode
<1>14. /\ d.incident = {incident} /\ d.links = members /\ d.episode = {episode}
       /\ d.anchor = anchor
  <2>1. /\ result.incident = {incident} /\ result.links = members
        /\ result.episode = {episode} /\ result.anchor = anchor
    OBVIOUS
  <2>. HIDE DEF result
  <2>. QED  BY <2>1
<1>. HIDE DEF result
<1>15. incident.revision = 1
  <2>1. Opens(incident) \/ \E p \in rows : Extends(p, incident)
    BY <1>12, <1>14 DEF Follows, IncidentFollows
  <2>. QED  BY <1>6, <1>13, <2>1 DEF Opens, Extends, Precedes
<1>16. Starts(episode)
  <2>1. episode \in S \/ episode.revision = 1 \/ \E s \in S : Continues(s, episode)
    BY <1>12, <1>14 DEF Follows, EpisodeFollows
  <2>2. S \subseteq CurrentEpisodes
    BY LoadedAreCurrent
  <2>3. \A s \in CurrentEpisodes : s.incident # anchor
    <3>1. anchor # 0
      BY <1>5, TimesAreNatural
    <3>. QED  BY <1>6, <3>1 DEF Coherent, Episodes, Owning
  <2>4. \A s \in S : Continues(s, episode) => s \in Partial(CurrentEpisodes)
    BY <1>13, <2>2, <2>3 DEF Continues, Partial
  <2>. QED  BY <1>13, <2>1, <2>2, <2>3, <2>4 DEF Starts
<1>17. WellFormed(incident) /\ Owns(episode, incident)
  BY <1>2, <1>5, <1>9, <1>13 DEF WellFormed, Owns, start
<1>18. \A r \in CurrentIncidents : r.members \cap incident.qualifying = {}
  BY <1>2, <1>4, <1>13
<1>19. \A r \in Visible : r.id # incident.id
  BY <1>6, <1>13 DEF Visible, CommittedIncidents
<1>20. c \in incident.members
  BY <1>2, <1>9, <1>13
<1>21. OpensOne(d, c)
  BY <1>13, <1>14, <1>15, <1>16, <1>17, <1>18, <1>19, <1>20 DEF OpensOne
<1>22. TakesContext(d, context)
  BY <1>2, <1>11, <1>13, <1>14 DEF TakesContext, start
<1>23. NamesEpisode(d, S)
  BY <1>0, <1>13, <1>14 DEF NamesEpisode
<1>. QED  BY <1>21, <1>22, <1>23

\* A match with an owner adds evidence to the incident of that episode, and loses
\* none of it; it does nothing if it fails, and if the input is evidence already but
\* lies outside the interval or comes too late.
LEMMA MatchEnriches ==
  ASSUME EngineInv, Clean, Coherent, pc \notin Persisting,
         NEW c \in Inputs, c \notin ledger,
         NEW context \in SUBSET Inputs,
         NEW S, S = LoadedEpisodes(c),
         NEW rows, rows = {r \in CurrentIncidents : \E s \in Owning(S) : s.incident = r.id},
         NEW o \in Selected(c, context, S, rows), o.owner # {},
         NEW d, d = MatchDecision(c, context, S, rows, Linked, incidentRows, o)
  PROVE  \/ d = Failed
         \/ d = Stateless /\ \E s \in Episodes : c \in s.owned
         \/ EnrichesOne(d, c)
<1>1. /\ condition \in Conditions /\ S \in SUBSET EpisodeRow
      /\ \A s \in S : s.start \in Nat /\ s.incident \in {0} \cup Inputs /\ s.id \in Inputs
  <2>1. rows \in SUBSET CurrentIncidents
    OBVIOUS
  <2>2. Loadable(c, context, S, rows, Linked, incidentRows)
    BY <2>1, EvaluationLoads
  <2>. QED  BY <2>2, LoadedStates DEF Loadable
<1>2. PICK s \in Owning(S) : o.owner = {s}
  <2>1. o.owner \in SUBSET Owning(S) /\ \A t, u \in o.owner : t = u
    BY ZenonT(40), <1>1, OptionHasOneOwner
  <2>. QED  BY <2>1
<1>3. s \in S /\ s \in Episodes /\ s.incident # 0 /\ s.token # c /\ Owning({s}) = {s}
  <2>1. S \subseteq CurrentEpisodes
    BY LoadedAreCurrent
  <2>2. \A t \in CurrentEpisodes : t.token \in ledger
    BY DEF CurrentEpisodes, Latest, Committed
  <2>. QED  BY <2>1, <2>2 DEF Owning, Episodes
<1>4. PICK r \in CurrentIncidents :
        /\ r.id = s.incident /\ Owns(s, r) /\ WellFormed(r) /\ r.members = Linked[r.id]
  <2>1. PICK r \in CurrentIncidents : r.id = s.incident
    BY <1>3 DEF Coherent
  <2>2. PICK t \in Episodes : Owns(t, r)
    BY DEF Coherent
  <2>3. t = s
    BY <1>3, <2>1, <2>2 DEF Coherent, Owns
  <2>. QED  BY <2>1, <2>2, <2>3 DEF Coherent
<1>5. {q \in rows : q.id = s.incident} = {r}
  <2>1. r \in rows
    BY <1>2, <1>4
  <2>2. \A q \in CurrentIncidents : q.id = r.id => q = r
    BY OneRowIsVisible DEF EngineInv
  <2>. QED  BY <1>4, <2>1, <2>2
<1>6. Evidence(o.match) \in SUBSET context /\ c \in Evidence(o.match)
  <2>1. o.match \in Matches(c, context)
    BY <1>1, OptionHasOneOwner
  <2>. QED  BY <1>1, <2>1, MatchHasInputs
<1>. DEFINE M        == o.match.members
            start    == s.start
            terms    == TermsOf({r}, start)
            carried  == TermsOf({r}, Start(r.qualifying))
            owned    == context \cap s.owned
            approved == IF condition.derived THEN Evidence(o.match) ELSE context
            members  == MembersOf(start, terms, r.members, owned, approved)
            incident == NextIncident(r.id, {r}, c, members, r.qualifying, carried)
            episode  == NextEpisode({s}, S, c, M, r.id, members, s.qualifying, start,
                                    incident.deadline)
            same     == r.members = members /\ r.token \in Inputs
            result   == [failed |-> FALSE, anchor |-> r.id, qualifying |-> r.qualifying,
                         incident |-> IF same THEN {} ELSE {incident},
                         links |-> members \ r.members, episode |-> {episode}]
<1>7. \/ d = Failed
      \/ d = Stateless /\ ~ (InWindow(start, c) /\ Takes(terms, c))
      \/ d = result /\ InWindow(start, c) /\ Takes(terms, c)
  <2>. DEFINE state  == IF o.owner # {} THEN o.owner
                        ELSE Nearest(c, {t \in Partial(S) : Covers(t, c)})
              held   == Owning(state)
              name   == IF held # {} THEN The(held).incident ELSE Max(o.match.members)
              old    == {q \in rows : q.id = name}
              known  == held # {} \/ old # {}
              kept   == IF known THEN Linked[name] ELSE {}
              first  == IF old # {} THEN UNION {q.qualifying : q \in old} ELSE o.match.members
              canon  == IF held # {} THEN UNION {t.qualifying : t \in held} ELSE first
              from   == IF held # {} THEN The(held).start ELSE Start(first)
              until  == TermsOf(old, from)
              prior  == context \cap UNION {t.owned : t \in state}
              all    == MembersOf(from, until, kept, prior, approved)
              lasting == TermsOf(old, Start(first))
              row    == NextIncident(name, old, c, all, first, lasting)
              equal  == \E q \in old : q.members = all /\ q.token \in Inputs
              clash  == {q \in incidentRows : q.id = name}
              stored == old = {} /\ clash # {}
              next   == NextEpisode(state, S, c, o.match.members, name, all, canon, from,
                                    row.deadline)
  <2>1. \/ d = Failed
        \/ d = Stateless /\ ~ (InWindow(from, c) /\ Takes(until, c))
        \/ /\ known => InWindow(from, c) /\ Takes(until, c)
           /\ d = [failed |-> FALSE, anchor |-> name, qualifying |-> first,
                   incident |-> IF equal \/ stored THEN {} ELSE {row},
                   links |-> all \ Linked[name], episode |-> {next}]
    BY ZenonT(40) DEF MatchDecision
  <2>2. state = {s} /\ held = {s}
    BY <1>2, <1>3
  <2>. HIDE DEF state, held
  <2>3. prior = owned /\ The(held) = s
    BY <2>2 DEF The
  <2>4. name = r.id /\ canon = s.qualifying /\ from = start /\ known
    BY <1>4, <2>2, <2>3
  <2>. HIDE DEF prior, owned, name, canon, from, known
  <2>5. old = {r}
    BY <1>4, <1>5, <2>4
  <2>. HIDE DEF old
  <2>6. kept = r.members /\ first = r.qualifying /\ until = terms /\ ~ stored
    BY <1>4, <2>4, <2>5
  <2>9. lasting = carried
    BY <2>5, <2>6
  <2>. HIDE DEF kept, first, until, stored, terms, start, lasting, carried
  <2>7. all = members
    BY <2>3, <2>4, <2>6
  <2>. HIDE DEF all, members
  <2>8. row = incident /\ equal = same
    BY <2>4, <2>5, <2>6, <2>7, <2>9
  <2>. HIDE DEF row, incident, same, equal
  <2>10. next = episode
    BY <2>2, <2>4, <2>7, <2>8
  <2>. HIDE DEF next, episode
  <2>. QED  BY ZenonT(40), <1>4, <2>1, <2>4, <2>6, <2>7, <2>8, <2>10
<1>19. c \in s.owned \/ (InWindow(start, c) /\ Takes(terms, c))
  <2>1. s \in Attachable(c, S, rows, o.match)
    <3>1. PICK m \in Matches(c, context) :
            o = [match |-> m, owner |-> Nearest(c, Attachable(c, S, rows, m))]
      BY DEF Selected, Options
    <3>2. Nearest(c, Attachable(c, S, rows, o.match)) = {s}
      BY <1>2, <3>1
    <3>. QED  BY <3>2 DEF Nearest
  <2>2. Terms(s, rows) = terms
    BY <1>5 DEF Terms
  <2>. HIDE DEF terms
  <2>. QED  BY <1>6, <2>1, <2>2 DEF Attachable, Covers
<1>. SUFFICES ASSUME d = result, InWindow(start, c), Takes(terms, c) PROVE EnrichesOne(d, c)
  <2>. HIDE DEF terms, start, result
  <2>. QED  BY <1>3, <1>7, <1>19
<1>8. /\ r.members \subseteq members /\ c \in members
      /\ \A i \in members : InWindow(start, i)
  <2>1. c \in approved /\ \A i \in r.members : InWindow(start, i)
    BY <1>4, <1>6 DEF Owns, WellFormed
  <2>. HIDE DEF start, terms, owned, approved
  <2>. QED  BY <2>1 DEF MembersOf
<1>0. r.status = "closed" => \A i \in members \ r.members : Occurred[i] <= r.closedAt
  <2>1. terms.status = r.status /\ terms.closedAt = r.closedAt
    BY DEF TermsOf, The
  <2>2. owned \subseteq r.members
    BY <1>4 DEF Owns
  <2>. HIDE DEF start, terms, owned, approved
  <2>. QED  BY <2>1, <2>2 DEF MembersOf, Takes
<1>9. r.revision \in Nat /\ s.revision \in Nat
  <2>1. r \in incidentRows
    BY DEF CurrentIncidents, Latest, CommittedIncidents
  <2>. QED  BY <1>1, <1>3, <2>1, LoadedStates DEF EngineInv, TypeOK, IncidentRow
<1>10. /\ Max({0} \cup {q.revision : q \in {r}}) = r.revision
       /\ Max({0} \cup {t.revision : t \in {s}}) = s.revision
  <2>1. {q.revision : q \in {r}} = {r.revision} /\ {t.revision : t \in {s}} = {s.revision}
    OBVIOUS
  <2>2. ASSUME NEW x \in Nat PROVE Max({0} \cup {x}) = x
    <3>1. {x} \in SUBSET Nat /\ \A y, z \in {x} : y = z
      OBVIOUS
    <3>. QED  BY <3>1, MaxOfOne
  <2>3. /\ Max({0} \cup {r.revision}) = r.revision
        /\ Max({0} \cup {s.revision}) = s.revision
    BY <1>9, <2>2
  <2>. QED  BY <2>1, <2>3
<1>. HIDE DEF members, start, terms, carried
<1>11. Precedes(r, incident) /\ incident.members = members
  BY <1>9, <1>10 DEF NextIncident, Precedes
<1>12. /\ Continues(s, episode) /\ episode.qualifying = s.qualifying
       /\ episode.token = c /\ episode.owned = members
  <2>1. EpisodeId({s}, M) = s.id
    BY DEF EpisodeId, The
  <2>2. ~ \E t \in {s} : t.token = c
    BY <1>3
  <2>3. /\ episode.id = s.id /\ episode.revision = s.revision + 1
        /\ episode.incident = r.id /\ episode.start = start
        /\ episode.qualifying = s.qualifying /\ episode.token = c /\ episode.owned = members
    BY <1>9, <1>10, <2>1, <2>2 DEF NextEpisode
  <2>. QED  BY <1>4, <2>3 DEF Continues, start
<1>. HIDE DEF incident, episode
<1>13. /\ d.incident = IF same THEN {} ELSE {incident}
       /\ d.links = members \ r.members /\ d.episode = {episode} /\ d.anchor = r.id
  <2>1. /\ result.incident = IF same THEN {} ELSE {incident}
        /\ result.links = members \ r.members
        /\ result.episode = {episode} /\ result.anchor = r.id
    OBVIOUS
  <2>. HIDE DEF result, same
  <2>. QED  BY <2>1
<1>14. same => d.links = {}
  BY <1>13
<1>. HIDE DEF result, same
<1>15. episode.owned = r.members \cup d.links
  BY <1>8, <1>12, <1>13
<1>16. \/ d.incident = {} /\ d.links = {}
       \/ \E n \in d.incident : d.incident = {n} /\ Precedes(r, n) /\ n.members = episode.owned
  BY <1>11, <1>12, <1>13, <1>14
<1>17. c \in episode.owned /\ \A i \in episode.owned : InWindow(s.start, i)
  BY <1>8, <1>12 DEF start
<1>18. r.status = "closed" => \A i \in d.links : Occurred[i] <= r.closedAt
  BY <1>0, <1>13
<1>. QED  BY <1>3, <1>4, <1>12, <1>13, <1>15, <1>16, <1>17, <1>18 DEF EnrichesOne

\* An unmatched input opens a partial episode, continues one or does nothing.
LEMMA PartialIgnores ==
  ASSUME EngineInv, Clean, pc \notin Persisting,
         NEW c \in Inputs, c \notin ledger, NEW context \in SUBSET Inputs,
         NEW S, S = LoadedEpisodes(c),
         NEW d, d = PartialDecision(c, context, S)
  PROVE  Ignores(d, c)
<1>1. /\ d.incident = {} /\ d.links = {}
      /\ \A e \in d.episode : e.token = c /\ e.incident = 0
  <2>. DEFINE replay   == {s \in Partial(S) : s.token = c}
              open     == {s \in Partial(S) : InWindow(s.start, c)
                                                /\ Observed[c] <= Deadline(s.start)}
              existing == {s \in open : \A t \in open \ {s} :
                             \/ s.start < t.start
                             \/ s.start = t.start
                                  /\ condition.episodes[s.id] < condition.episodes[t.id]}
              unowned  == context \ UNION {s.owned : s \in S \ existing}
              free     == IF condition.kind = "sequence" THEN Prefix(unowned, existing)
                          ELSE unowned
              start    == IF existing # {} THEN The(existing).start ELSE Start(free)
              prior    == UNION {s.owned : s \in existing}
              members  == {i \in free : InWindow(start, i)
                                          /\ (i \in prior \/ Observed[i] <= Deadline(start))}
              episode  == [id |-> EpisodeId(existing, members),
                           revision |-> 1 + Max({0} \cup {s.revision : s \in existing}),
                           token |-> c, qualifying |-> {}, incident |-> 0, start |-> start,
                           owned |-> members, deadline |-> Deadline(start),
                           collisions |-> Max({0} \cup {s.collisions : s \in existing})]
              replayed == {s \in replay : c \in s.owned}
  <2>1. \/ d = Stateless
        \/ d = Failed
        \/ d = [Stateless EXCEPT !.episode = replayed]
        \/ d = [Stateless EXCEPT !.episode = {episode}]
    BY ZenonT(40) DEF PartialDecision
  <2>2. /\ \A e \in replayed : e.token = c /\ e.incident = 0
        /\ episode.token = c /\ episode.incident = 0
    BY DEF Partial
  <2>. HIDE DEF replayed, episode
  <2>. QED  BY <2>1, <2>2 DEF Stateless, Failed
<1>2. EpisodeFollows(d, c, S, incidentRows)
  <2>1. Loadable(c, context, S, {}, Linked, incidentRows)
    BY EvaluationLoads
  <2>. QED  BY <2>1, PartialDecisionFollows DEF Follows
<1>3. S \subseteq CurrentEpisodes /\ \A t \in S : t.token # c
  <2>1. S \subseteq CurrentEpisodes
    BY LoadedAreCurrent
  <2>. QED  BY <2>1 DEF CurrentEpisodes, Latest, Committed
<1>4. ASSUME NEW e \in d.episode PROVE (\A f \in d.episode : f = e) /\ Starts(e)
  <2>1. /\ \A f \in d.episode : f = e
        /\ e.revision = 1 \/ \E s \in S : Continues(s, e)
    BY <1>1, <1>2, <1>3 DEF EpisodeFollows
  <2>2. \A s \in S : Continues(s, e) => s \in Partial(CurrentEpisodes)
    BY <1>1, <1>3 DEF Continues, Partial
  <2>. QED  BY <2>1, <2>2 DEF Starts
<1>. QED  BY <1>1, <1>4 DEF Ignores

\* Whatever is decided leaves incidents alone, opens one or adds evidence to one.
LEMMA DecisionFollowsVisible ==
  ASSUME EngineInv, Clean, Coherent, pc \notin Persisting,
         NEW c \in Inputs, c \notin ledger,
         NEW context \in SUBSET Inputs, \A i \in context : Near(Occurred[c], i),
         NEW d, d = Decide(c, context)
  PROVE  Ignores(d, c) \/ OpensOne(d, c) \/ EnrichesOne(d, c)
<1>1. PICK S : S = LoadedEpisodes(c)
  OBVIOUS
<1>2. PICK rows : rows = {r \in CurrentIncidents : \E s \in Owning(S) : s.incident = r.id}
  OBVIOUS
<1>. DEFINE selected == Selected(c, context, S, rows)
<1>3. \/ d = Stateless
      \/ d = Failed
      \/ d = PartialDecision(c, context, S)
      \/ /\ The(selected) \in selected
         /\ d = MatchDecision(c, context, S, rows, Linked, incidentRows, The(selected))
  <2>1. selected # {} => The(selected) \in selected
    BY DEF The
  <2>2. d = Failed \/ d = Evaluate(c, context, S, rows, Linked, incidentRows)
    BY <1>1, <1>2 DEF Decide
  <2>. QED  BY <2>1, <2>2 DEF Evaluate
<1>. HIDE DEF selected
<1>4. Ignores(Stateless, c) /\ Ignores(Failed, c)
  BY DEF Ignores, Stateless, Failed
<1>5. ASSUME d = PartialDecision(c, context, S) PROVE Ignores(d, c)
  BY <1>1, <1>5, PartialIgnores
<1>6. ASSUME NEW o \in selected,
             d = MatchDecision(c, context, S, rows, Linked, incidentRows, o)
      PROVE  d = Stateless \/ d = Failed \/ OpensOne(d, c) \/ EnrichesOne(d, c)
  <2>1. o \in Selected(c, context, S, rows)
    BY DEF selected
  <2>2. CASE o.owner = {}
    BY <1>1, <1>2, <1>6, <2>1, <2>2, MatchOpens
  <2>3. CASE o.owner # {}
    BY <1>1, <1>2, <1>6, <2>1, <2>3, MatchEnriches
  <2>. QED  BY <2>2, <2>3
<1>. QED  BY <1>3, <1>4, <1>5, <1>6

(***************************************************************************)
(* Steps that change nothing visible                                       *)
(***************************************************************************)
\* A candidate is evaluated over inputs of its window, cached or read now.
LEMMA EvaluatedInItsWindow ==
  ASSUME EngineInv, ContextsAreWindows, EvaluateCandidate
  PROVE  /\ ContextsAreWindows'
         /\ \E c \in todo, context \in SUBSET sources :
              /\ \A i \in context : Near(Occurred[c], i)
              /\ \/ UNCHANGED <<pc, candidate, decision>>
                 \/ pc' = "writeIncident" /\ candidate' = c /\ decision' = Decide(c, context)
<1>1. PICK c \in todo :
        LET known   == Occurred[c] \in DOMAIN contexts
            context == IF c \in Invalid THEN {c}
                       ELSE IF known THEN contexts[Occurred[c]] ELSE SourceWindow(c)
            kept    == IF Cardinality(DOMAIN contexts) >= CacheSlots THEN <<>> ELSE contexts
        IN  \E d \in {Decide(c, context)} :
            /\ contexts' = IF c \in Invalid \/ known \/ Cardinality(context) > ContextLimit
                           THEN contexts
                           ELSE [t \in {Occurred[c]} \cup DOMAIN kept |->
                                   IF t = Occurred[c] THEN context ELSE kept[t]]
            /\ IF HasEffects(d)
               THEN pc' = "writeIncident" /\ candidate' = c /\ decision' = d
               ELSE UNCHANGED <<pc, current>>
  BY DEF EvaluateCandidate
<1>. DEFINE known   == Occurred[c] \in DOMAIN contexts
            context == IF c \in Invalid THEN {c}
                       ELSE IF known THEN contexts[Occurred[c]] ELSE SourceWindow(c)
            kept    == IF Cardinality(DOMAIN contexts) >= CacheSlots THEN <<>> ELSE contexts
            d       == Decide(c, context)
<1>2. /\ contexts' = IF c \in Invalid \/ known \/ Cardinality(context) > ContextLimit
                           THEN contexts
                     ELSE [t \in {Occurred[c]} \cup DOMAIN kept |->
                             IF t = Occurred[c] THEN context ELSE kept[t]]
      /\ IF HasEffects(d)
         THEN pc' = "writeIncident" /\ candidate' = c /\ decision' = d
         ELSE UNCHANGED <<pc, current>>
  BY <1>1
<1>3. context \in SUBSET sources /\ \A i \in context : Near(Occurred[c], i)
  <2>1. c \in sources /\ c \in Inputs
    BY DEF EngineInv, TypeOK
  <2>2. Occurred[c] \in Nat /\ Window \in Nat
    BY <2>1, TimesAreNatural, RuleAssumption
  <2>. QED  BY <2>1, <2>2 DEF SourceWindow, EngineInv, TypeOK, ContextsAreWindows, Near
<1>4. \A t \in DOMAIN kept : \A i \in kept[t] : Near(t, i)
  BY DEF ContextsAreWindows
<1>5. d = Decide(c, context)
  OBVIOUS
<1>. HIDE DEF known, context, kept, d
<1>6. ContextsAreWindows'
  <2>1. CASE contexts' = contexts
    BY <2>1 DEF ContextsAreWindows
  <2>2. CASE contexts' = [t \in {Occurred[c]} \cup DOMAIN kept |->
                            IF t = Occurred[c] THEN context ELSE kept[t]]
    BY <1>3, <1>4, <2>2 DEF ContextsAreWindows
  <2>. QED  BY <1>2, <2>1, <2>2
<1>. QED  BY <1>2, <1>3, <1>5, <1>6

\* The cache of a page holds windows.
LEMMA ContextsStayWindows ==
  ASSUME EngineInv, ContextsAreWindows, [Next]_vars
  PROVE  ContextsAreWindows'
<1>1. contexts' = contexts \/ contexts' = <<>> \/ EvaluateCandidate
  BY DEF Next, Cycle, Persist, Arrive, FetchCandidates, WriteIncident, WriteDetectionLinks,
         WriteEventLinks, WriteEpisodeState, PersistenceConflict, MarkEvaluated,
         MarkStateless, SaveSchedule, Crash, EndCycle
<1>2. CASE EvaluateCandidate
  BY <1>2, EvaluatedInItsWindow
<1>3. CASE contexts' = contexts
  BY <1>3 DEF ContextsAreWindows
<1>4. CASE contexts' = <<>>
  BY <1>4 DEF ContextsAreWindows
<1>. QED  BY <1>1, <1>2, <1>3, <1>4

\* The rows of a decision carry the token of its candidate, which is not evaluated.
LEMMA DecisionIsProvisional ==
  ASSUME EngineInv
  PROVE  /\ \A r \in decision.incident : r.token = candidate /\ r.token \in Inputs \ ledger
         /\ \A l \in LinksOf(decision) : l.token \in Inputs \ ledger
         /\ \A e \in decision.episode : e \in episodeRows \/ e.token \in Inputs \ ledger
         /\ pc \notin Persisting => /\ decision.incident = {} /\ decision.links = {}
                                    /\ decision.episode = {} /\ LinksOf(decision) = {}
<1>1. CASE pc \in Persisting
  <2>1. candidate \in Inputs \ ledger
    BY <1>1 DEF EngineInv, PageIsSplit, TypeOK
  <2>. QED  BY <1>1, <2>1 DEF EngineInv, Sound, LinksOf
<1>2. CASE pc \notin Persisting
  <2>1. decision = Stateless
    BY <1>2 DEF EngineInv, PageIsSplit
  <2>2. decision.incident = {} /\ decision.links = {} /\ decision.episode = {}
    BY <2>1 DEF Stateless
  <2>. QED  BY <2>2 DEF LinksOf
<1>. QED  BY <1>1, <1>2

\* Only MarkEvaluated changes what is visible: the other steps write rows of an
\* input that is not evaluated, or evaluate inputs that have no rows.
LEMMA VisibleIsKept ==
  ASSUME EngineInv, Clean, [Next]_vars, ~ MarkEvaluated
  PROVE  /\ Visible' = Visible /\ VisibleEpisodes' = VisibleEpisodes
         /\ Committed(linkRows)' = Committed(linkRows)
<1>1. CASE MarkStateless
  <2>1. /\ pc \notin Persisting /\ UNCHANGED <<incidentRows, linkRows, episodeRows, audits>>
        /\ ledger \subseteq ledger' /\ ledger' \subseteq Inputs
    BY <1>1 DEF MarkStateless, Goto, Persisting, EngineInv, TypeOK
  <2>2. /\ \A r \in incidentRows : r.token \in Inputs => r.token \in ledger
        /\ \A l \in linkRows : l.token \in ledger
        /\ \A e \in episodeRows : e.token \in ledger
    BY <2>1 DEF Clean
  <2>. QED  BY <2>1, <2>2 DEF Visible, VisibleEpisodes, CommittedIncidents, Committed
<1>2. CASE ~ MarkStateless
  <2>1. ledger' = ledger /\ audits' = audits
    BY <1>2 DEF Next, Cycle, Persist, Arrive, FetchCandidates, EvaluateCandidate,
         WriteIncident, WriteDetectionLinks, WriteEventLinks, WriteEpisodeState,
         PersistenceConflict, SaveSchedule, Crash, EndCycle
  <2>2. linkRows' \subseteq linkRows \cup LinksOf(decision)
    BY DEF Next, Cycle, Persist, Arrive, FetchCandidates, EvaluateCandidate, WriteIncident,
           WriteDetectionLinks, WriteEventLinks, WriteEpisodeState, PersistenceConflict,
           MarkEvaluated, MarkStateless, SaveSchedule, Crash
  <2>3. /\ incidentRows \subseteq incidentRows' /\ episodeRows \subseteq episodeRows'
        /\ linkRows \subseteq linkRows'
        /\ incidentRows' \subseteq incidentRows \cup decision.incident
        /\ episodeRows' \subseteq episodeRows \cup decision.episode
    BY TablesGrow
  <2>4. /\ \A r \in incidentRows' : r \in incidentRows \/ r.token \notin ledger
        /\ \A l \in linkRows' : l \in linkRows \/ l.token \notin ledger
        /\ \A e \in episodeRows' : e \in episodeRows \/ e.token \notin ledger
    BY <2>2, <2>3, DecisionIsProvisional
  <2>5. /\ \A a \in audits : a.id \notin Inputs
        /\ \A r \in incidentRows' : r \in incidentRows \/ r.token \in Inputs
    BY <2>3, DecisionIsProvisional DEF Clean
  <2>. QED  BY <2>1, <2>3, <2>4, <2>5 DEF Visible, VisibleEpisodes, CommittedIncidents, Committed
<1>. QED  BY <1>1, <1>2

\* Rows stay clean: those of the decision at hand are written in order, and no
\* others are left.
LEMMA CleanIsKept ==
  ASSUME EngineInv, Clean, NothingIsLeftBehind', [Next]_vars
  PROVE  Clean'
<1>1. /\ audits' = audits /\ \A a \in audits : a.id \notin Inputs
      /\ \A r \in incidentRows' : r.token \notin Inputs => r.revision # 1
  BY TablesGrow, DecisionIsProvisional DEF Clean
<1>2. CASE pc' \notin Persisting
  <2>1. ~ Provisional'
    BY <1>2 DEF NothingIsLeftBehind, Persisting
  <2>2. /\ \A r \in incidentRows' : r.token \in Inputs => r.token \in ledger'
        /\ \A l \in linkRows' : l.token \in ledger'
        /\ \A e \in episodeRows' : e.token \in ledger'
    BY <1>1, <2>1 DEF Provisional, Committed
  <2>. QED  BY <1>1, <1>2, <2>2 DEF Clean, Persisting
<1>3. CASE pc' \in Persisting /\ EvaluateCandidate
  <2>1. pc \notin Persisting /\ pc' \notin {"writeEpisode", "markEvaluated"}
        /\ UNCHANGED <<incidentRows, linkRows, episodeRows, ledger>>
    BY <1>3 DEF EvaluateCandidate, Persisting
  <2>. QED  BY <1>1, <2>1 DEF Clean
<1>4. CASE pc' \in Persisting /\ ~ EvaluateCandidate
  <2>1. /\ pc \in Persisting /\ UNCHANGED <<ledger, candidate, decision>>
        /\ \/ UNCHANGED <<pc, tables>>
           \/ WriteIncident
           \/ WriteDetectionLinks
           \/ WriteEventLinks
           \/ WriteEpisodeState
    BY <1>4 DEF Next, Cycle, Persist, Arrive, FetchCandidates, PersistenceConflict, WriteIncident,
         WriteDetectionLinks, WriteEventLinks, WriteEpisodeState, Goto, NextCandidate,
         MarkEvaluated, MarkStateless, SaveSchedule, Crash, EndCycle, Persisting
  <2>2. LinksOf(decision)' = LinksOf(decision)
    BY <2>1 DEF LinksOf, Relationship
  <2>3. incidentRows' \subseteq incidentRows \cup decision.incident
        /\ episodeRows' \subseteq episodeRows \cup decision.episode
    BY TablesGrow
  <2>4. /\ linkRows' \subseteq linkRows \cup LinksOf(decision)
        /\ pc' \in {"writeEpisode", "markEvaluated"} => LinksOf(decision) \subseteq linkRows'
        /\ pc' = "markEvaluated" => decision.episode \subseteq episodeRows'
    BY <2>1 DEF Clean, WriteIncident, WriteDetectionLinks, WriteEventLinks,
                WriteEpisodeState, Goto
  <2>. QED  BY <1>1, <1>4, <2>1, <2>2, <2>3, <2>4 DEF Clean
<1>. QED  BY <1>2, <1>3, <1>4

\* The same rows are current, and the same links, when the same are visible.
LEMMA CurrentIsKept ==
  ASSUME Visible' = Visible, VisibleEpisodes' = VisibleEpisodes,
         Committed(linkRows)' = Committed(linkRows)
  PROVE  /\ CurrentIncidents' = CurrentIncidents /\ CurrentEpisodes' = CurrentEpisodes
         /\ Episodes' = Episodes /\ Linked' = Linked
<1>1. CurrentIncidents' = CurrentIncidents
  BY DEF CurrentIncidents, Latest, Visible
<1>2. CurrentEpisodes' = CurrentEpisodes
  BY DEF CurrentEpisodes, Latest, VisibleEpisodes
<1>3. Episodes' = Episodes
  BY <1>2 DEF Episodes, Owning
<1>4. Linked' = Linked
  BY DEF Linked
<1>. QED  BY <1>1, <1>2, <1>3, <1>4

\* What is coherent stays so in these steps, and what is decided follows it.
LEMMA QuietSteps ==
  ASSUME EngineInv, EvidenceInv, NothingIsLeftBehind', [Next]_vars, ~ MarkEvaluated
  PROVE  EvidenceInv'
<1>1. /\ Visible' = Visible /\ VisibleEpisodes' = VisibleEpisodes
      /\ CurrentIncidents' = CurrentIncidents /\ CurrentEpisodes' = CurrentEpisodes
      /\ Episodes' = Episodes /\ Linked' = Linked
  BY VisibleIsKept, CurrentIsKept DEF EvidenceInv
<1>2. FirstIsVisible'
  BY <1>1 DEF EvidenceInv, FirstIsVisible
<1>3. Coherent'
  BY <1>1 DEF EvidenceInv, Coherent, OneQualification, Owns, WellFormed
<1>4. Clean' /\ ContextsAreWindows'
  BY CleanIsKept, ContextsStayWindows DEF EvidenceInv
<1>5. ASSUME NEW d, NEW c, Ignores(d, c) \/ OpensOne(d, c) \/ EnrichesOne(d, c),
             decision' = d, candidate' = c
      PROVE  FollowsVisible'
  <2>1. \A e : Starts(e) => Starts(e)'
    BY <1>1 DEF Starts, Partial, Continues
  <2>2. Ignores(d, c) => Ignores(decision, candidate)'
    BY <1>5, <2>1 DEF Ignores
  <2>3. OpensOne(d, c) => OpensOne(decision, candidate)'
    BY <1>1, <1>5, <2>1 DEF OpensOne, WellFormed, Owns
  <2>4. EnrichesOne(d, c) => EnrichesOne(decision, candidate)'
    <3>1. EnrichesOne(d, c)' <=> EnrichesOne(d, c)
      BY <1>1 DEF EnrichesOne, Owns, Continues, Precedes
    <3>2. EnrichesOne(decision, candidate)' <=> EnrichesOne(d, c)'
      BY <1>5 DEF EnrichesOne
    <3>. QED  BY <3>1, <3>2
  <2>. QED  BY <1>5, <2>2, <2>3, <2>4 DEF FollowsVisible
<1>6. FollowsVisible'
  <2>1. \/ pc' \notin Persisting
        \/ pc \in Persisting /\ UNCHANGED <<candidate, decision>>
        \/ EvaluateCandidate
    BY DEF Next, Cycle, Persist, Arrive, FetchCandidates, PersistenceConflict, WriteIncident,
         WriteDetectionLinks, WriteEventLinks, WriteEpisodeState, Goto, NextCandidate,
         MarkEvaluated, MarkStateless, SaveSchedule, Crash, EndCycle, Persisting
  <2>2. CASE pc' \notin Persisting
    BY <2>2 DEF FollowsVisible, Persisting
  <2>3. CASE pc \in Persisting /\ UNCHANGED <<candidate, decision>>
    <3>1. PICK d, c : d = decision /\ c = candidate
      OBVIOUS
    <3>2. Ignores(d, c) \/ OpensOne(d, c) \/ EnrichesOne(d, c)
      BY <2>3, <3>1 DEF EvidenceInv, FollowsVisible
    <3>. QED  BY <1>5, <2>3, <3>1, <3>2
  <2>4. CASE EvaluateCandidate
    <3>1. PICK c \in todo, context \in SUBSET sources :
              /\ \A i \in context : Near(Occurred[c], i)
              /\ \/ UNCHANGED <<pc, candidate, decision>>
                 \/ pc' = "writeIncident" /\ candidate' = c /\ decision' = Decide(c, context)
      BY <2>4, EvaluatedInItsWindow DEF EvidenceInv
    <3>2. pc \notin Persisting /\ c \in Inputs \ ledger /\ context \in SUBSET Inputs
      BY <2>4 DEF EvaluateCandidate, Persisting, EngineInv, TypeOK
    <3>3. CASE UNCHANGED <<pc, candidate, decision>>
      BY <3>2, <3>3 DEF FollowsVisible, Persisting
    <3>4. CASE candidate' = c /\ decision' = Decide(c, context)
      <4>1. PICK d : d = Decide(c, context)
        OBVIOUS
      <4>2. Ignores(d, c) \/ OpensOne(d, c) \/ EnrichesOne(d, c)
        BY <3>1, <3>2, <4>1, DecisionFollowsVisible DEF EvidenceInv
      <4>. QED  BY <1>5, <3>4, <4>1, <4>2
    <3>. QED  BY <3>1, <3>3, <3>4
  <2>. QED  BY <2>1, <2>2, <2>3, <2>4
<1>. QED  BY <1>2, <1>3, <1>4, <1>6 DEF EvidenceInv

(***************************************************************************)
(* The step that makes a decision visible                                  *)
(***************************************************************************)
\* A first revision is served besides the others.
LEMMA ServeFirst ==
  ASSUME NEW V, NEW x, x.revision \in Nat, \A v \in V : v.id # x.id
  PROVE  Latest(V \cup {x}) = Latest(V) \cup {x}
<1>1. x.revision <= x.revision
  OBVIOUS
<1>. QED  BY <1>1 DEF Latest

\* The next revision is served in place of the one before.
LEMMA ServeNext ==
  ASSUME NEW V, NEW p \in Latest(V), NEW x, x.id = p.id, x.revision = p.revision + 1,
         \A v \in V : v.revision \in Nat,
         \A v, w \in V : v.id = w.id /\ v.revision = w.revision => v = w
  PROVE  Latest(V \cup {x}) = (Latest(V) \ {p}) \cup {x}
<1>1. p \in V /\ p.revision \in Nat /\ x.revision \in Nat
  BY DEF Latest
<1>2. \A v \in V : v.id = p.id => v.revision <= p.revision /\ v.revision <= x.revision
                                  /\ ~ (x.revision <= v.revision)
  BY <1>1 DEF Latest
<1>3. ~ (x.revision <= p.revision) /\ x.revision <= x.revision
  BY <1>1
<1>4. \A v \in Latest(V) : v.id = p.id => v = p
  BY <1>1, <1>2 DEF Latest
<1>5. ASSUME NEW v \in Latest(V \cup {x}) PROVE v \in (Latest(V) \ {p}) \cup {x}
  BY <1>1, <1>3, <1>5 DEF Latest
<1>6. ASSUME NEW v \in (Latest(V) \ {p}) \cup {x} PROVE v \in Latest(V \cup {x})
  <2>1. CASE v = x
    BY <1>2, <1>3, <2>1 DEF Latest
  <2>2. CASE v \in Latest(V) \ {p}
    <3>1. v.id # x.id
      BY <1>4, <2>2
    <3>. QED  BY <2>2, <3>1 DEF Latest
  <2>. QED  BY <1>6, <2>1, <2>2
<1>. QED  BY <1>5, <1>6

\* All that a decision wrote becomes visible at once, and nothing else.
LEMMA MarkShowsDecision ==
  ASSUME EngineInv, Clean, NothingIsLeftBehind', MarkEvaluated
  PROVE  /\ Visible' = Visible \cup decision.incident
         /\ VisibleEpisodes' = VisibleEpisodes \cup decision.episode
         /\ decision.incident \subseteq incidentRows /\ decision.episode \subseteq episodeRows
         /\ \A x \in Inputs : Linked'[x] = Linked[x] \cup
                                IF x = decision.anchor THEN decision.links ELSE {}
<1>1. /\ pc = "markEvaluated" /\ pc' \notin Persisting /\ ledger' = ledger \cup {candidate}
      /\ UNCHANGED <<incidentRows, linkRows, episodeRows, audits>>
      /\ candidate \in Inputs /\ ledger \subseteq Inputs
  BY DEF MarkEvaluated, NextCandidate, Persisting, EngineInv, PageIsSplit, TypeOK
<1>2. Clean'
  <2>1. [Next]_vars
    BY DEF Next, Cycle, Persist
  <2>. QED  BY <2>1, CleanIsKept
<1>3. /\ decision.incident \subseteq incidentRows /\ decision.episode \subseteq episodeRows
      /\ LinksOf(decision) \subseteq linkRows
  BY <1>1 DEF EngineInv, IncidentIsFirst, Clean
<1>4. /\ \A r \in incidentRows : r.token \in Inputs => r.token \in ledger'
      /\ \A l \in linkRows : l.token \in ledger'
      /\ \A e \in episodeRows : e.token \in ledger'
  BY <1>1, <1>2 DEF Clean, Persisting
<1>5. /\ \A r \in incidentRows :
           r.token \in Inputs => r.token \in ledger \/ r \in decision.incident
      /\ \A r \in decision.incident : r.token \in Inputs
      /\ episodeRows = VisibleEpisodes \cup decision.episode
      /\ linkRows = Committed(linkRows) \cup LinksOf(decision)
  BY <1>3, DecisionIsProvisional DEF Clean, VisibleEpisodes, Committed
<1>6. /\ Visible' = Visible \cup decision.incident
      /\ VisibleEpisodes' = episodeRows /\ Committed(linkRows)' = linkRows
  <2>1. \A r \in incidentRows : r.token \in ledger' <=> r.token \in ledger \/ r \in decision.incident
    <3>1. \A r \in incidentRows : r.token \in ledger' => r.token \in Inputs
      BY <1>1
    <3>. QED  BY <1>1, <1>3, <1>4, <1>5, <3>1
  <2>. QED  BY <1>1, <1>3, <1>4, <2>1 DEF Visible, CommittedIncidents, VisibleEpisodes, Committed
<1>7. ASSUME NEW x \in Inputs
      PROVE  Linked'[x] = Linked[x] \cup IF x = decision.anchor THEN decision.links ELSE {}
  <2>1. Linked'[x] = {l.input : l \in {k \in Committed(linkRows) \cup LinksOf(decision) :
                                         k.incident = x}}
    BY <1>5, <1>6 DEF Linked
  <2>2. Linked[x] = {l.input : l \in {k \in Committed(linkRows) : k.incident = x}}
    BY DEF Linked
  <2>3. {l.input : l \in {k \in LinksOf(decision) : k.incident = x}} =
          IF x = decision.anchor THEN decision.links ELSE {}
    <3>1. /\ \A l \in LinksOf(decision) : l.incident = decision.anchor /\ l.input \in decision.links
          /\ \A i \in decision.links : \E l \in LinksOf(decision) : l.input = i
      <4>. DEFINE link(i) == [incident |-> decision.anchor, input |-> i, token |-> candidate,
                             relationship |-> Relationship(decision, i)]
      <4>1. \A i : link(i).incident = decision.anchor /\ link(i).input = i
        OBVIOUS
      <4>2. LinksOf(decision) = {link(i) : i \in decision.links}
        BY DEF LinksOf
      <4>. HIDE DEF link
      <4>. QED  BY <4>1, <4>2
    <3>. QED  BY <3>1
  <2>. QED  BY <2>1, <2>2, <2>3
<1>. QED  BY <1>3, <1>5, <1>6, <1>7

\* An episode that is started has a visible first revision, and disturbs no
\* episode that has an incident.
LEMMA StartedEpisode ==
  ASSUME EngineInv, FirstIsVisible, NEW e \in episodeRows, e.token \notin ledger, Starts(e)
  PROVE  /\ Owning(Latest(VisibleEpisodes \cup {e})) = Episodes \cup Owning({e})
         /\ \E f \in VisibleEpisodes \cup {e} : f.id = e.id /\ f.revision = 1
<1>1. /\ \A v \in episodeRows : v.revision \in Nat
      /\ \A v, w \in episodeRows : v.id = w.id /\ v.revision = w.revision => v = w
      /\ VisibleEpisodes \subseteq episodeRows
      /\ \A v \in VisibleEpisodes : v.token \in ledger
  BY RowsAreServed DEF Servable, VisibleEpisodes, Committed
<1>2. CASE e.revision = 1
  <2>1. \A v \in VisibleEpisodes : v.id # e.id
    BY <1>1, <1>2 DEF FirstIsVisible
  <2>2. Latest(VisibleEpisodes \cup {e}) = CurrentEpisodes \cup {e}
    BY <1>1, <2>1, ServeFirst DEF CurrentEpisodes, VisibleEpisodes
  <2>. QED  BY <1>2, <2>2 DEF Episodes, Owning
<1>3. CASE \E s \in Partial(CurrentEpisodes) : Continues(s, e)
  <2>1. PICK s \in CurrentEpisodes : s.incident = 0 /\ Continues(s, e)
    BY <1>3 DEF Partial
  <2>2. s \in Latest(VisibleEpisodes) /\ s \in VisibleEpisodes
    BY DEF CurrentEpisodes, VisibleEpisodes, Latest
  <2>3. Latest(VisibleEpisodes \cup {e}) = (CurrentEpisodes \ {s}) \cup {e}
    <3>1. Latest(VisibleEpisodes \cup {e}) = (Latest(VisibleEpisodes) \ {s}) \cup {e}
      BY <1>1, <2>1, <2>2, ServeNext DEF Continues
    <3>. QED  BY <3>1 DEF CurrentEpisodes, VisibleEpisodes
  <2>4. \E f \in VisibleEpisodes : f.id = e.id /\ f.revision = 1
    BY <2>1, <2>2 DEF FirstIsVisible, Continues
  <2>. QED  BY <2>1, <2>3, <2>4 DEF Episodes, Owning
<1>. QED  BY <1>2, <1>3 DEF Starts

\* What MarkEvaluated does to incidents, links and the episodes that have one.
LEMMA MarkIgnores ==
  ASSUME EngineInv, EvidenceInv, NothingIsLeftBehind', MarkEvaluated,
         Ignores(decision, candidate)
  PROVE  /\ CurrentIncidents' = CurrentIncidents /\ Episodes' = Episodes
         /\ \A x \in Inputs : Linked'[x] = Linked[x]
         /\ FirstIsVisible'
<1>1. /\ Visible' = Visible /\ VisibleEpisodes' = VisibleEpisodes \cup decision.episode
      /\ decision.episode \subseteq episodeRows
      /\ \A x \in Inputs : Linked'[x] = Linked[x]
  BY MarkShowsDecision DEF EvidenceInv, Ignores
<1>2. candidate \notin ledger
  BY DEF MarkEvaluated, EngineInv, PageIsSplit, Persisting
<1>3. CurrentIncidents' = CurrentIncidents
  BY <1>1 DEF CurrentIncidents, Visible, Latest
<1>4. Episodes' = Owning(Latest(VisibleEpisodes \cup decision.episode))
  BY <1>1 DEF Episodes, Owning, CurrentEpisodes, Latest, VisibleEpisodes
<1>5. Episodes = Owning(Latest(VisibleEpisodes))
  BY DEF Episodes, CurrentEpisodes, VisibleEpisodes
<1>6. CASE decision.episode = {}
  <2>1. VisibleEpisodes' = VisibleEpisodes
    BY <1>1, <1>6
  <2>2. FirstIsVisible'
    BY <2>1 DEF EvidenceInv, FirstIsVisible
  <2>3. VisibleEpisodes \cup decision.episode = VisibleEpisodes
    BY <1>6
  <2>. QED  BY <1>1, <1>3, <1>4, <1>5, <2>2, <2>3
<1>7. ASSUME NEW e \in decision.episode
      PROVE  Episodes' = Episodes /\ FirstIsVisible'
  <2>1. decision.episode = {e} /\ e.token = candidate /\ e.incident = 0 /\ Starts(e)
    BY DEF Ignores
  <2>2. /\ Owning(Latest(VisibleEpisodes \cup {e})) = Episodes \cup Owning({e})
        /\ \E f \in VisibleEpisodes \cup {e} : f.id = e.id /\ f.revision = 1
    BY <1>1, <1>2, <2>1, StartedEpisode DEF EvidenceInv
  <2>3. Owning({e}) = {}
    BY <2>1 DEF Owning
  <2>4. Episodes' = Episodes
    BY <1>4, <2>1, <2>2, <2>3
  <2>5. FirstIsVisible'
    BY <1>1, <2>1, <2>2 DEF EvidenceInv, FirstIsVisible
  <2>. QED  BY <2>4, <2>5
<1>. QED  BY <1>1, <1>3, <1>6, <1>7

\* An incident that is opened, its links and its episode become visible together.
LEMMA MarkOpens ==
  ASSUME EngineInv, EvidenceInv, NothingIsLeftBehind', MarkEvaluated,
         OpensOne(decision, candidate)
  PROVE  /\ FirstIsVisible'
         /\ \E n \in decision.incident, e \in decision.episode :
              /\ CurrentIncidents' = CurrentIncidents \cup {n}
              /\ Episodes' = Episodes \cup {e}
              /\ \A x \in Inputs : Linked'[x] = IF x = n.id THEN n.members ELSE Linked[x]
              /\ WellFormed(n) /\ Owns(e, n) /\ candidate \in n.members
              /\ n.id \in Inputs /\ e.incident # 0 /\ \A r \in CurrentIncidents : r.id # n.id
              /\ \A r \in CurrentIncidents : r.members \cap n.qualifying = {}
<1>1. PICK n \in decision.incident, e \in decision.episode :
        /\ decision.incident = {n} /\ decision.episode = {e} /\ e.token = candidate
        /\ n.id = decision.anchor /\ n.revision = 1 /\ decision.links = n.members
        /\ WellFormed(n) /\ candidate \in n.members
        /\ Owns(e, n) /\ Starts(e)
        /\ \A r \in Visible : r.id # n.id
        /\ \A r \in CurrentIncidents : r.members \cap n.qualifying = {}
  BY DEF OpensOne
<1>2. /\ Visible' = Visible \cup {n} /\ VisibleEpisodes' = VisibleEpisodes \cup {e}
      /\ e \in episodeRows /\ n \in incidentRows
      /\ \A x \in Inputs : Linked'[x] = Linked[x] \cup IF x = n.id THEN n.members ELSE {}
  BY <1>1, MarkShowsDecision DEF EvidenceInv
<1>3. candidate \notin ledger
  BY DEF MarkEvaluated, EngineInv, PageIsSplit, Persisting
<1>4. n.id \in Inputs /\ n.id # 0
  <2>1. n.id \in Inputs
    BY <1>2 DEF EngineInv, TypeOK, IncidentRow
  <2>. QED  BY <2>1, TimesAreNatural
<1>5. CurrentIncidents' = CurrentIncidents \cup {n}
  <2>1. CurrentIncidents' = Latest(Visible \cup {n})
    BY <1>2 DEF CurrentIncidents, Visible, Latest
  <2>2. Latest(Visible \cup {n}) = Latest(Visible) \cup {n}
    BY SMTT(20), <1>1, ServeFirst
  <2>. QED  BY <2>1, <2>2 DEF CurrentIncidents, Visible
<1>6. e.incident # 0
  BY <1>1, <1>4 DEF Owns
<1>7. /\ Owning(Latest(VisibleEpisodes \cup {e})) = Episodes \cup Owning({e})
      /\ \E f \in VisibleEpisodes \cup {e} : f.id = e.id /\ f.revision = 1
  BY <1>1, <1>2, <1>3, StartedEpisode DEF EvidenceInv
<1>8. Episodes' = Episodes \cup {e}
  <2>1. Episodes' = Owning(Latest(VisibleEpisodes \cup {e}))
    BY <1>2 DEF Episodes, Owning, CurrentEpisodes, Latest, VisibleEpisodes
  <2>2. Owning({e}) = {e}
    BY <1>6 DEF Owning
  <2>. QED  BY <1>7, <2>1, <2>2
<1>9. FirstIsVisible'
  BY <1>2, <1>7 DEF EvidenceInv, FirstIsVisible
<1>10. \A r \in CurrentIncidents : r.id # n.id
  BY <1>1 DEF CurrentIncidents, Visible, Latest
<1>11. Linked[n.id] = {}
  BY <1>4, <1>10 DEF EvidenceInv, Coherent
<1>12. \A x \in Inputs : Linked'[x] = IF x = n.id THEN n.members ELSE Linked[x]
  BY ZenonT(40), <1>2, <1>11
<1>. QED  BY <1>1, <1>4, <1>5, <1>6, <1>8, <1>9, <1>10, <1>12

\* Evidence that is added becomes visible in the incident, its links and its
\* episode together.
LEMMA MarkEnriches ==
  ASSUME EngineInv, EvidenceInv, NothingIsLeftBehind', MarkEvaluated,
         EnrichesOne(decision, candidate)
  PROVE  /\ FirstIsVisible'
         /\ \E r \in CurrentIncidents, s \in Episodes, e \in decision.episode, n \in incidentRows :
              /\ CurrentIncidents' = (CurrentIncidents \ {r}) \cup {n}
              /\ Episodes' = (Episodes \ {s}) \cup {e}
              /\ \A x \in Inputs : Linked'[x] = IF x = r.id THEN n.members ELSE Linked[x]
              /\ n.id = r.id /\ n.qualifying = r.qualifying
              /\ r.members \subseteq n.members
              /\ WellFormed(n) /\ Owns(s, r) /\ Owns(e, n) /\ e.incident # 0
              /\ candidate \in n.members
<1>1. PICK r \in CurrentIncidents, s \in Episodes, e \in decision.episode :
    /\ decision.episode = {e} /\ e.token = candidate
    /\ r.id = decision.anchor /\ Owns(s, r)
    /\ Continues(s, e) /\ e.qualifying = s.qualifying
    /\ e.owned = r.members \cup decision.links /\ candidate \in e.owned
    /\ \A i \in e.owned : InWindow(s.start, i)
    /\ \/ decision.incident = {} /\ decision.links = {}
       \/ \E n \in decision.incident :
            decision.incident = {n} /\ Precedes(r, n) /\ n.members = e.owned
  BY ZenonT(40) DEF EnrichesOne
<1>2. /\ Visible' = Visible \cup decision.incident
      /\ VisibleEpisodes' = VisibleEpisodes \cup {e}
      /\ decision.incident \subseteq incidentRows /\ e \in episodeRows
      /\ \A x \in Inputs : Linked'[x] = Linked[x] \cup IF x = r.id THEN decision.links ELSE {}
  BY <1>1, MarkShowsDecision DEF EvidenceInv
<1>3. /\ \A v \in episodeRows : v.revision \in Nat
      /\ \A v, w \in episodeRows : v.id = w.id /\ v.revision = w.revision => v = w
      /\ VisibleEpisodes \subseteq episodeRows
      /\ \A v \in incidentRows : v.revision \in Nat
      /\ \A v, w \in incidentRows : v.id = w.id /\ v.revision = w.revision => v = w
      /\ Visible \subseteq incidentRows
  BY RowsAreServed DEF Servable, Visible, VisibleEpisodes
<1>4. /\ s \in Latest(VisibleEpisodes) /\ s \in VisibleEpisodes /\ s.incident # 0
      /\ r \in Latest(Visible) /\ r \in Visible
  BY DEF Episodes, Owning, CurrentEpisodes, VisibleEpisodes, CurrentIncidents, Visible, Latest
<1>5. r.id \in Inputs /\ r.members = Linked[r.id] /\ WellFormed(r)
  BY <1>3, <1>4 DEF EngineInv, TypeOK, IncidentRow, EvidenceInv, Coherent
<1>6. e.incident = s.incident /\ e.start = s.start /\ e.incident # 0
  BY <1>1, <1>4 DEF Continues
<1>7. Episodes' = (Episodes \ {s}) \cup {e}
  <2>1. Episodes' = Owning(Latest(VisibleEpisodes \cup {e}))
    BY <1>2 DEF Episodes, Owning, CurrentEpisodes, Latest, VisibleEpisodes
  <2>2. Latest(VisibleEpisodes \cup {e}) = (Latest(VisibleEpisodes) \ {s}) \cup {e}
    BY <1>1, <1>3, <1>4, ServeNext DEF Continues
  <2>3. Episodes = Owning(Latest(VisibleEpisodes))
    BY DEF Episodes, CurrentEpisodes, VisibleEpisodes
  <2>. QED  BY <1>6, <2>1, <2>2, <2>3 DEF Owning
<1>8. FirstIsVisible'
  BY <1>1, <1>2, <1>4 DEF EvidenceInv, FirstIsVisible, Continues
<1>9. ASSUME NEW n \in incidentRows,
             CurrentIncidents' = (CurrentIncidents \ {r}) \cup {n},
             n.id = r.id, n.qualifying = r.qualifying, n.members = e.owned
      PROVE  /\ \A x \in Inputs : Linked'[x] = IF x = r.id THEN n.members ELSE Linked[x]
             /\ r.members \subseteq n.members
             /\ WellFormed(n) /\ Owns(e, n) /\ candidate \in n.members
  <2>1. /\ s.incident = r.id /\ s.qualifying = r.qualifying /\ s.start = Start(r.qualifying)
        /\ r.id \in r.qualifying /\ r.qualifying \subseteq r.members
    BY <1>1, <1>5 DEF Owns, WellFormed
  <2>2. Owns(e, n)
    BY <1>1, <1>6, <1>9, <2>1 DEF Owns
  <2>3. WellFormed(n)
    BY <1>1, <1>9, <2>1 DEF WellFormed
  <2>4. \A x \in Inputs : Linked'[x] = IF x = r.id THEN n.members ELSE Linked[x]
    <3>1. n.members = Linked[r.id] \cup decision.links
      BY <1>1, <1>5, <1>9
    <3>. QED  BY <1>2, <3>1
  <2>. QED  BY <1>1, <1>9, <2>2, <2>3, <2>4
<1>10. CASE decision.incident = {} /\ decision.links = {}
  <2>1. CurrentIncidents' = (CurrentIncidents \ {r}) \cup {r}
    BY <1>2, <1>10 DEF CurrentIncidents, Visible, Latest
  <2>2. r.members = e.owned /\ r \in incidentRows
    BY <1>1, <1>3, <1>4, <1>10
  <2>. QED  BY <1>1, <1>6, <1>7, <1>8, <1>9, <2>1, <2>2
<1>11. ASSUME NEW n \in decision.incident, decision.incident = {n}, Precedes(r, n),
              n.members = e.owned
       PROVE  CurrentIncidents' = (CurrentIncidents \ {r}) \cup {n}
  <2>1. CurrentIncidents' = Latest(Visible \cup {n})
    BY <1>2, <1>11 DEF CurrentIncidents, Visible, Latest
  <2>2. Latest(Visible \cup {n}) = (Latest(Visible) \ {r}) \cup {n}
    BY <1>3, <1>4, <1>11, ServeNext DEF Precedes
  <2>. QED  BY <2>1, <2>2 DEF CurrentIncidents, Visible
<1>12. ASSUME NEW n \in decision.incident, decision.incident = {n}, Precedes(r, n),
              n.members = e.owned
       PROVE  /\ n \in incidentRows /\ n.id = r.id /\ n.qualifying = r.qualifying
              /\ CurrentIncidents' = (CurrentIncidents \ {r}) \cup {n}
  BY <1>2, <1>11, <1>12 DEF Precedes
<1>. QED  BY <1>1, <1>6, <1>7, <1>8, <1>9, <1>10, <1>12

\* Incidents, links and episodes stay coherent when a decision becomes visible.
LEMMA MarkKeepsCoherent ==
  ASSUME EngineInv, EvidenceInv, NothingIsLeftBehind', MarkEvaluated
  PROVE  Coherent' /\ FirstIsVisible'
<1>1. /\ \A r \in CurrentIncidents :
           WellFormed(r) /\ r.members = Linked[r.id] /\ \E s \in Episodes : Owns(s, r)
      /\ \A x \in Inputs : Linked[x] # {} => \E r \in CurrentIncidents : r.id = x
      /\ \A s \in Episodes : \E r \in CurrentIncidents : r.id = s.incident
      /\ \A s, t \in Episodes : s.incident = t.incident => s = t
      /\ \A r, q \in CurrentIncidents : r # q => r.qualifying \cap q.qualifying = {}
  BY DEF EvidenceInv, Coherent, OneQualification
<1>2. /\ \A r \in CurrentIncidents : r.id \in Inputs
      /\ \A r, q \in CurrentIncidents : r.id = q.id => r = q
  BY OneRowIsVisible DEF CurrentIncidents, Latest, CommittedIncidents, EngineInv, TypeOK, IncidentRow
<1>3. SUFFICES
        /\ \A r \in CurrentIncidents' :
             WellFormed(r) /\ r.members = Linked'[r.id] /\ \E s \in Episodes' : Owns(s, r)
        /\ \A x \in Inputs : Linked'[x] # {} => \E r \in CurrentIncidents' : r.id = x
        /\ \A s \in Episodes' : \E r \in CurrentIncidents' : r.id = s.incident
        /\ \A s, t \in Episodes' : s.incident = t.incident => s = t
        /\ \A r, q \in CurrentIncidents' : r # q => r.qualifying \cap q.qualifying = {}
        /\ FirstIsVisible'
  BY DEF Coherent, OneQualification, WellFormed, Owns
<1>4. CASE Ignores(decision, candidate)
  <2>1. /\ CurrentIncidents' = CurrentIncidents /\ Episodes' = Episodes
        /\ \A x \in Inputs : Linked'[x] = Linked[x]
        /\ FirstIsVisible'
    BY <1>4, MarkIgnores
  <2>. QED  BY <1>1, <1>2, <2>1
<1>5. CASE OpensOne(decision, candidate)
  <2>1. PICK n \in decision.incident, e \in decision.episode :
          /\ CurrentIncidents' = CurrentIncidents \cup {n}
          /\ Episodes' = Episodes \cup {e}
          /\ \A x \in Inputs : Linked'[x] = IF x = n.id THEN n.members ELSE Linked[x]
          /\ WellFormed(n) /\ Owns(e, n)
          /\ n.id \in Inputs /\ \A r \in CurrentIncidents : r.id # n.id
          /\ \A r \in CurrentIncidents : r.members \cap n.qualifying = {}
    BY <1>5, MarkOpens
  <2>2. \A r \in CurrentIncidents' :
          WellFormed(r) /\ r.members = Linked'[r.id] /\ \E s \in Episodes' : Owns(s, r)
    BY <1>1, <1>2, <2>1
  <2>3. /\ \A x \in Inputs : Linked'[x] # {} => \E r \in CurrentIncidents' : r.id = x
        /\ \A s \in Episodes' : \E r \in CurrentIncidents' : r.id = s.incident
    BY <1>1, <2>1 DEF Owns
  <2>4. \A s, t \in Episodes' : s.incident = t.incident => s = t
    BY <1>1, <2>1 DEF Owns
  <2>5. \A r \in CurrentIncidents : r.qualifying \cap n.qualifying = {}
    BY <1>1, <2>1 DEF WellFormed
  <2>6. \A r, q \in CurrentIncidents' : r # q => r.qualifying \cap q.qualifying = {}
    BY <1>1, <2>1, <2>5
  <2>7. FirstIsVisible'
    BY <1>5, MarkOpens
  <2>. QED  BY <2>2, <2>3, <2>4, <2>6, <2>7
<1>6. CASE EnrichesOne(decision, candidate)
  <2>1. PICK r \in CurrentIncidents, s \in Episodes, e \in decision.episode, n \in incidentRows :
          /\ CurrentIncidents' = (CurrentIncidents \ {r}) \cup {n}
          /\ Episodes' = (Episodes \ {s}) \cup {e}
          /\ \A x \in Inputs : Linked'[x] = IF x = r.id THEN n.members ELSE Linked[x]
          /\ n.id = r.id /\ n.qualifying = r.qualifying
          /\ r.members \subseteq n.members
          /\ WellFormed(n) /\ Owns(s, r) /\ Owns(e, n)
    BY <1>6, MarkEnriches
  <2>2. \A q \in CurrentIncidents \ {r} : q.id # r.id
    BY <1>2
  <2>3. \A q \in CurrentIncidents \ {r} : \A t \in Episodes : Owns(t, q) => t # s
    BY <2>1, <2>2 DEF Owns
  <2>4. \A q \in CurrentIncidents' :
          WellFormed(q) /\ q.members = Linked'[q.id] /\ \E t \in Episodes' : Owns(t, q)
    <3>1. ASSUME NEW q \in CurrentIncidents \ {r}
          PROVE  WellFormed(q) /\ q.members = Linked'[q.id] /\ \E t \in Episodes' : Owns(t, q)
      BY <1>1, <1>2, <2>1, <2>2, <2>3
    <3>2. WellFormed(n) /\ n.members = Linked'[n.id] /\ \E t \in Episodes' : Owns(t, n)
      BY <1>2, <2>1
    <3>. QED  BY <2>1, <3>1, <3>2
  <2>5. \A x \in Inputs : Linked'[x] # {} => \E q \in CurrentIncidents' : q.id = x
    BY <1>1, <2>1
  <2>6. \A t \in Episodes' : \E q \in CurrentIncidents' : q.id = t.incident
    BY <1>1, <2>1 DEF Owns
  <2>7. \A t, u \in Episodes' : t.incident = u.incident => t = u
    BY <1>1, <2>1 DEF Owns
  <2>8. \A p, q \in CurrentIncidents' : p # q => p.qualifying \cap q.qualifying = {}
    BY <1>1, <2>1
  <2>9. FirstIsVisible'
    BY <1>6, MarkEnriches
  <2>. QED  BY <2>4, <2>5, <2>6, <2>7, <2>8, <2>9
<1>7. pc \in Persisting
  BY DEF MarkEvaluated, Persisting
<1>. QED  BY <1>4, <1>5, <1>6, <1>7 DEF EvidenceInv, FollowsVisible

\* Every step keeps the invariant, as long as nothing is left behind.
LEMMA EvidenceIsKept ==
  ASSUME EngineInv, EvidenceInv, NothingIsLeftBehind', [Next]_vars
  PROVE  EvidenceInv'
<1>1. CASE MarkEvaluated
  <2>1. Clean' /\ ContextsAreWindows'
    BY CleanIsKept, ContextsStayWindows DEF EvidenceInv
  <2>2. FollowsVisible'
    BY <1>1 DEF MarkEvaluated, NextCandidate, FollowsVisible, Persisting
  <2>. QED  BY <1>1, <2>1, <2>2, MarkKeepsCoherent DEF EvidenceInv
<1>2. CASE ~ MarkEvaluated
  BY <1>2, QuietSteps
<1>. QED  BY <1>1, <1>2

\* There is no row yet.
LEMMA InitialEvidence == Init => EvidenceInv
<1>. SUFFICES ASSUME Init PROVE EvidenceInv
  OBVIOUS
<1>1. /\ incidentRows = {} /\ linkRows = {} /\ episodeRows = {} /\ audits = {}
      /\ contexts = <<>> /\ pc = "idle"
  BY DEF Init, IdleLocals
<1>2. Clean /\ ContextsAreWindows /\ FirstIsVisible /\ FollowsVisible
  BY <1>1 DEF Clean, ContextsAreWindows, FirstIsVisible, FollowsVisible, VisibleEpisodes,
              Committed, Persisting
<1>3. CurrentIncidents = {} /\ Episodes = {} /\ \A x \in Inputs : Linked[x] = {}
  BY <1>1 DEF CurrentIncidents, CommittedIncidents, Latest, Episodes, Owning, CurrentEpisodes,
              Committed, Linked
<1>4. Coherent
  BY <1>3 DEF Coherent, OneQualification
<1>. QED  BY <1>2, <1>4 DEF EvidenceInv

\* What the invariant says to a reader of the views.
LEMMA EvidenceAgrees ==
  EngineInv /\ EvidenceInv => SnapshotMatchesLinks /\ EpisodeMatchesIncident /\ OneQualification
<1>1. EvidenceInv => SnapshotMatchesLinks /\ OneQualification
  BY DEF EvidenceInv, Coherent, SnapshotMatchesLinks
<1>2. ASSUME EngineInv, EvidenceInv, NEW r \in CurrentIncidents,
             NEW S, S = {s \in CurrentEpisodes : s.incident = r.id}
      PROVE  Cardinality(S) = 1 /\ \A s \in S : s.owned = r.members /\ s.qualifying = r.qualifying
  <2>1. r.id # 0
    BY <1>2, TimesAreNatural DEF CurrentIncidents, Latest, CommittedIncidents,
                                 EngineInv, TypeOK, IncidentRow
  <2>2. PICK s \in Episodes : Owns(s, r)
    BY <1>2 DEF EvidenceInv, Coherent
  <2>3. S = {s}
    BY <1>2, <2>1, <2>2 DEF EvidenceInv, Coherent, Episodes, Owning, Owns
  <2>. QED  BY <2>2, <2>3, FS_Singleton DEF Owns
<1>3. EngineInv /\ EvidenceInv => EpisodeMatchesIncident
  BY <1>2 DEF EpisodeMatchesIncident
<1>. QED  BY <1>1, <1>3

(***************************************************************************)
(* Theorems                                                                *)
(***************************************************************************)
\* Incidents, links and episodes tell the same as long as no stop and no conflict
\* leaves rows behind, in whatever order and between whatever calls inputs arrive.
THEOREM EvidenceInvariant == Spec /\ []NothingIsLeftBehind => []EvidenceInv
<1>1. EngineInv /\ EvidenceInv /\ NothingIsLeftBehind' /\ [Next]_vars => EvidenceInv'
  BY EvidenceIsKept
<1>. QED  BY <1>1, InitialEvidence, EngineInvariant, PTL DEF Spec

\* The snapshot of a visible incident and the visible links, the authority on
\* membership, agree.
THEOREM SnapshotsMatchLinks == Spec /\ []NothingIsLeftBehind => []SnapshotMatchesLinks
  BY EvidenceAgrees, EngineInvariant, EvidenceInvariant, PTL

\* A visible incident has exactly one visible episode state, which owns the
\* evidence of the incident and nothing else.
THEOREM EpisodesMatchIncidents == Spec /\ []NothingIsLeftBehind => []EpisodeMatchesIncident
  BY EvidenceAgrees, EngineInvariant, EvidenceInvariant, PTL

\* No input qualifies two incidents.
THEOREM InputsQualifyOnce == Spec /\ []NothingIsLeftBehind => []OneQualification
  BY EvidenceAgrees, EngineInvariant, EvidenceInvariant, PTL

\* A visible incident never disappears, goes back to an earlier revision, loses
\* evidence or changes the inputs that opened it.
THEOREM VisibleIncidentsOnlyGrow == Spec /\ []NothingIsLeftBehind => IncidentsOnlyGrow
  BY SnapshotsMatchLinks, EvidenceOnlyGrows, PTL

(***************************************************************************)
(* The engine implements IncidentContract                                  *)
(***************************************************************************)
\* What the contract sees of an incident.
View(r) == [id |-> r.id, qualifying |-> r.qualifying, members |-> Linked[r.id]]
Shown == {View(r) : r \in CurrentIncidents}

\* A step of the contract, on what it sees of the engine.
ContractStep ==
  \/ \E K \in SUBSET Inputs : ledger' = ledger \cup K /\ Shown' = Shown
  \/ \E Q, M \in SUBSET Inputs : \E id \in Q :
       /\ \A x \in Shown : x.id # id /\ x.members \cap Q = {}
       /\ Q \in Qualifying(Inputs) /\ Q \subseteq M /\ candidate \in M
       /\ Shown' = Shown \cup {[id |-> id, qualifying |-> Q, members |-> M]}
       /\ ledger' = ledger \cup {candidate}
  \/ \E x \in Shown, N \in SUBSET Inputs :
       /\ candidate \in Inputs /\ candidate \in x.members \cup N
       /\ Shown' = (Shown \ {x}) \cup {[x EXCEPT !.members = @ \cup N]}
       /\ ledger' = ledger \cup {candidate}

\* Steps that show nothing evaluate inputs without an effect, or none.
LEMMA QuietStepsRefine ==
  ASSUME EngineInv, Clean, [Next]_vars, ~ MarkEvaluated
  PROVE  ContractStep
<1>1. CurrentIncidents' = CurrentIncidents /\ Linked' = Linked
  BY VisibleIsKept, CurrentIsKept
<1>2. Shown' = Shown
  BY <1>1 DEF Shown, View
<1>3. \E K \in SUBSET Inputs : ledger' = ledger \cup K
  <2>1. ledger' = ledger \/ ledger' = ledger \cup stateless
    BY DEF Next, Cycle, Persist, Arrive, FetchCandidates, EvaluateCandidate, WriteIncident,
         WriteDetectionLinks, WriteEventLinks, WriteEpisodeState, PersistenceConflict,
         MarkEvaluated, MarkStateless, SaveSchedule, Crash, EndCycle
  <2>2. stateless \in SUBSET Inputs
    BY DEF EngineInv, TypeOK
  <2>3. ledger' = ledger \cup {} \/ ledger' = ledger \cup stateless
    BY <2>1
  <2>. QED  BY <2>2, <2>3
<1>. QED  BY <1>2, <1>3 DEF ContractStep

\* The step that shows a decision dismisses the candidate, opens an incident by
\* inputs that satisfy the rule, or adds evidence to one.
LEMMA MarkRefines ==
  ASSUME EngineInv, EvidenceInv, NothingIsLeftBehind', QualifyingSatisfiesRule',
         MarkEvaluated
  PROVE  ContractStep
<1>1. /\ ledger' = ledger \cup {candidate} /\ candidate \in Inputs /\ pc \in Persisting
      /\ condition' = condition
  BY DEF MarkEvaluated, EngineInv, PageIsSplit, TypeOK, Persisting
<1>2. /\ \A r \in CurrentIncidents : r.id \in Inputs /\ r.members = Linked[r.id]
      /\ \A r \in CurrentIncidents : WellFormed(r)
      /\ \A r, q \in CurrentIncidents : r.id = q.id => r = q
      /\ CurrentIncidents \subseteq incidentRows
      /\ incidentRows \subseteq IncidentRow
  BY OneRowIsVisible DEF CurrentIncidents, Latest, CommittedIncidents, EngineInv, TypeOK,
     IncidentRow, EvidenceInv, Coherent
<1>3. CASE Ignores(decision, candidate)
  <2>1. CurrentIncidents' = CurrentIncidents /\ \A x \in Inputs : Linked'[x] = Linked[x]
    BY <1>3, MarkIgnores
  <2>2. Shown' = Shown
    BY <1>2, <2>1 DEF Shown, View
  <2>3. \E K \in SUBSET Inputs : ledger' = ledger \cup K
    <3>1. {candidate} \in SUBSET Inputs
      BY <1>1
    <3>. QED  BY <1>1, <3>1
  <2>. QED  BY <2>2, <2>3 DEF ContractStep
<1>4. CASE OpensOne(decision, candidate)
  <2>1. PICK n \in decision.incident, e \in decision.episode :
              /\ CurrentIncidents' = CurrentIncidents \cup {n}
              /\ \A x \in Inputs : Linked'[x] = IF x = n.id THEN n.members ELSE Linked[x]
              /\ WellFormed(n) /\ candidate \in n.members
              /\ n.id \in Inputs /\ \A r \in CurrentIncidents : r.id # n.id
              /\ \A r \in CurrentIncidents : r.members \cap n.qualifying = {}
    BY <1>4, MarkOpens
  <2>2. n.qualifying \in SUBSET Inputs /\ n.members \in SUBSET Inputs
    <3>1. decision.incident \subseteq incidentRows
      BY MarkShowsDecision DEF EvidenceInv
    <3>. QED  BY <1>2, <3>1 DEF IncidentRow
  <2>3. n.qualifying \in Qualifying(Inputs)
    <3>1. n.qualifying \in Qualifying(Inputs)'
      BY <2>1 DEF QualifyingSatisfiesRule
    <3>2. Qualifying(Inputs)' = Qualifying(Inputs)
      BY <1>1 DEF Qualifying, Fulfils, Stages
    <3>. QED  BY <3>1, <3>2
  <2>4. Shown' = Shown \cup {[id |-> n.id, qualifying |-> n.qualifying, members |-> n.members]}
    <3>1. /\ Shown' = {[id |-> r.id, qualifying |-> r.qualifying, members |-> Linked'[r.id]] :
                         r \in CurrentIncidents \cup {n}}
          /\ Shown = {[id |-> r.id, qualifying |-> r.qualifying, members |-> Linked[r.id]] :
                         r \in CurrentIncidents}
      BY <2>1 DEF Shown, View
    <3>2. Linked'[n.id] = n.members /\ \A r \in CurrentIncidents : Linked'[r.id] = Linked[r.id]
      BY <1>2, <2>1
    <3>. QED  BY <3>1, <3>2
  <2>5. \A x \in Shown : x.id # n.id /\ x.members \cap n.qualifying = {}
    BY <1>2, <2>1 DEF Shown, View
  <2>6. n.id \in n.qualifying /\ n.qualifying \subseteq n.members
    BY <2>1 DEF WellFormed
  <2>. QED  BY <1>1, <2>1, <2>2, <2>3, <2>4, <2>5, <2>6 DEF ContractStep
<1>5. CASE EnrichesOne(decision, candidate)
  <2>1. PICK r \in CurrentIncidents, s \in Episodes, e \in decision.episode, n \in incidentRows :
              /\ CurrentIncidents' = (CurrentIncidents \ {r}) \cup {n}
              /\ \A x \in Inputs : Linked'[x] = IF x = r.id THEN n.members ELSE Linked[x]
              /\ n.id = r.id /\ n.qualifying = r.qualifying
              /\ r.members \subseteq n.members /\ candidate \in n.members
    BY <1>5, MarkEnriches
  <2>2. n.members \in SUBSET Inputs
    BY <1>2 DEF IncidentRow
  <2>. DEFINE old == [id |-> r.id, qualifying |-> r.qualifying, members |-> r.members]
              new == [id |-> r.id, qualifying |-> r.qualifying, members |-> n.members]
  <2>3. old \in Shown /\ old.members = r.members
    BY <1>2 DEF Shown, View
  <2>4. new = [old EXCEPT !.members = @ \cup n.members]
    <3>1. r.members \cup n.members = n.members
      BY <2>1
    <3>2. \A a, b, c, d : [[id |-> a, qualifying |-> b, members |-> c] EXCEPT !.members = d]
                             = [id |-> a, qualifying |-> b, members |-> d]
      OBVIOUS
    <3>3. old.members \cup n.members = n.members
      BY <3>1
    <3>4. new = [old EXCEPT !.members = n.members]
      BY <3>2
    <3>. HIDE DEF old, new
    <3>. QED  BY <3>3, <3>4
  <2>5. Shown' = (Shown \ {old}) \cup {new}
    <3>1. /\ Shown' = {[id |-> q.id, qualifying |-> q.qualifying, members |-> Linked'[q.id]] :
                         q \in (CurrentIncidents \ {r}) \cup {n}}
          /\ Shown = {[id |-> q.id, qualifying |-> q.qualifying, members |-> Linked[q.id]] :
                         q \in CurrentIncidents}
      BY <2>1 DEF Shown, View
    <3>2. /\ Linked'[n.id] = n.members /\ Linked[r.id] = r.members
          /\ \A q \in CurrentIncidents \ {r} : q.id # r.id /\ Linked'[q.id] = Linked[q.id]
      BY <1>2, <2>1
    <3>. QED  BY <2>1, <3>1, <3>2
  <2>. HIDE DEF old, new
  <2>. QED  BY <1>1, <2>1, <2>2, <2>3, <2>4, <2>5 DEF ContractStep
<1>. QED  BY <1>1, <1>3, <1>4, <1>5 DEF EvidenceInv, FollowsVisible

\* A step of ContractStep is a step of the contract under its refinement mapping.
LEMMA ContractStepIsContract ==
  ASSUME EngineInv, ContractStep, condition' = condition
  PROVE  IncidentContract!IncidentNext
<1>1. Shown = {[id |-> r.id, qualifying |-> r.qualifying, members |-> Linked[r.id]] :
                  r \in CurrentIncidents}
  BY DEF Shown, View
<1>2. Qualifying(Inputs)' = Qualifying(Inputs)
  BY DEF Qualifying, Fulfils, Stages
<1>3. IncidentContract!IncidentNext
        <=> \/ /\ \E K \in SUBSET Inputs : ledger' = ledger \cup K
               /\ Shown' = Shown
            \/ \E i \in Inputs :
                 \/ /\ \E Q \in SUBSET (Inputs \ UNION {x.members : x \in Shown}),
                          M \in SUBSET Inputs :
                         /\ Q \in Qualifying(Inputs) /\ Q \subseteq M /\ i \in M
                         /\ \E id \in Q :
                              /\ \A x \in Shown : x.id # id
                              /\ Shown' = Shown \cup {[id |-> id, qualifying |-> Q, members |-> M]}
                    /\ ledger' = ledger \cup {i}
                 \/ /\ \E x \in Shown, N \in SUBSET Inputs :
                         /\ i \in x.members \cup N
                         /\ Shown' = (Shown \ {x}) \cup {[x EXCEPT !.members = @ \cup N]}
                    /\ ledger' = ledger \cup {i}
  BY <1>2 DEF Shown, View, IncidentContract!IncidentNext, IncidentContract!Dismiss,
         IncidentContract!Open, IncidentContract!Enrich, IncidentContract!Evidence
<1>. HIDE DEF Shown
<1>4. CASE \E K \in SUBSET Inputs : ledger' = ledger \cup K /\ Shown' = Shown
  BY <1>3, <1>4
<1>5. ASSUME NEW Q \in SUBSET Inputs, NEW M \in SUBSET Inputs, NEW id \in Q,
             \A x \in Shown : x.id # id /\ x.members \cap Q = {},
             Q \in Qualifying(Inputs), Q \subseteq M, candidate \in M,
             Shown' = Shown \cup {[id |-> id, qualifying |-> Q, members |-> M]},
             ledger' = ledger \cup {candidate}
      PROVE  IncidentContract!IncidentNext
  <2>1. Q \in SUBSET (Inputs \ UNION {x.members : x \in Shown}) /\ candidate \in Inputs
    BY <1>5
  <2>. QED  BY <1>3, <1>5, <2>1
<1>6. ASSUME NEW x \in Shown, NEW N \in SUBSET Inputs,
             candidate \in Inputs, candidate \in x.members \cup N,
             Shown' = (Shown \ {x}) \cup {[x EXCEPT !.members = @ \cup N]},
             ledger' = ledger \cup {candidate}
      PROVE  IncidentContract!IncidentNext
  BY <1>3, <1>6
<1>. QED  BY <1>4, <1>5, <1>6 DEF ContractStep

\* Visible incidents change as if each input were decided in one step: it is
\* dismissed, opens an incident by inputs that satisfy the rule and are evidence of
\* no other, or adds evidence to one.
THEOREM EngineImplementsContract == Spec /\ []NothingIsLeftBehind => ImplementsIncidentContract
<1>1. Init => IncidentContract!IncidentInit
  <2>. SUFFICES ASSUME Init PROVE IncidentContract!IncidentInit
    OBVIOUS
  <2>1. ledger = {} /\ CurrentIncidents = {}
    BY DEF Init, CurrentIncidents, CommittedIncidents, Latest
  <2>. QED  BY <2>1 DEF IncidentContract!IncidentInit
<1>2. EngineInv /\ EvidenceInv /\ NothingIsLeftBehind' /\ QualifyingSatisfiesRule' /\ [Next]_vars
        => [IncidentContract!IncidentNext]_(IncidentContract!incidentVars)
  <2>. SUFFICES ASSUME EngineInv, EvidenceInv, NothingIsLeftBehind', QualifyingSatisfiesRule',
                       [Next]_vars
                PROVE  IncidentContract!IncidentNext
    OBVIOUS
  <2>1. condition' = condition
    BY TablesGrow
  <2>2. ContractStep
    BY QuietStepsRefine, MarkRefines DEF EvidenceInv
  <2>. QED  BY <2>1, <2>2, ContractStepIsContract
<1>. QED  BY <1>1, <1>2, EngineInvariant, EvidenceInvariant, OpenedAsTheRuleAsks, PTL
          DEF Spec, ImplementsIncidentContract, IncidentContract!IncidentSpec
=============================================================================
