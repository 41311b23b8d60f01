--------------------------- MODULE RuleEvaluation ---------------------------
(***************************************************************************)
(* CorrelationEvaluator.evaluate as a function of what the engine loads:   *)
(* the context window, the episode states, the confirmed incidents and the *)
(* confirmed links. One rule scope and one group: inputs of other groups   *)
(* never meet in a context, an episode or an incident.                     *)
(*                                                                         *)
(* Inputs are numbered by their order key (occurrence, kind, id). Hashed   *)
(* identities are the input they are derived from: an incident is named by *)
(* its anchor, an episode state by its earliest member, an evaluation      *)
(* token by the candidate. 0 stands for the empty identity. Ties between   *)
(* matches and between owners are broken by the text of identities, which  *)
(* has nothing to do with time: its order is part of a rule's condition.   *)
(***************************************************************************)
EXTENDS Integers, Sequences, FiniteSets, FiniteSetsExt

CONSTANTS
  Inputs,        \* logical inputs of the group some selector of the rule matches
  Occurred,      \* Occurred[i]: occurrence time of i
  Observed,      \* Observed[i]: its canonical visibility time
  Invalid,       \* inputs whose physical rows conflict
  Conditions,    \* conditions the rule may have, see Condition
  Joinable,      \* qualifying sets whose members satisfy all relations of a join
  Rejected,      \* sets of members build_incident refuses: none is a detection,
                 \* they are too many, or their evidence is too long
  Window,        \* rule.window
  Lateness,      \* rule.allowed_lateness
  ContextLimit   \* settings.context_limit

\* A threshold is one stage, a sequence stages in strict order, a join stages of
\* one input each in any order. The group of a derived join (shared_ip) comes
\* from its relations, and its last stage is the ownership event.
Stage == [select : SUBSET Inputs, count : Nat \ {0}]
\* The lexical orders of the tagged ids of the inputs, and of the hashed ids of
\* the incidents and episodes named by them, which depend on the rule.
Order == {f \in [Inputs -> Nat \ {0}] : \A i, j \in Inputs : f[i] = f[j] => i = j}
Condition == [kind : {"threshold", "sequence", "join"}, derived : BOOLEAN, stages : Seq(Stage),
              tags : Order, incidents : Order, episodes : Order]

ASSUME InputsAssumption ==
  /\ Inputs \subseteq Nat \ {0} /\ IsFiniteSet(Inputs) /\ Invalid \subseteq Inputs
  /\ Occurred \in [Inputs -> Nat] /\ Observed \in [Inputs -> Nat]
  /\ \A i, j \in Inputs : i < j => Occurred[i] <= Occurred[j]
ASSUME RuleAssumption ==
  /\ Window \in Nat /\ Lateness \in Nat /\ ContextLimit \in Nat \ {0}
  /\ Joinable \subseteq SUBSET Inputs /\ Rejected \subseteq SUBSET Inputs
  /\ Conditions \subseteq Condition
  /\ \A d \in Conditions :
       CASE d.kind = "threshold" -> Len(d.stages) = 1 /\ ~d.derived
         [] d.kind = "sequence"  -> Len(d.stages) > 1 /\ ~d.derived
         [] d.kind = "join"      -> /\ Len(d.stages) > 1
                                    /\ \A k \in DOMAIN d.stages : d.stages[k].count = 1
\* Inputs of one instant are numbered by their tags.
ASSUME TagsAssumption ==
  \A d \in Conditions, i, j \in Inputs :
    i < j /\ Occurred[i] = Occurred[j] => d.tags[i] < d.tags[j]

VARIABLE condition   \* condition of the compiled rule; it never changes

\* The element of a set that has one.
The(S) == CHOOSE x \in S : TRUE

InWindow(start, i) == start <= Occurred[i] /\ Occurred[i] <= start + Window
Deadline(start) == start + Window + Lateness
Start(M) == Occurred[Min(M)]
Spans(M) == Occurred[Max(M)] - Start(M) <= Window

(***************************************************************************)
(* Matches                                                                 *)
(***************************************************************************)
Stages == DOMAIN condition.stages
\* How many inputs the first n stages take: each has as many places as its count.
Taken(n) == Cardinality(UNION {{k} \X (1 .. condition.stages[k].count) : k \in 1 .. n})
\* Stages follow each other in time, so their inputs follow each other in order.
StageOf(M, k) == {i \in M : Cardinality({j \in M : j <= i}) \in Taken(k - 1) + 1 .. Taken(k)}
Before(A, B) == Occurred[Max(A)] < Occurred[Min(B)]

\* Mutant: stages may share an instant.
InOrderWeakly(M, n) ==
  /\ \A k \in 1 .. n : StageOf(M, k) \subseteq condition.stages[k].select
  /\ \A k \in 1 .. n - 1 : Occurred[Max(StageOf(M, k))] <= Occurred[Min(StageOf(M, k + 1))]
\* M fills the first n stages, each later than the one before.
InOrder(M, n) ==
  /\ \A k \in 1 .. n : StageOf(M, k) \subseteq condition.stages[k].select
  /\ \A k \in 1 .. n - 1 : Before(StageOf(M, k), StageOf(M, k + 1))

\* M has an input of its own for each stage, and they are related.
Joined(M) ==
  /\ M \in Joinable
  /\ \E f \in [Stages -> M] :
       /\ \A k \in Stages : f[k] \in condition.stages[k].select
       /\ \A k, l \in Stages : k # l => f[k] # f[l]

Satisfying(context) ==
  {M \in kSubset(Taken(Len(condition.stages)), context) :
     Spans(M) /\ IF condition.kind = "join" THEN Joined(M)
                 ELSE InOrder(M, Len(condition.stages))}

Ownership == condition.stages[Len(condition.stages)].select
\* Further ownership events of the window that prove the same relation.
RelatedTo(M, context) ==
  IF ~condition.derived THEN {}
  ELSE {i \in (context \cap Ownership) \ M :
          InWindow(Start(M), i) /\ (M \ Ownership) \cup {i} \in Joinable}

Evidence(o) == o.members \cup o.related
Matches(c, context) ==
  {o \in {[members |-> M, related |-> RelatedTo(M, context)] : M \in Satisfying(context)} :
     c \in Evidence(o)}

(***************************************************************************)
(* Owners                                                                  *)
(***************************************************************************)
Owning(S) == {s \in S : s.incident # 0}
Partial(S) == {s \in S : s.incident = 0}

\* Mutant: the end of the window is exclusive.
CoversExclusive(s, c) ==
  c \in s.owned \/ (s.start <= Occurred[c] /\ Occurred[c] < s.start + Window)
Covers(s, c) == c \in s.owned \/ InWindow(s.start, c)

AnchorTime(s) == IF s.incident # 0 THEN Occurred[s.incident] ELSE s.start
Distance(c, s) == Max({Occurred[c] - AnchorTime(s), AnchorTime(s) - Occurred[c]})
\* The empty incident id of a partial episode comes first.
IncidentRank(x) == IF x = 0 THEN 0 ELSE condition.incidents[x]
FirstNamed(s, t) ==
  \/ IncidentRank(s.incident) < IncidentRank(t.incident)
  \/ s.incident = t.incident /\ condition.episodes[s.id] < condition.episodes[t.id]
Closer(c, s, t) ==
  \/ Distance(c, s) < Distance(c, t)
  \/ Distance(c, s) = Distance(c, t) /\ FirstNamed(s, t)
Nearest(c, S) == {s \in S : \A t \in S \ {s} : Closer(c, s, t)}

\* Status, last transition and deadline of an incident. Without a confirmed row it is
\* new, with the deadline its episode state carries.
NoTime == -1
NewTerms(start) ==
  [status |-> "new", from |-> "", closedAt |-> NoTime, deadline |-> Deadline(start)]
TermsOf(rows, start) ==
  IF rows = {} THEN NewTerms(start)
  ELSE LET r == The(rows)
       IN  [status |-> r.status, from |-> r.from,
           closedAt |-> r.closedAt, deadline |-> r.deadline]
Terms(s, current) == TermsOf({r \in current : r.id = s.incident}, s.start)

\* Mutant: evidence from after the closure is taken.
TakesAfterClosure(terms, i) == Observed[i] <= terms.deadline
\* Evidence is observed in time, and occurred before the incident was closed.
Takes(terms, i) ==
  /\ Observed[i] <= terms.deadline
  /\ terms.status = "closed" => Occurred[i] <= terms.closedAt

\* The episodes a match may be added to: each takes its new evidence.
Attachable(c, S, current, o) ==
  {s \in Owning(S) :
     Covers(s, c) /\ \A i \in Evidence(o) \ s.owned : Takes(Terms(s, current), i)}

\* Mutant: evidence of another episode may seed a new one.
AdmissibleReused(c, S, o, owner) ==
  /\ (\E s \in Owning(S) : Covers(s, c)) => owner # {}
  /\ owner = {} => \A i \in Evidence(o) : Observed[i] <= Deadline(Start(Evidence(o)))
\* A match inside an episode joins it or is dropped; evidence of another episode
\* never seeds one; a new episode takes no evidence observed too late.
Admissible(c, S, o, owner) ==
  /\ (\E s \in Owning(S) : Covers(s, c)) => owner # {}
  /\ \A s \in Owning(S) \ owner : Evidence(o) \cap s.owned = {}
  /\ owner = {} => \A i \in Evidence(o) : Observed[i] <= Deadline(Start(Evidence(o)))

Options(c, context, S, current) ==
  {p \in {[match |-> o, owner |-> Nearest(c, Attachable(c, S, current, o))] :
            o \in Matches(c, context)} :
     Admissible(c, S, p.match, p.owner)}

\* The canonical one of two sets of equal size: the tags of the first inputs in
\* which they differ, taken in order, decide.
Canonical(P, Q) ==
  \E i \in P, j \in Q :
    {k \in P : k < i} = {k \in Q : k < j} /\ condition.tags[i] < condition.tags[j]

Preferred(o, p) ==
  \/ o.owner # {} /\ p.owner = {}
  \/ \E s \in o.owner, t \in p.owner : FirstNamed(s, t)
  \/ o.owner = p.owner /\ Canonical(o.match.members, p.match.members)

Selected(c, context, S, current) ==
  LET options == Options(c, context, S, current)
  IN  {o \in options : \A p \in options \ {o} : Preferred(o, p)}

\* Mutant: an episode is named again at every match.
EpisodeIdOfMatch(state, M) == Min(M)
\* An episode keeps the name its earliest input gave it.
EpisodeId(state, M) == IF state # {} THEN The(state).id ELSE Min(M)

(***************************************************************************)
(* Decisions                                                               *)
(***************************************************************************)
Stateless == [failed |-> FALSE, incident |-> {}, anchor |-> 0, qualifying |-> {},
              links |-> {}, episode |-> {}]
Failed == [Stateless EXCEPT !.failed = TRUE]

\* An input inside an episode that may no longer take it, or observed too late
\* to open one.
OutsideBoundary(c, context, S, current) ==
  \/ \E o \in Matches(c, context), s \in Owning(S) :
       Covers(s, c) /\ ~(Evidence(o) \subseteq s.owned)
  \/ /\ ~condition.derived
     /\ \E s \in Nearest(c, {t \in Owning(S) : InWindow(t.start, c)}) :
          ~Takes(Terms(s, current), c)
  \/ Observed[c] > Deadline(Occurred[c])

\* The canonical longest run of leading stages, short of the whole sequence,
\* that fits in the open episode if there is one.
Prefix(free, existing) ==
  LET usable   == {i \in free : \A s \in existing :
                     InWindow(s.start, i) /\ Observed[i] <= Deadline(s.start)}
      valid(n) == {P \in kSubset(Taken(n), usable) :
                     /\ InOrder(P, n) /\ Spans(P)
                     /\ \A i \in P : Observed[i] <= Deadline(Start(P))}
      lengths  == {n \in 1 .. Len(condition.stages) - 1 : \A k \in 1 .. n : valid(k) # {}}
  IN  IF lengths = {} THEN {}
      ELSE The({P \in valid(Max(lengths)) :
                  \A Q \in valid(Max(lengths)) \ {P} : Canonical(P, Q)})

\* An unmatched input is remembered as the evidence of an open, partial episode;
\* a sequence remembers complete leading stages only.
PartialDecision(c, context, S) ==
  LET replay   == {s \in Partial(S) : s.token = c}
      open     == {s \in Partial(S) : InWindow(s.start, c) /\ Observed[c] <= Deadline(s.start)}
      existing == {s \in open : \A t \in open \ {s} :
                     \/ s.start < t.start
                     \/ s.start = t.start /\ condition.episodes[s.id] < condition.episodes[t.id]}
      unowned  == context \ UNION {s.owned : s \in S \ existing}
      free     == IF condition.kind = "sequence" THEN Prefix(unowned, existing) ELSE unowned
      settled  == condition.kind = "sequence"
                    /\ (c \notin free \/ \E s \in existing : free = s.owned)
      start    == IF existing # {} THEN The(existing).start ELSE Start(free)
      prior    == UNION {s.owned : s \in existing}
      members  == {i \in free : InWindow(start, i)
                                /\ (i \in prior \/ Observed[i] <= Deadline(start))}
      episode  == [id |-> EpisodeId(existing, members),
                   revision |-> 1 + Max({0} \cup {s.revision : s \in existing}),
                   token |-> c, qualifying |-> {}, incident |-> 0, start |-> start,
                   owned |-> members, deadline |-> Deadline(start),
                   collisions |-> Max({0} \cup {s.collisions : s \in existing})]
  IN  CASE condition.derived -> Stateless
        [] ~condition.derived /\ replay # {} ->
             IF \E s \in replay : c \in s.owned
             THEN [Stateless EXCEPT !.episode = {s \in replay : c \in s.owned}]
             ELSE Failed
        [] ~condition.derived /\ replay = {} /\ (\E s \in Owning(S) : InWindow(s.start, c)) ->
             Stateless
        [] OTHER ->
             IF free = {} \/ settled \/ c \notin members \/ Observed[c] > Deadline(start)
             THEN Stateless
             ELSE [Stateless EXCEPT !.episode = {episode}]

\* What an incident holds once the candidate joins it: its confirmed members, and
\* the approved inputs of its interval that it takes or its episode owned before.
MembersOf(start, terms, confirmed, owned, approved) ==
  {i \in confirmed \cup owned \cup approved :
     /\ InWindow(start, i)
     /\ i \notin confirmed \cup owned => Takes(terms, i)}

\* The revision after the confirmed one; its lifecycle is carried over.
NextIncident(anchor, old, c, members, qualifying, terms) ==
  [id |-> anchor, revision |-> 1 + Max({0} \cup {r.revision : r \in old}), token |-> c,
   members |-> members, qualifying |-> qualifying, status |-> terms.status,
   from |-> terms.from, closedAt |-> terms.closedAt, deadline |-> terms.deadline]

\* The revision after the loaded one, or that one again if c itself wrote it; a
\* candidate that lies in more intervals than one is a collision.
NextEpisode(state, S, c, match, anchor, members, canonical, start, deadline) ==
  LET replaying == \E s \in state : s.token = c
      overlaps  == {s \in Owning(S) : InWindow(s.start, c)}
  IN  [id |-> EpisodeId(state, match),
       revision |-> Max({0} \cup {s.revision : s \in state}) + (IF replaying THEN 0 ELSE 1),
       token |-> c, qualifying |-> canonical, incident |-> anchor, start |-> start,
       owned |-> members, deadline |-> deadline,
       collisions |-> Max({0} \cup {s.collisions : s \in state})
                        + (IF replaying THEN 0 ELSE Max({0, Cardinality(overlaps) - 1}))]

\* The match opens an incident or enriches the one whose episode it falls in.
\* current are the confirmed incidents, linked their confirmed members, raw the
\* incident rows of any confirmation.
MatchDecision(c, context, S, current, linked, raw, o) ==
  LET state      == IF o.owner # {} THEN o.owner
                    ELSE Nearest(c, {s \in Partial(S) : Covers(s, c)})
      held       == Owning(state)
      anchor     == IF held # {} THEN The(held).incident ELSE Max(o.match.members)
      old        == {r \in current : r.id = anchor}
      known      == held # {} \/ old # {}
      confirmed  == IF known THEN linked[anchor] ELSE {}
      qualifying == IF old # {} THEN UNION {r.qualifying : r \in old} ELSE o.match.members
      canonical  == IF held # {} THEN UNION {s.qualifying : s \in held} ELSE qualifying
      start      == IF held # {} THEN The(held).start ELSE Start(qualifying)
      terms      == TermsOf(old, start)
      owned      == context \cap UNION {s.owned : s \in state}
      approved   == IF condition.derived THEN Evidence(o.match) ELSE context
      members    == MembersOf(start, terms, confirmed, owned, approved)
      incident   == NextIncident(anchor, old, c, members, qualifying,
                                 TermsOf(old, Start(qualifying)))
      unchanged  == \E r \in old : r.members = members /\ r.token \in Inputs
      clash      == {r \in raw : r.id = anchor}
      stored     == old = {} /\ clash # {}
      episode    == NextEpisode(state, S, c, o.match.members, anchor, members, canonical, start,
                                incident.deadline)
  IN  IF held # {} /\ anchor \notin linked[anchor] \cup context THEN Failed
      ELSE IF known /\ ~(InWindow(start, c) /\ Takes(terms, c)) THEN Stateless
      ELSE IF \/ members \in Rejected \/ \E i \in confirmed : ~InWindow(start, i)
              \/ (\E s \in state : s.token = c) /\ episode \notin state
              \/ stored /\ \E r \in clash : r # incident
           THEN Failed
      ELSE [failed |-> FALSE, anchor |-> anchor, qualifying |-> qualifying,
            incident |-> IF unchanged \/ stored THEN {} ELSE {incident},
            links |-> members \ linked[anchor], episode |-> {episode}]

\* Bounds on the states and members loaded: more than the limit is OverflowError.
Overflows(S, linked) ==
  LET ids == {s.incident : s \in Owning(S)}
      loaded(X) == MapThenSumSet(LAMBDA x : Cardinality(linked[x]), X)
  IN  \/ Cardinality(S) > ContextLimit
      \/ \E x \in ids :
           LET first == {y \in ids : IncidentRank(y) < IncidentRank(x)}
           IN  loaded(first) >= ContextLimit \/ loaded(first \cup {x}) > ContextLimit

Evaluate(c, context, S, current, linked, raw) ==
  LET selected == Selected(c, context, S, current)
  IN  IF Overflows(S, linked) THEN Failed
      ELSE IF c \in Invalid THEN Stateless
      ELSE IF selected # {}
           THEN MatchDecision(c, context, S, current, linked, raw, The(selected))
      ELSE IF OutsideBoundary(c, context, S, current) THEN Stateless
      ELSE PartialDecision(c, context, S)
=============================================================================
