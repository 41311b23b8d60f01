----------------------- MODULE CorrelationEngine_proofs -----------------------
(***************************************************************************)
(* Theorems of CorrelationEngine, for any inputs, rule, limits and number  *)
(* of crashes, and with inputs arriving and the process stopping between   *)
(* any two store calls.                                                    *)
(***************************************************************************)
EXTENDS CorrelationEngine, RuleEvaluation_proofs

(***************************************************************************)
(* What a decision may write                                               *)
(***************************************************************************)
Decision ==
  [failed : BOOLEAN, incident : SUBSET IncidentRow, anchor : {0} \cup Inputs,
   qualifying : SUBSET Inputs, links : SUBSET Inputs, episode : SUBSET EpisodeRow]

\* n is the revision after p of an incident, opened by the same inputs; an
\* evaluation keeps the lifecycle too.
Precedes(p, n) ==
  n.id = p.id /\ n.revision = p.revision + 1 /\ n.qualifying = p.qualifying
Extends(p, n) ==
  /\ Precedes(p, n)
  /\ n.status = p.status /\ n.from = p.from
  /\ n.closedAt = p.closedAt /\ n.deadline = p.deadline

\* e is the revision after s of an episode, in the interval of an incident if s
\* has one.
Continues(s, e) ==
  /\ e.id = s.id /\ e.revision = s.revision + 1
  /\ s.incident # 0 => e.incident = s.incident /\ e.start = s.start

\* n opens an incident, with the deadline its first input sets.
Opens(n) ==
  /\ n.revision = 1 /\ n.status = "new"
  /\ n.deadline = Deadline(Start(n.qualifying))

\* If e lies in the interval of an incident, R has a row of the incident.
HasIncident(e, R) == e.incident # 0 => \E r \in R : r.id = e.incident

\* What an evaluation is given: episode states, and one row of each incident that
\* is loaded, out of the raw rows.
Loadable(c, context, S, rows, linked, raw) ==
  /\ condition \in Conditions /\ c \in Inputs /\ context \in SUBSET Inputs
  /\ S \in SUBSET EpisodeRow /\ IsFiniteSet(S)
  /\ rows \in SUBSET IncidentRow /\ rows \subseteq raw
  /\ \A s \in S : HasIncident(s, raw)
  /\ \A r \in rows : r.qualifying # {} /\ \A q \in rows : q.id = r.id => q = r
  /\ linked \in [Inputs -> SUBSET Inputs]

\* At most one incident row is written, with the token of the candidate: it opens
\* the incident, or comes after a loaded row and keeps all confirmed members.
IncidentFollows(d, c, rows, linked) ==
  \A n \in d.incident :
    /\ n.id = d.anchor /\ n.token = c /\ n.qualifying # {}
    /\ \A m \in d.incident : m = n
    /\ \/ Opens(n)
       \/ \E p \in rows : Extends(p, n) /\ linked[p.id] \subseteq n.members

\* The episode state written is one that was loaded, or a row with the token of the
\* candidate: the first revision, or the one after a state of another token. Its
\* incident is written with it or has been before.
EpisodeFollows(d, c, S, raw) ==
  \A e \in d.episode :
    \/ e \in S
    \/ /\ e.token = c
       /\ \A f \in d.episode : f = e
       /\ HasIncident(e, raw \cup d.incident)
       /\ e.revision = 1 \/ \E s \in S : s.token # c /\ Continues(s, e)

Follows(d, c, S, rows, linked, raw) ==
  /\ d \in Decision
  /\ d.links # {} => d.anchor \in Inputs
  /\ IncidentFollows(d, c, rows, linked)
  /\ EpisodeFollows(d, c, S, raw)

\* A decision without effects follows anything.
LEMMA NothingFollows ==
  ASSUME NEW c, NEW S, NEW rows, NEW linked, NEW raw
  PROVE  /\ Follows(Stateless, c, S, rows, linked, raw)
         /\ Follows(Failed, c, S, rows, linked, raw)
  BY DEF Follows, IncidentFollows, EpisodeFollows, Stateless, Failed, Decision

\* The loaded episode states have what NearestIsOne asks for.
LEMMA LoadedStates ==
  ASSUME NEW S \in SUBSET EpisodeRow
  PROVE  /\ \A s \in S : /\ s.start \in Nat /\ s.incident \in {0} \cup Inputs
                         /\ s.id \in Nat /\ s.id \in Inputs /\ s.revision \in Nat
                         /\ s.collisions \in Nat /\ s.owned \in SUBSET Inputs
                         /\ s.qualifying \in SUBSET Inputs
         /\ Owning(S) \in SUBSET S /\ Partial(S) \in SUBSET S
  BY TimesAreNatural DEF EpisodeRow, Owning, Partial

\* The greatest number among zero and at most one natural number.
LEMMA MaxOfOne ==
  ASSUME NEW N \in SUBSET Nat, \A x, y \in N : x = y
  PROVE  /\ Max({0} \cup N) \in Nat
         /\ N = {} => Max({0} \cup N) = 0
         /\ \A x \in N : Max({0} \cup N) = x
  BY ExtremaOfFew

\* The greater of zero and an integer is a natural number.
LEMMA MaxWithZero ==
  ASSUME NEW x \in Int PROVE Max({0, x}) \in Nat
<1>1. \E m \in {0, x} : \A y \in {0, x} : m >= y
  OBVIOUS
<1>2. \A m \in {0, x} : (\A y \in {0, x} : m >= y) => m \in Nat
  OBVIOUS
<1>. QED  BY <1>1, <1>2 DEF Max

\* An unmatched input opens a partial episode or adds a revision to one.
LEMMA PartialDecisionFollows ==
  ASSUME NEW c, NEW context, NEW S, NEW rows, NEW linked, NEW raw,
         Loadable(c, context, S, rows, linked, raw)
  PROVE  Follows(PartialDecision(c, context, S), c, S, rows, linked, raw)
<1>. DEFINE replay   == {s \in Partial(S) : s.token = c}
            open     == {s \in Partial(S) : InWindow(s.start, c)
                                              /\ Observed[c] <= Deadline(s.start)}
            existing == {s \in open : \A t \in open \ {s} :
                           \/ s.start < t.start
                           \/ /\ s.start = t.start
                              /\ condition.episodes[s.id] < condition.episodes[t.id]}
            unowned  == context \ UNION {s.owned : s \in S \ existing}
            free     == IF condition.kind = "sequence" THEN Prefix(unowned, existing)
                        ELSE unowned
            settled  == condition.kind = "sequence"
                          /\ (c \notin free \/ \E s \in existing : free = s.owned)
            start    == IF existing # {} THEN The(existing).start ELSE Start(free)
            prior    == UNION {s.owned : s \in existing}
            members  == {i \in free : InWindow(start, i)
                                        /\ (i \in prior \/ Observed[i] <= Deadline(start))}
            id       == EpisodeId(existing, members)
            revision == 1 + Max({0} \cup {s.revision : s \in existing})
            collisions == Max({0} \cup {s.collisions : s \in existing})
            episode  == [id |-> id, revision |-> revision, token |-> c, qualifying |-> {},
                         incident |-> 0, start |-> start, owned |-> members,
                         deadline |-> Deadline(start), collisions |-> collisions]
            d        == PartialDecision(c, context, S)
<1>1. \/ d = Stateless
      \/ d = Failed
      \/ d = [Stateless EXCEPT !.episode = {s \in replay : c \in s.owned}]
      \/ replay = {} /\ free # {} /\ c \in members /\ d = [Stateless EXCEPT !.episode = {episode}]
  BY ZenonT(40) DEF PartialDecision
<1>2. /\ condition \in Conditions /\ c \in Inputs /\ context \in SUBSET Inputs
      /\ S \in SUBSET EpisodeRow
  BY DEF Loadable
<1>. SUFFICES Follows(d, c, S, rows, linked, raw)
  OBVIOUS
<1>3. CASE d = [Stateless EXCEPT !.episode = {s \in replay : c \in s.owned}]
  <2>1. {s \in replay : c \in s.owned} \in SUBSET S
    BY DEF Partial
  <2>. HIDE DEF replay, d
  <2>. QED  BY <1>2, <1>3, <2>1 DEF Follows, IncidentFollows, EpisodeFollows, Stateless, Decision
<1>4. CASE /\ replay = {} /\ free # {} /\ c \in members
           /\ d = [Stateless EXCEPT !.episode = {episode}]
  <2>1. /\ existing \in SUBSET S /\ \A s, t \in existing : s = t
        /\ \A s \in existing : s.incident = 0 /\ s.token # c
    <3>1. existing \in SUBSET Partial(S) /\ Partial(S) \in SUBSET S
      BY DEF Partial
    <3>2. ASSUME NEW s \in existing, NEW t \in existing, s # t PROVE FALSE
      <4>1. /\ s.start \in Int /\ t.start \in Int
            /\ condition.episodes[s.id] \in Int /\ condition.episodes[t.id] \in Int
        BY <1>2, <3>1, LoadedStates, NamesAreOrdered
      <4>2. \/ s.start < t.start
            \/ s.start = t.start /\ condition.episodes[s.id] < condition.episodes[t.id]
        BY <3>2
      <4>3. \/ t.start < s.start
            \/ t.start = s.start /\ condition.episodes[t.id] < condition.episodes[s.id]
        BY <3>2
      <4>. QED  BY <4>1, <4>2, <4>3
    <3>3. \A s \in existing : s.incident = 0 /\ s.token # c
      BY ZenonT(40), <1>4, <3>1 DEF Partial
    <3>. QED  BY <3>1, <3>2, <3>3
  <2>2. unowned \in SUBSET Inputs
    BY <1>2
  <2>3. free \in SUBSET Inputs
    <3>. HIDE DEF unowned, existing
    <3>. QED  BY <1>2, <2>2, PrefixIsFree
  <2>4. members \in SUBSET Inputs /\ members # {} /\ free # {}
    BY ZenonT(40), <1>4, <2>3
  <2>. HIDE DEF replay, open, existing, unowned, free, prior, members, d
  <2>5. existing # {} => The(existing) \in existing
    BY DEF The
  <2>6. start \in Nat
    BY <1>2, <2>1, <2>3, <2>4, <2>5, LoadedStates, SomeInputs
  <2>7. id \in Inputs
    BY <1>2, <2>1, <2>4, <2>5, LoadedStates, SomeInputs DEF EpisodeId
  <2>8. /\ revision \in Nat
        /\ existing = {} => revision = 1
        /\ \A s \in existing : revision = s.revision + 1
    <3>1. \A s \in existing : s.revision \in Nat
      BY <1>2, <2>1, LoadedStates
    <3>. DEFINE N == {s.revision : s \in existing}
                m == Max({0} \cup N)
    <3>2. /\ N \in SUBSET Nat /\ \A x, y \in N : x = y
          /\ existing = {} => N = {}
          /\ \A s \in existing : s.revision \in N
      BY <2>1, <3>1
    <3>3. revision = 1 + m
      OBVIOUS
    <3>. HIDE DEF N, revision
    <3>4. m \in Nat /\ (N = {} => m = 0) /\ \A x \in N : m = x
      BY <3>2, MaxOfOne
    <3>. HIDE DEF m
    <3>. QED  BY <3>1, <3>2, <3>3, <3>4
  <2>9. collisions \in Nat
    <3>1. \A s \in existing : s.collisions \in Nat
      BY <1>2, <2>1, LoadedStates
    <3>. DEFINE N == {s.collisions : s \in existing}
    <3>2. N \in SUBSET Nat /\ \A x, y \in N : x = y
      BY <2>1, <3>1
    <3>3. Max({0} \cup N) \in Nat
      <4>. HIDE DEF N
      <4>. QED  BY <3>2, MaxOfOne
    <3>. QED  BY <3>3
  <2>. HIDE DEF start, id, revision, collisions
  <2>10. episode \in EpisodeRow
    BY <1>2, <2>4, <2>6, <2>7, <2>8, <2>9, TimesAreNatural DEF EpisodeRow
  <2>11. existing # {} => \E s \in S : s.token # c /\ Continues(s, episode)
    <3>. SUFFICES ASSUME NEW s \in existing
                  PROVE  s.token # c /\ Continues(s, episode)
      BY <2>1
    <3>1. id = s.id
      BY <2>1, <2>5 DEF EpisodeId, id
    <3>. QED  BY <2>1, <2>8, <3>1 DEF Continues
  <2>12. episode.revision = 1 \/ \E s \in S : s.token # c /\ Continues(s, episode)
    BY <2>8, <2>11
  <2>13. episode.token = c /\ HasIncident(episode, raw)
    BY DEF HasIncident
  <2>. HIDE DEF episode
  <2>. QED  BY <1>4, <2>10, <2>12, <2>13
            DEF Follows, IncidentFollows, EpisodeFollows, HasIncident, Stateless, Decision
<1>. HIDE DEF replay, free, members, episode, d
<1>. QED  BY <1>1, <1>3, <1>4, NothingFollows

\* A match opens an incident or adds a revision to one, and the episode follows.
LEMMA MatchDecisionFollows ==
  ASSUME NEW c, NEW context, NEW S, NEW rows, NEW linked, NEW raw,
         Loadable(c, context, S, rows, linked, raw),
         NEW o \in Selected(c, context, S, rows)
  PROVE  Follows(MatchDecision(c, context, S, rows, linked, raw, o), c, S, rows, linked, raw)
<1>. DEFINE state      == IF o.owner # {} THEN o.owner
                          ELSE Nearest(c, {s \in Partial(S) : Covers(s, c)})
            held       == Owning(state)
            anchor     == IF held # {} THEN The(held).incident ELSE Max(o.match.members)
            old        == {r \in rows : r.id = anchor}
            known      == held # {} \/ old # {}
            confirmed  == IF known THEN linked[anchor] ELSE {}
            qualifying == IF old # {} THEN UNION {r.qualifying : r \in old}
                          ELSE o.match.members
            canonical  == IF held # {} THEN UNION {s.qualifying : s \in held} ELSE qualifying
            start      == IF held # {} THEN The(held).start ELSE Start(qualifying)
            terms      == TermsOf(old, start)
            owned      == context \cap UNION {s.owned : s \in state}
            approved   == IF condition.derived THEN Evidence(o.match) ELSE context
            members    == MembersOf(start, terms, confirmed, owned, approved)
            carried    == TermsOf(old, Start(qualifying))
            incident   == NextIncident(anchor, old, c, members, qualifying, carried)
            unchanged  == \E r \in old : r.members = members /\ r.token \in Inputs
            clash      == {r \in raw : r.id = anchor}
            stored     == old = {} /\ clash # {}
            episode    == NextEpisode(state, S, c, o.match.members, anchor, members,
                                      canonical, start, incident.deadline)
            d          == MatchDecision(c, context, S, rows, linked, raw, o)
            result     == [failed |-> FALSE, anchor |-> anchor, qualifying |-> qualifying,
                           incident |-> IF unchanged \/ stored THEN {} ELSE {incident},
                           links |-> members \ linked[anchor], episode |-> {episode}]
<1>1. \/ d = Stateless
      \/ d = Failed
      \/ /\ \A i \in confirmed : InWindow(start, i)
         /\ (\E s \in state : s.token = c) => episode \in state
         /\ d = result
  BY ZenonT(40) DEF MatchDecision
<1>2. /\ condition \in Conditions /\ c \in Inputs /\ context \in SUBSET Inputs
      /\ S \in SUBSET EpisodeRow /\ IsFiniteSet(S)
      /\ rows \in SUBSET IncidentRow /\ rows \subseteq raw
      /\ \A s \in S : HasIncident(s, raw)
      /\ \A r \in rows : r.qualifying # {} /\ \A q \in rows : q.id = r.id => q = r
      /\ linked \in [Inputs -> SUBSET Inputs]
  BY DEF Loadable
<1>3. /\ \A s \in S : /\ s.start \in Nat /\ s.incident \in {0} \cup Inputs
                      /\ s.id \in Nat /\ s.id \in Inputs /\ s.revision \in Nat
                      /\ s.collisions \in Nat /\ s.owned \in SUBSET Inputs
                      /\ s.qualifying \in SUBSET Inputs
      /\ Owning(S) \in SUBSET S /\ Partial(S) \in SUBSET S
  BY <1>2, LoadedStates
<1>4. /\ o.match.members \in SUBSET context /\ o.match.members # {}
      /\ Evidence(o.match) \in SUBSET context
      /\ o.owner \in SUBSET Owning(S) /\ \A s, t \in o.owner : s = t
  <2>1. /\ o.match \in Matches(c, context)
        /\ o.owner \in SUBSET Owning(S) /\ \A s, t \in o.owner : s = t
    BY <1>2, <1>3, OptionHasOneOwner
  <2>2. /\ o.match.members \in SUBSET context /\ o.match.members # {}
        /\ Evidence(o.match) \in SUBSET context
    BY <1>2, <2>1, MatchHasInputs
  <2>. QED  BY <2>1, <2>2
<1>5. state \in SUBSET S /\ \A s, t \in state : s = t
  <2>. DEFINE P == {s \in Partial(S) : Covers(s, c)}
  <2>1. P \in SUBSET S
    BY <1>3
  <2>. HIDE DEF P
  <2>2. Nearest(c, P) \in SUBSET P /\ \A s, t \in Nearest(c, P) : s = t
    BY <1>2, <1>3, <2>1, NearestIsOne
  <2>3. state = IF o.owner # {} THEN o.owner ELSE Nearest(c, P)
    BY DEF P
  <2>. HIDE DEF state
  <2>. QED  BY <1>3, <1>4, <2>1, <2>2, <2>3
<1>6. /\ held \in SUBSET state
      /\ \A s \in held : s.incident \in Inputs
      /\ \A s \in state : s.incident # 0 => s \in held
      /\ held # {} => The(held) \in held
  <2>. HIDE DEF state
  <2>. QED  BY <1>3, <1>5 DEF Owning, The
<1>. HIDE DEF state, held
<1>7. anchor \in Inputs
  BY <1>2, <1>4, <1>6, SomeInputs
<1>8. /\ old \in SUBSET rows /\ \A p, q \in old : p = q
      /\ \A p \in old : p.id = anchor
      /\ old # {} => The(old) \in old
  BY <1>2 DEF The
<1>9. \A r \in rows : /\ r.revision \in Nat /\ r.qualifying \in SUBSET Inputs
                      /\ r.qualifying # {}
                      /\ r.status \in {"new", "acknowledged", "closed"}
                      /\ r.from \in {"", "new", "acknowledged"}
                      /\ r.closedAt \in Int /\ r.deadline \in Nat
  BY <1>2 DEF IncidentRow
<1>. HIDE DEF anchor, old
<1>10. confirmed \in SUBSET Inputs /\ (old # {} => confirmed = linked[anchor])
  BY <1>2, <1>7
<1>11. /\ qualifying \in SUBSET Inputs /\ qualifying # {}
       /\ \A p \in old : qualifying = p.qualifying
  <2>1. CASE old = {}
    BY <1>2, <1>4, <2>1
  <2>2. CASE old # {}
    <3>1. PICK p \in old : TRUE
      BY <2>2
    <3>2. UNION {r.qualifying : r \in old} = p.qualifying
      BY <1>8, <3>1
    <3>. QED  BY <1>8, <1>9, <2>2, <3>1, <3>2
  <2>. QED  BY <2>1, <2>2
<1>. HIDE DEF known, confirmed, qualifying
<1>12. canonical \in SUBSET Inputs
  BY <1>3, <1>5, <1>6, <1>11
<1>13. /\ start \in Nat /\ (held # {} => start = The(held).start)
       /\ held = {} => start = Start(qualifying)
  BY <1>3, <1>5, <1>6, <1>11, SomeInputs
<1>. HIDE DEF canonical, start
<1>14. /\ carried.status \in {"new", "acknowledged", "closed"}
       /\ carried.from \in {"", "new", "acknowledged"}
       /\ carried.closedAt \in Int /\ carried.deadline \in Nat
       /\ old = {} => carried.status = "new" /\ carried.deadline = Deadline(Start(qualifying))
       /\ \A p \in old : /\ carried.status = p.status /\ carried.from = p.from
                         /\ carried.closedAt = p.closedAt /\ carried.deadline = p.deadline
  <2>1. CASE old = {}
    <3>1. carried = NewTerms(Start(qualifying))
      BY <2>1 DEF TermsOf
    <3>2. Deadline(Start(qualifying)) \in Nat
      BY <1>11, SomeInputs, TimesAreNatural
    <3>3. carried = [status |-> "new", from |-> "", closedAt |-> -1,
                   deadline |-> Deadline(Start(qualifying))]
      BY <3>1 DEF NewTerms, NoTime
    <3>. HIDE DEF carried
    <3>4. /\ carried.status = "new" /\ carried.from = "" /\ carried.closedAt = -1
          /\ carried.deadline = Deadline(Start(qualifying))
      BY <3>3
    <3>5. -1 \in Int
      OBVIOUS
    <3>6. carried.closedAt \in Int
      BY <3>4, <3>5, Zenon
    <3>. QED  BY <2>1, <3>2, <3>4, <3>6
  <2>2. CASE old # {}
    <3>1. carried = [status |-> The(old).status, from |-> The(old).from,
                   closedAt |-> The(old).closedAt, deadline |-> The(old).deadline]
      BY <2>2 DEF TermsOf
    <3>2. The(old) \in rows /\ \A p \in old : p = The(old)
      BY <1>8, <2>2
    <3>. HIDE DEF carried
    <3>. QED  BY <1>9, <2>2, <3>1, <3>2
  <2>. HIDE DEF carried
  <2>. QED  BY <2>1, <2>2
<1>. HIDE DEF carried
<1>15. /\ members \in SUBSET Inputs
       /\ (\A i \in confirmed : InWindow(start, i)) => confirmed \subseteq members
  <2>1. owned \in SUBSET Inputs /\ approved \in SUBSET Inputs
    BY <1>2, <1>4
  <2>. HIDE DEF owned, approved
  <2>. QED  BY <1>10, <2>1 DEF MembersOf
<1>. HIDE DEF members
<1>16. /\ incident \in IncidentRow
       /\ incident.id = anchor /\ incident.token = c /\ incident.qualifying = qualifying
       /\ incident.members = members
       /\ \/ old = {} /\ (held = {} => Opens(incident))
          \/ \E p \in old : Extends(p, incident)
  <2>. DEFINE N == {r.revision : r \in old}
              m == Max({0} \cup N)
  <2>1. N \in SUBSET Nat /\ (\A x, y \in N : x = y) /\ \A p \in old : p.revision \in N
    BY <1>8, <1>9
  <2>2. old = {} => N = {}
    OBVIOUS
  <2>3. incident = [id |-> anchor, revision |-> 1 + m, token |-> c,
          members |-> members, qualifying |-> qualifying, status |-> carried.status,
          from |-> carried.from, closedAt |-> carried.closedAt, deadline |-> carried.deadline]
    BY DEF NextIncident
  <2>. HIDE DEF N, incident
  <2>4. m \in Nat /\ (N = {} => m = 0) /\ \A x \in N : m = x
    BY <2>1, MaxOfOne
  <2>. HIDE DEF m
  <2>5. incident \in IncidentRow
    <3>1. 1 + m \in Nat /\ c \in Nat
      BY <1>2, <2>4, TimesAreNatural
    <3>. QED  BY <1>7, <1>11, <1>14, <1>15, <2>3, <3>1 DEF IncidentRow
  <2>6. \/ old = {} /\ (held = {} => Opens(incident))
        \/ \E p \in old : Extends(p, incident)
    <3>1. CASE old = {}
      <4>1. incident.revision = 1
        BY <2>2, <2>3, <2>4, <3>1
      <4>2. incident.status = carried.status /\ incident.deadline = carried.deadline
        BY <2>3
      <4>3. carried.status = "new" /\ carried.deadline = Deadline(Start(incident.qualifying))
        BY <1>14, <2>3, <3>1
      <4>. QED  BY <3>1, <4>1, <4>2, <4>3 DEF Opens
    <3>2. ASSUME NEW p \in old PROVE Extends(p, incident)
      <4>1. p.revision \in Nat /\ m = p.revision
        BY <1>8, <1>9, <2>1, <2>4
      <4>2. incident.id = p.id /\ incident.revision = p.revision + 1
        BY <1>8, <2>3, <4>1
      <4>3. incident.qualifying = p.qualifying
        BY <1>11, <2>3
      <4>4. /\ incident.status = p.status /\ incident.from = p.from
            /\ incident.closedAt = p.closedAt /\ incident.deadline = p.deadline
        BY <1>14, <2>3
      <4>. QED  BY <4>2, <4>3, <4>4 DEF Extends, Precedes
    <3>. QED  BY <3>1, <3>2
  <2>. QED  BY <2>3, <2>5, <2>6
<1>17. /\ episode \in EpisodeRow /\ episode.token = c /\ episode.incident = anchor
       /\ ~(\E s \in state : s.token = c) =>
            episode.revision = 1 \/ \E s \in S : s.token # c /\ Continues(s, episode)
  <2>. DEFINE replaying  == \E s \in state : s.token = c
              overlaps   == {s \in Owning(S) : InWindow(s.start, c)}
              id         == EpisodeId(state, o.match.members)
              revisions  == {s.revision : s \in state}
              counts     == {s.collisions : s \in state}
              added      == IF replaying THEN 0 ELSE Max({0, Cardinality(overlaps) - 1})
              revision   == Max({0} \cup revisions) + (IF replaying THEN 0 ELSE 1)
              collisions == Max({0} \cup counts) + added
  <2>1. episode = [id |-> id, revision |-> revision, token |-> c, qualifying |-> canonical,
          incident |-> anchor, start |-> start, owned |-> members,
          deadline |-> incident.deadline, collisions |-> collisions]
    BY DEF NextEpisode
  <2>2. /\ id \in Inputs
        /\ \A s \in state : id = s.id
    <3>1. state # {} => The(state) \in state
      BY DEF The
    <3>2. o.match.members \in SUBSET Inputs
      BY <1>2, <1>4
    <3>. QED  BY <1>3, <1>4, <1>5, <3>1, <3>2, SomeInputs DEF EpisodeId
  <2>3. /\ revisions \in SUBSET Nat /\ (\A x, y \in revisions : x = y)
        /\ \A s \in state : s.revision \in revisions
        /\ state = {} => revisions = {}
        /\ counts \in SUBSET Nat /\ (\A x, y \in counts : x = y)
    BY <1>3, <1>5
  <2>4. Cardinality(overlaps) \in Nat
    <3>1. overlaps \in SUBSET S
      BY <1>3
    <3>. HIDE DEF overlaps
    <3>. QED  BY <1>2, <3>1, FS_Subset, FS_CardinalityType
  <2>. HIDE DEF id, revisions, counts, overlaps, replaying
  <2>5. added \in Nat
    BY <2>4, MaxWithZero
  <2>6. /\ Max({0} \cup revisions) \in Nat
        /\ revisions = {} => Max({0} \cup revisions) = 0
        /\ \A x \in revisions : Max({0} \cup revisions) = x
    BY <2>3, MaxOfOne
  <2>7. Max({0} \cup counts) \in Nat
    BY <2>3, MaxOfOne
  <2>8. collisions \in Nat
    BY <2>5, <2>7
  <2>9. revision \in Nat
    BY <2>6
  <2>10. ~ replaying => /\ state = {} => revision = 1
                        /\ \A s \in state : revision = s.revision + 1
    <3>. DEFINE m == Max({0} \cup revisions)
    <3>1. ~ replaying => revision = m + 1
      OBVIOUS
    <3>2. state = {} => m = 0
      BY <2>3, <2>6
    <3>3. \A s \in state : m = s.revision
      BY <2>3, <2>6
    <3>. HIDE DEF m, revision
    <3>. QED  BY <3>1, <3>2, <3>3
  <2>. HIDE DEF added, revision, collisions, episode
  <2>11. episode \in EpisodeRow
    <3>1. incident.deadline \in Nat
      BY <1>16 DEF IncidentRow
    <3>. QED  BY <1>2, <1>7, <1>12, <1>13, <1>15, <2>1, <2>2, <2>8, <2>9, <3>1 DEF EpisodeRow
  <2>12. ~ replaying => \A s \in state : s.token # c /\ Continues(s, episode)
    <3>. SUFFICES ASSUME ~ replaying, NEW s \in state
                  PROVE  s.token # c /\ Continues(s, episode)
      OBVIOUS
    <3>1. s.token # c
      BY DEF replaying
    <3>2. s.incident # 0 => anchor = s.incident /\ start = s.start
      BY <1>5, <1>6, <1>13 DEF anchor
    <3>. QED  BY <2>1, <2>2, <2>10, <3>1, <3>2 DEF Continues
  <2>. QED  BY <1>5, <2>1, <2>10, <2>11, <2>12 DEF replaying
<1>. SUFFICES Follows(d, c, S, rows, linked, raw)
  OBVIOUS
<1>18. CASE /\ \A i \in confirmed : InWindow(start, i)
            /\ (\E s \in state : s.token = c) => episode \in state
            /\ d = result
  <2>. HIDE DEF incident, episode, d, unchanged, stored
  <2>1. result \in Decision
    BY <1>7, <1>11, <1>15, <1>16, <1>17 DEF Decision
  <2>2. IncidentFollows(result, c, rows, linked)
    <3>1. ASSUME NEW p \in old PROVE p.id = anchor /\ linked[p.id] \subseteq incident.members
      BY <1>8, <1>10, <1>15, <1>16, <1>18, <3>1
    <3>2. old = {} /\ held # {} => stored
      <4>1. old = {} /\ held # {} => \E s \in S : s.incident # 0 /\ s.incident = anchor
        BY <1>5, <1>6, InputsAssumption DEF anchor
      <4>2. \A s \in S : s.incident # 0 => \E r \in raw : r.id = s.incident
        BY <1>2, Zenon DEF HasIncident
      <4>. QED  BY <4>1, <4>2, Zenon DEF stored
    <3>3. stored \/ Opens(incident) \/ \E p \in rows : Extends(p, incident)
                                     /\ linked[p.id] \subseteq incident.members
      BY <1>8, <1>16, <3>1, <3>2
    <3>4. \A n \in result.incident : n = incident /\ ~ stored
      OBVIOUS
    <3>5. result.anchor = anchor
      OBVIOUS
    <3>. HIDE DEF result
    <3>. QED  BY <1>11, <1>16, <3>3, <3>4, <3>5 DEF IncidentFollows
  <2>3. EpisodeFollows(result, c, S, raw)
    <3>1. \A e \in result.episode : e = episode
      OBVIOUS
    <3>2. \E r \in raw \cup result.incident : r.id = anchor
      <4>1. unchanged => \E r \in raw : r.id = anchor
        BY <1>2, <1>8 DEF unchanged
      <4>2. stored => \E r \in raw : r.id = anchor
        BY DEF stored
      <4>3. ~ unchanged /\ ~ stored => incident \in result.incident
        OBVIOUS
      <4>. HIDE DEF result
      <4>. QED  BY <1>16, <4>1, <4>2, <4>3
    <3>. HIDE DEF result
    <3>. QED  BY <1>5, <1>17, <1>18, <3>1, <3>2 DEF EpisodeFollows, HasIncident
  <2>4. result.links # {} => result.anchor \in Inputs
    BY <1>7
  <2>. HIDE DEF result
  <2>. QED  BY <1>18, <2>1, <2>2, <2>3, <2>4 DEF Follows
<1>. HIDE DEF d, result, episode
<1>. QED  BY <1>1, <1>18, NothingFollows

\* Whatever an evaluation decides, what it writes follows what it loaded.
LEMMA EvaluationFollows ==
  ASSUME NEW c, NEW context, NEW S, NEW rows, NEW linked, NEW raw,
         Loadable(c, context, S, rows, linked, raw)
  PROVE  Follows(Evaluate(c, context, S, rows, linked, raw), c, S, rows, linked, raw)
<1>. DEFINE selected == Selected(c, context, S, rows)
<1>1. selected # {} =>
        Follows(MatchDecision(c, context, S, rows, linked, raw, The(selected)),
                c, S, rows, linked, raw)
  <2>1. selected # {} => The(selected) \in selected
    BY DEF The
  <2>. QED  BY <2>1, MatchDecisionFollows
<1>2. Follows(PartialDecision(c, context, S), c, S, rows, linked, raw)
  BY PartialDecisionFollows
<1>. QED  BY <1>1, <1>2, NothingFollows DEF Evaluate

(***************************************************************************)
(* The inductive invariant                                                 *)
(***************************************************************************)
USE DEF given, tables, page, current, vars

\* The rows of incidents a view can serve.
Visible == CommittedIncidents(incidentRows)
Persisting == {"writeIncident", "writeLinks", "writeEventLinks", "writeEpisode", "markEvaluated"}

\* A page is split into candidates to evaluate, candidates without effects and
\* the one that is being persisted.
PageIsSplit ==
  /\ pc \notin Persisting => candidate = 0 /\ decision = Stateless
  /\ pc \in Persisting => candidate \in (sources \ ledger) \ (todo \cup stateless)
  /\ todo \cap stateless = {}
  /\ pc = "idle" => stateless = {}

\* The tables are finite, and some inputs opened each incident.
TablesAreFinite ==
  /\ IsFiniteSet(incidentRows) /\ IsFiniteSet(episodeRows)
  /\ \A r \in incidentRows : r.qualifying # {}

\* A revision after the first follows a visible one, which stays visible, and the
\* incident of an episode is written before the episode.
RevisionsFollow ==
  /\ \A n \in incidentRows :
       n.revision = 1 \/ \E p \in CommittedIncidents(incidentRows) : Precedes(p, n)
  /\ \A e \in episodeRows :
       /\ HasIncident(e, incidentRows)
       /\ e.revision = 1 \/ \E s \in Committed(episodeRows) : Continues(s, e)

\* What d writes for c follows what is visible, however long ago d was made.
Sound(d, c) ==
  /\ d \in Decision
  /\ d.links # {} => d.anchor \in Inputs
  /\ \A n \in d.incident :
       /\ n.token = c /\ n.qualifying # {} /\ \A m \in d.incident : m = n
       /\ Opens(n) \/ \E p \in CommittedIncidents(incidentRows) : Extends(p, n)
  /\ \A e \in d.episode :
       \/ e \in episodeRows
       \/ /\ e.token = c /\ \A f \in d.episode : f = e
          /\ HasIncident(e, incidentRows \cup d.incident)
          /\ e.revision = 1 \/ \E s \in Committed(episodeRows) : Continues(s, e)

\* The event links are inserted without another comparison.
LinksWereCompared == pc = "writeEventLinks" => ~ LinkConflict

\* The incident is written before the rest.
IncidentIsFirst ==
  pc \in {"writeLinks", "writeEventLinks", "writeEpisode", "markEvaluated"} =>
    decision.incident \subseteq incidentRows

EngineInv ==
  /\ TypeOK /\ PageIsSplit /\ TablesAreFinite
  /\ WrittenOnce /\ LinksWereCompared /\ IncidentIsFirst
  /\ RevisionsFollow /\ Sound(decision, candidate)

\* The engine only adds to its tables what the decision at hand holds, and only
\* with the tokens of evaluated inputs does a row become visible.
LEMMA TablesGrow ==
  ASSUME [Next]_vars
  PROVE  /\ ledger \subseteq ledger' /\ audits' = audits /\ condition' = condition
         /\ incidentRows \subseteq incidentRows' /\ episodeRows \subseteq episodeRows'
         /\ linkRows \subseteq linkRows'
         /\ incidentRows' \subseteq incidentRows \cup decision.incident
         /\ episodeRows' \subseteq episodeRows \cup decision.episode
<1>. USE DEF EndCycle
<1>1. CASE \E i \in Inputs : Arrive(i)
  BY <1>1 DEF Arrive
<1>2. CASE FetchCandidates
  BY <1>2 DEF FetchCandidates
<1>3. CASE EvaluateCandidate
  BY <1>3 DEF EvaluateCandidate
<1>4. CASE WriteIncident
  BY <1>4 DEF WriteIncident
<1>5. CASE WriteDetectionLinks
  BY <1>5 DEF WriteDetectionLinks
<1>6. CASE WriteEventLinks
  BY <1>6 DEF WriteEventLinks
<1>7. CASE WriteEpisodeState
  BY <1>7 DEF WriteEpisodeState
<1>8. CASE PersistenceConflict
  BY <1>8 DEF PersistenceConflict
<1>9. CASE MarkEvaluated
  BY <1>9 DEF MarkEvaluated
<1>10. CASE MarkStateless
  BY <1>10 DEF MarkStateless
<1>11. CASE SaveSchedule
  BY <1>11 DEF SaveSchedule
<1>12. CASE Crash
  BY <1>12 DEF Crash
<1>13. CASE UNCHANGED vars
  BY <1>13
<1>. QED  BY <1>1, <1>2, <1>3, <1>4, <1>5, <1>6, <1>7, <1>8, <1>9, <1>10, <1>11, <1>12, <1>13
          DEF Next, Cycle, Persist

\* What is visible stays visible as evaluated inputs and audit rows are added.
LEMMA VisibleStays ==
  ASSUME ledger \subseteq ledger', audits \subseteq audits',
         incidentRows \subseteq incidentRows', episodeRows \subseteq episodeRows'
  PROVE  /\ CommittedIncidents(incidentRows) \subseteq CommittedIncidents(incidentRows)'
         /\ Committed(episodeRows) \subseteq Committed(episodeRows)'
  BY DEF CommittedIncidents, Committed

\* One row is visible of each incident.
LEMMA OneRowIsVisible ==
  ASSUME TypeOK, WrittenOnce
  PROVE  \A p, q \in CurrentIncidents : p.id = q.id => p = q
<1>. SUFFICES ASSUME NEW p \in CurrentIncidents, NEW q \in CurrentIncidents, p.id = q.id
              PROVE  p = q
  OBVIOUS
<1>1. p \in incidentRows /\ q \in incidentRows
  BY DEF CurrentIncidents, Latest, CommittedIncidents
<1>2. p.revision \in Nat /\ q.revision \in Nat
  BY <1>1 DEF TypeOK, IncidentRow
<1>3. p.revision = q.revision
  BY <1>2 DEF CurrentIncidents, Latest
<1>. QED  BY <1>1, <1>3 DEF WrittenOnce

\* What an evaluation reads is what Evaluate may be given.
LEMMA EvaluationLoads ==
  ASSUME EngineInv, NEW c \in Inputs, NEW context \in SUBSET Inputs,
         NEW rows \in SUBSET CurrentIncidents
  PROVE  Loadable(c, context, LoadedEpisodes(c), rows, Linked, incidentRows)
<1>1. LoadedEpisodes(c) \in SUBSET episodeRows
  BY DEF LoadedEpisodes, CurrentEpisodes, Latest, Committed
<1>2. IsFiniteSet(LoadedEpisodes(c))
  BY <1>1, FS_Subset DEF EngineInv, TablesAreFinite
<1>3. rows \in SUBSET incidentRows
  BY DEF CurrentIncidents, Latest, CommittedIncidents
<1>4. \A r \in rows : r.qualifying # {} /\ \A q \in rows : q.id = r.id => q = r
  BY <1>3, OneRowIsVisible DEF EngineInv, TablesAreFinite
<1>5. Linked \in [Inputs -> SUBSET Inputs]
  <2>1. \A k \in Committed(linkRows) : k.input \in Inputs
    BY DEF EngineInv, TypeOK, LinkRow, Committed
  <2>. QED  BY <2>1 DEF Linked
<1>6. \A s \in LoadedEpisodes(c) : HasIncident(s, incidentRows)
  BY <1>1 DEF EngineInv, RevisionsFollow
<1>. QED  BY <1>1, <1>2, <1>3, <1>4, <1>5, <1>6 DEF Loadable, EngineInv, TypeOK

\* A decision follows what the engine loads for it.
LEMMA DecisionFollowsLoaded ==
  ASSUME EngineInv, NEW c \in Inputs, NEW context \in SUBSET Inputs
  PROVE  LET S    == LoadedEpisodes(c)
             rows == {r \in CurrentIncidents : \E s \in Owning(S) : s.incident = r.id}
         IN  Follows(Decide(c, context), c, S, rows, Linked, incidentRows)
<1>. DEFINE S    == LoadedEpisodes(c)
            rows == {r \in CurrentIncidents : \E s \in Owning(S) : s.incident = r.id}
            d    == Decide(c, context)
<1>1. Loadable(c, context, S, rows, Linked, incidentRows)
  BY EvaluationLoads
<1>2. Follows(Evaluate(c, context, S, rows, Linked, incidentRows), c, S, rows, Linked, incidentRows)
  BY <1>1, EvaluationFollows
<1>3. d = Failed \/ d = Evaluate(c, context, S, rows, Linked, incidentRows)
  BY DEF Decide
<1>. QED  BY <1>2, <1>3, NothingFollows

\* A decision is sound when it is made.
LEMMA DecisionsAreSound ==
  ASSUME EngineInv, NEW c \in Inputs, NEW context \in SUBSET Inputs
  PROVE  Sound(Decide(c, context), c)
<1>. DEFINE S    == LoadedEpisodes(c)
            rows == {r \in CurrentIncidents : \E s \in Owning(S) : s.incident = r.id}
            d    == Decide(c, context)
<1>1. Follows(d, c, S, rows, Linked, incidentRows)
  BY DecisionFollowsLoaded
<1>2. rows \in SUBSET CommittedIncidents(incidentRows)
  BY DEF CurrentIncidents, Latest
<1>3. S \in SUBSET episodeRows /\ \A s \in S : s.token # c => s \in Committed(episodeRows)
  BY DEF LoadedEpisodes, CurrentEpisodes, Latest, Committed
<1>. HIDE DEF S, rows, d
<1>4. \A n \in d.incident :
        /\ n.token = c /\ n.qualifying # {} /\ \A m \in d.incident : m = n
        /\ Opens(n) \/ \E p \in CommittedIncidents(incidentRows) : Extends(p, n)
  BY <1>1, <1>2 DEF Follows, IncidentFollows
<1>5. \A e \in d.episode :
        \/ e \in episodeRows
        \/ /\ e.token = c /\ \A f \in d.episode : f = e
           /\ HasIncident(e, incidentRows \cup d.incident)
           /\ e.revision = 1 \/ \E s \in Committed(episodeRows) : Continues(s, e)
  BY <1>1, <1>3 DEF Follows, EpisodeFollows
<1>. QED  BY <1>1, <1>4, <1>5 DEF Sound, Follows, d

\* A page of candidates has a last one.
LEMMA PageHasLast ==
  ASSUME NEW P \in SUBSET Inputs, P # {}, NEW from \in Nat
  PROVE  The({i \in P : \A j \in P \ {i} : Ahead(from, j, i)}) \in P
<1>. DEFINE R == {p \in P \X P : Ahead(from, p[2], p[1])}
<1>1. \A i, j \in P : <<i, j>> \in R <=> Ahead(from, j, i)
  OBVIOUS
<1>2. \A i \in P : i \in Nat
  BY TimesAreNatural
<1>3. \A i, j \in P : i # j => Ahead(from, i, j) \/ Ahead(from, j, i)
  BY <1>2 DEF Ahead
<1>4. \A i, j, k \in P : Ahead(from, j, i) /\ Ahead(from, k, j) => Ahead(from, k, i)
  BY <1>2 DEF Ahead
<1>. HIDE DEF R
<1>5. \A i, j \in P : i # j => <<i, j>> \in R \/ <<j, i>> \in R
  BY <1>1, <1>3
<1>6. \A i, j, k \in P : <<i, j>> \in R /\ <<j, k>> \in R => <<i, k>> \in R
  BY <1>1, <1>4
<1>7. IsFiniteSet(P)
  BY SomeInputs
<1>8. \E i \in P : \A j \in P \ {i} : <<i, j>> \in R
  BY <1>5, <1>6, <1>7, FirstOfFinite
<1>9. {i \in P : \A j \in P \ {i} : Ahead(from, j, i)} # {}
  BY <1>1, <1>8
<1>. QED  BY <1>9 DEF The

\* An evaluated candidate leaves the page, or is persisted as it was decided.
LEMMA EvaluateCandidateChoice ==
  ASSUME EngineInv, EvaluateCandidate
  PROVE  \E c \in todo, context \in SUBSET sources, d \in Decision :
           /\ d = Decide(c, context) /\ Sound(d, c)
           /\ todo' = todo \ {c} /\ stateless' \in {stateless, stateless \cup {c}}
           /\ \/ UNCHANGED <<pc, candidate, decision>>
              \/ /\ stateless' = stateless
                 /\ pc' = "writeIncident" /\ candidate' = c /\ decision' = d
           /\ \A t \in DOMAIN contexts' : contexts'[t] \subseteq sources
           /\ UNCHANGED <<condition, sources, audits, tables, cursor, reached, crashes>>
<1>1. PICK c \in todo :
        LET known   == Occurred[c] \in DOMAIN contexts
            context == IF c \in Invalid THEN {c}
                       ELSE IF known THEN contexts[Occurred[c]] ELSE SourceWindow(c)
            kept    == IF Cardinality(DOMAIN contexts) >= CacheSlots THEN <<>> ELSE contexts
        IN  \E d \in {Decide(c, context)} :
            /\ todo' = todo \ {c}
            /\ contexts' = IF c \in Invalid \/ known \/ Cardinality(context) > ContextLimit
                           THEN contexts
                           ELSE [t \in {Occurred[c]} \cup DOMAIN kept |->
                                   IF t = Occurred[c] THEN context ELSE kept[t]]
            /\ stateless' = IF d.failed \/ HasEffects(d) THEN stateless
                            ELSE stateless \cup {c}
            /\ IF HasEffects(d)
               THEN pc' = "writeIncident" /\ candidate' = c /\ decision' = d
               ELSE UNCHANGED <<pc, current>>
  BY DEF EvaluateCandidate
<1>. DEFINE known   == Occurred[c] \in DOMAIN contexts
            context == IF c \in Invalid THEN {c}
                       ELSE IF known THEN contexts[Occurred[c]] ELSE SourceWindow(c)
            kept    == IF Cardinality(DOMAIN contexts) >= CacheSlots THEN <<>> ELSE contexts
            d       == Decide(c, context)
<1>2. /\ todo' = todo \ {c}
      /\ contexts' = IF c \in Invalid \/ known \/ Cardinality(context) > ContextLimit
                     THEN contexts
                     ELSE [t \in {Occurred[c]} \cup DOMAIN kept |->
                             IF t = Occurred[c] THEN context ELSE kept[t]]
      /\ stateless' = IF d.failed \/ HasEffects(d) THEN stateless ELSE stateless \cup {c}
      /\ IF HasEffects(d)
         THEN pc' = "writeIncident" /\ candidate' = c /\ decision' = d
         ELSE UNCHANGED <<pc, current>>
  BY <1>1
<1>3. c \in Inputs /\ sources \in SUBSET Inputs
  BY DEF EngineInv, TypeOK
<1>4. context \in SUBSET sources
  BY DEF SourceWindow, EngineInv, TypeOK
<1>5. Sound(d, c)
  <2>. HIDE DEF context
  <2>. QED  BY <1>3, <1>4, DecisionsAreSound
<1>6. d \in Decision
  <2>. HIDE DEF d
  <2>. QED  BY <1>5 DEF Sound
<1>7. \A t \in DOMAIN kept : kept[t] \subseteq sources
  BY DEF EngineInv, TypeOK
<1>8. d = Decide(c, context)
  OBVIOUS
<1>. HIDE DEF known, context, kept, d
<1>9. \A t \in DOMAIN contexts' : contexts'[t] \subseteq sources
  <2>1. CASE contexts' = contexts
    BY <2>1 DEF EngineInv, TypeOK
  <2>2. CASE contexts' = [t \in {Occurred[c]} \cup DOMAIN kept |->
                            IF t = Occurred[c] THEN context ELSE kept[t]]
    BY <1>4, <1>7, <2>2
  <2>. QED  BY <1>2, <2>1, <2>2
<1>10. UNCHANGED <<condition, sources, audits, tables, cursor, reached, crashes>>
  BY DEF EvaluateCandidate
<1>. QED  BY <1>2, <1>4, <1>5, <1>6, <1>9, <1>10, <1>8

\* Types, finiteness and the split of the page are kept.
LEMMA TypesAreKept ==
  ASSUME EngineInv, [Next]_vars
  PROVE  TypeOK' /\ PageIsSplit' /\ TablesAreFinite'
<1>1. TablesAreFinite'
  <2>1. IsFiniteSet(decision.incident)
    <3>1. CASE decision.incident = {}
      BY <3>1, FS_EmptySet
    <3>2. ASSUME NEW n \in decision.incident PROVE IsFiniteSet(decision.incident)
      <4>1. decision.incident = {n}
        BY DEF EngineInv, Sound
      <4>. QED  BY <4>1, FS_Singleton
    <3>. QED  BY <3>1, <3>2
  <2>2. IsFiniteSet(decision.episode \ episodeRows)
    <3>1. CASE decision.episode \ episodeRows = {}
      BY <3>1, FS_EmptySet
    <3>2. ASSUME NEW e \in decision.episode \ episodeRows
          PROVE  IsFiniteSet(decision.episode \ episodeRows)
      <4>1. decision.episode \ episodeRows = {e}
        BY DEF EngineInv, Sound
      <4>. QED  BY <4>1, FS_Singleton
    <3>. QED  BY <3>1, <3>2
  <2>3. IsFiniteSet(incidentRows \cup decision.incident)
    BY <2>1, FS_Union DEF EngineInv, TablesAreFinite
  <2>4. IsFiniteSet(episodeRows \cup (decision.episode \ episodeRows))
    BY <2>2, FS_Union DEF EngineInv, TablesAreFinite
  <2>5. /\ incidentRows' \in SUBSET (incidentRows \cup decision.incident)
        /\ episodeRows' \in SUBSET (episodeRows \cup (decision.episode \ episodeRows))
    BY TablesGrow
  <2>6. IsFiniteSet(incidentRows') /\ IsFiniteSet(episodeRows')
    BY <2>3, <2>4, <2>5, FS_Subset
  <2>7. \A r \in incidentRows' : r.qualifying # {}
    BY <2>5 DEF EngineInv, TablesAreFinite, Sound
  <2>. QED  BY <2>6, <2>7 DEF TablesAreFinite
<1>2. incidentRows' \subseteq IncidentRow /\ episodeRows' \subseteq EpisodeRow
  BY TablesGrow DEF EngineInv, TypeOK, Sound, Decision
<1>3. linkRows' \subseteq LinkRow
  <2>1. LinksOf(decision) \subseteq LinkRow
    <3>1. ASSUME NEW i \in decision.links
          PROVE  [incident |-> decision.anchor, input |-> i, token |-> candidate,
                  relationship |-> Relationship(decision, i)] \in LinkRow
      <4>1. decision.anchor \in Inputs /\ i \in Inputs
        BY DEF EngineInv, Sound, Decision
      <4>2. candidate \in Inputs
        <5>1. decision # Stateless
          BY DEF Stateless
        <5>. QED  BY <5>1 DEF EngineInv, TypeOK, PageIsSplit
      <4>3. Relationship(decision, i) \in {"trigger", "supporting", "context"}
        BY DEF Relationship
      <4>. QED  BY <4>1, <4>2, <4>3 DEF LinkRow
    <3>. QED  BY <3>1 DEF LinksOf
  <2>2. linkRows' \subseteq linkRows \cup LinksOf(decision)
    BY DEF Next, Cycle, Persist, Arrive, FetchCandidates, EvaluateCandidate, WriteIncident,
           WriteDetectionLinks, WriteEventLinks, WriteEpisodeState, PersistenceConflict,
           MarkEvaluated, MarkStateless, SaveSchedule, Crash
  <2>. QED  BY <2>1, <2>2 DEF EngineInv, TypeOK
<1>. DEFINE Rest == /\ condition' \in Conditions
                    /\ sources' \subseteq Inputs /\ ledger' \subseteq sources'
                    /\ schedule' \in {0} \cup Inputs
                    /\ pc' \in Steps
                    /\ cursor' \in {0} \cup Inputs /\ reached' \in {0} \cup Inputs
                    /\ todo' \subseteq sources' \ ledger' /\ stateless' \subseteq sources' \ ledger'
                    /\ \A t \in DOMAIN contexts' : contexts'[t] \subseteq sources'
                    /\ candidate' \in {0} \cup (sources' \ ledger')
                    /\ crashes' \in 0 .. MaxCrashes
                    /\ PageIsSplit'
<1>. USE DEF Goto, NextCandidate, Persisting, Steps
<1>4. SUFFICES Rest
  BY <1>1, <1>2, <1>3 DEF TypeOK
<1>5. /\ condition \in Conditions
      /\ sources \subseteq Inputs /\ ledger \subseteq sources
      /\ schedule \in {0} \cup Inputs
      /\ pc \in Steps
      /\ cursor \in {0} \cup Inputs /\ reached \in {0} \cup Inputs
      /\ todo \subseteq sources \ ledger /\ stateless \subseteq sources \ ledger
      /\ \A t \in DOMAIN contexts : contexts[t] \subseteq sources
      /\ candidate \in {0} \cup (sources \ ledger)
      /\ crashes \in 0 .. MaxCrashes
      /\ PageIsSplit
  BY DEF EngineInv, TypeOK
<1>6. CASE \E i \in Inputs : Arrive(i)
  BY <1>5, <1>6 DEF Arrive, PageIsSplit
<1>7. CASE FetchCandidates
  <2>. DEFINE from == Max({schedule} \cup ledger)
              P    == Page(Unevaluated, from)
  <2>1. /\ pc = "idle" /\ pc' = "evaluate" /\ cursor' = from /\ todo' = P
        /\ reached' = IF P = {} THEN from
                      ELSE The({i \in P : \A j \in P \ {i} : Ahead(from, j, i)})
        /\ UNCHANGED <<given, tables, contexts, stateless, current, crashes>>
    BY <1>7 DEF FetchCandidates
  <2>2. from \in {0} \cup Inputs
    <3>1. {schedule} \cup ledger \in SUBSET Int
      BY <1>5, TimesAreNatural
    <3>2. IsFiniteSet({schedule} \cup ledger)
      BY <1>5, InputsAssumption, FS_Subset, FS_Singleton, FS_Union
    <3>. QED  BY <1>5, <3>1, <3>2, MaxOfFinite
  <2>3. P \subseteq sources \ ledger
    BY DEF Page, Unevaluated
  <2>4. reached' \in {0} \cup Inputs
    <3>. HIDE DEF from, P
    <3>1. from \in Nat /\ P \in SUBSET Inputs
      BY <1>5, <2>2, <2>3, TimesAreNatural
    <3>. QED  BY <2>1, <2>2, <3>1, PageHasLast
  <2>. HIDE DEF from, P
  <2>. QED  BY <1>5, <2>1, <2>2, <2>3, <2>4 DEF PageIsSplit
<1>8. CASE EvaluateCandidate
  <2>1. PICK c \in todo, d \in Decision :
           /\ todo' = todo \ {c} /\ stateless' \in {stateless, stateless \cup {c}}
           /\ \/ UNCHANGED <<pc, candidate, decision>>
              \/ /\ stateless' = stateless
                 /\ pc' = "writeIncident" /\ candidate' = c /\ decision' = d
           /\ \A t \in DOMAIN contexts' : contexts'[t] \subseteq sources
           /\ UNCHANGED <<condition, sources, audits, tables, cursor, reached, crashes>>
    BY <1>8, EvaluateCandidateChoice
  <2>2. pc = "evaluate"
    BY <1>8 DEF EvaluateCandidate
  <2>3. c \in (sources' \ ledger') \ todo'
    BY <1>5, <2>1
  <2>4. PageIsSplit'
    BY <1>5, <2>1, <2>2, <2>3 DEF PageIsSplit
  <2>. QED  BY <1>5, <2>1, <2>2, <2>3, <2>4
<1>9. CASE WriteIncident
  BY <1>5, <1>9 DEF WriteIncident, PageIsSplit
<1>10. CASE WriteDetectionLinks
  BY <1>5, <1>10 DEF WriteDetectionLinks, PageIsSplit
<1>11. CASE WriteEventLinks
  BY <1>5, <1>11 DEF WriteEventLinks, PageIsSplit
<1>12. CASE WriteEpisodeState
  BY <1>5, <1>12 DEF WriteEpisodeState, PageIsSplit
<1>13. CASE PersistenceConflict
  BY <1>5, <1>13 DEF PersistenceConflict, Refused, PageIsSplit
<1>14. CASE MarkEvaluated
  BY <1>5, <1>14 DEF MarkEvaluated, PageIsSplit
<1>15. CASE MarkStateless
  BY <1>5, <1>15 DEF MarkStateless, PageIsSplit
<1>16. CASE SaveSchedule
  BY <1>5, <1>16 DEF SaveSchedule, EndCycle, PageIsSplit
<1>17. CASE Crash
  BY <1>5, <1>17, EngineAssumption DEF Crash, EndCycle, PageIsSplit
<1>18. CASE UNCHANGED vars
  BY <1>5, <1>18 DEF PageIsSplit
<1>. QED  BY <1>6, <1>7, <1>8, <1>9, <1>10, <1>11, <1>12, <1>13, <1>14, <1>15, <1>16, <1>17, <1>18
          DEF Next, Cycle, Persist

\* A revision and a link are still written once: a new row that another one
\* contradicts is refused before it is inserted, and a decision does not
\* contradict itself.
LEMMA RowsAreWrittenOnce ==
  ASSUME EngineInv, [Next]_vars
  PROVE  WrittenOnce' /\ LinksWereCompared'
<1>. DEFINE Once(R) == \A r, q \in R : r.id = q.id /\ r.revision = q.revision => r = q
            OneLink(R) == \A l, k \in R : l.incident = k.incident /\ l.input = k.input => l = k
<1>1. Once(incidentRows) /\ Once(episodeRows) /\ OneLink(linkRows)
  BY DEF EngineInv, WrittenOnce
<1>2. Once(incidentRows')
  <2>1. CASE WriteIncident
    <3>1. \A r \in decision.incident, q \in incidentRows :
            r.id = q.id /\ r.revision = q.revision => r = q
      BY <2>1 DEF WriteIncident, Conflicts, Rivals
    <3>2. \A r, q \in decision.incident : r = q
      BY DEF EngineInv, Sound
    <3>3. incidentRows' = incidentRows \cup decision.incident
      BY <2>1 DEF WriteIncident
    <3>. QED  BY <1>1, <3>1, <3>2, <3>3
  <2>2. CASE ~ WriteIncident
    <3>1. incidentRows' = incidentRows
      BY <2>2 DEF Next, Cycle, Persist, Arrive, FetchCandidates, EvaluateCandidate,
                  WriteDetectionLinks, WriteEventLinks, WriteEpisodeState, PersistenceConflict,
                  MarkEvaluated, MarkStateless, SaveSchedule, Crash
    <3>. QED  BY <1>1, <3>1
  <2>. QED  BY <2>1, <2>2
<1>3. Once(episodeRows')
  <2>1. CASE WriteEpisodeState
    <3>1. \A r \in decision.episode, q \in episodeRows :
            r.id = q.id /\ r.revision = q.revision => r = q
      BY <2>1 DEF WriteEpisodeState, Conflicts, Rivals
    <3>2. \A r, q \in decision.episode : r = q \/ r \in episodeRows \/ q \in episodeRows
      BY DEF EngineInv, Sound
    <3>3. episodeRows' = episodeRows \cup decision.episode
      BY <2>1 DEF WriteEpisodeState
    <3>. QED  BY <1>1, <3>1, <3>2, <3>3
  <2>2. CASE ~ WriteEpisodeState
    <3>1. episodeRows' = episodeRows
      BY <2>2 DEF Next, Cycle, Persist, Arrive, FetchCandidates, EvaluateCandidate,
                  WriteDetectionLinks, WriteEventLinks, WriteIncident, PersistenceConflict,
                  MarkEvaluated, MarkStateless, SaveSchedule, Crash
    <3>. QED  BY <1>1, <3>1
  <2>. QED  BY <2>1, <2>2
<1>4. OneLink(linkRows') /\ LinksWereCompared'
  <2>1. \A l, k \in LinksOf(decision) : l.incident = k.incident /\ l.input = k.input => l = k
    BY DEF LinksOf
  <2>2. CASE WriteDetectionLinks
    <3>1. /\ ~ LinkConflict /\ pc' = "writeEventLinks"
          /\ linkRows' = linkRows \cup {l \in LinksOf(decision) : l.input \notin EventInputs}
          /\ decision' = decision /\ candidate' = candidate
      BY <2>2 DEF WriteDetectionLinks, Goto
    <3>2. LinksOf(decision)' = LinksOf(decision)
      BY <3>1 DEF LinksOf, Relationship
    <3>3. \A l \in LinksOf(decision), k \in linkRows :
            l.incident = k.incident /\ l.input = k.input => l = k
      BY <3>1 DEF LinkConflict
    <3>4. OneLink(linkRows')
      BY <1>1, <2>1, <3>1, <3>3
    <3>5. LinkConflict' = \E l \in LinksOf(decision)', k \in linkRows' :
                            k.incident = l.incident /\ k.input = l.input /\ k # l
      BY DEF LinkConflict
    <3>6. ~ LinkConflict'
      BY <2>1, <3>1, <3>2, <3>3, <3>5
    <3>. QED  BY <3>4, <3>6 DEF LinksWereCompared
  <2>3. CASE WriteEventLinks
    <3>1. /\ pc = "writeEventLinks" /\ pc' = "writeEpisode"
          /\ linkRows' = linkRows \cup LinksOf(decision)
      BY <2>3 DEF WriteEventLinks, Goto
    <3>2. \A l \in LinksOf(decision), k \in linkRows :
            l.incident = k.incident /\ l.input = k.input => l = k
      BY <3>1 DEF EngineInv, LinksWereCompared, LinkConflict
    <3>. QED  BY <1>1, <2>1, <3>1, <3>2 DEF LinksWereCompared
  <2>4. CASE ~ WriteDetectionLinks /\ ~ WriteEventLinks
    <3>1. /\ linkRows' = linkRows
          /\ \/ pc' # "writeEventLinks"
             \/ UNCHANGED <<pc, candidate, decision>>
      BY <2>4 DEF Next, Cycle, Persist, Arrive, FetchCandidates, EvaluateCandidate,
                  WriteIncident, WriteEpisodeState, PersistenceConflict, Goto, NextCandidate,
                  MarkEvaluated, MarkStateless, SaveSchedule, Crash, EndCycle
    <3>2. CASE UNCHANGED <<pc, candidate, decision>>
      <4>1. LinkConflict' = LinkConflict
        BY <3>1, <3>2 DEF LinkConflict, LinksOf, Relationship
      <4>. QED  BY <1>1, <3>1, <3>2, <4>1 DEF EngineInv, LinksWereCompared
    <3>. QED  BY <1>1, <3>1, <3>2 DEF LinksWereCompared
  <2>. QED  BY <2>2, <2>3, <2>4
<1>. QED  BY <1>2, <1>3, <1>4 DEF WrittenOnce

\* An episode is written only when its incident has been.
LEMMA WriteOrder ==
  ASSUME EngineInv, [Next]_vars
  PROVE  /\ IncidentIsFirst'
         /\ \A e \in episodeRows' \ episodeRows : decision.incident \subseteq incidentRows
<1>1. \/ UNCHANGED <<pc, decision>>
      \/ pc = "writeIncident" /\ UNCHANGED decision
           /\ incidentRows' = incidentRows \cup decision.incident
      \/ pc \in {"writeLinks", "writeEventLinks", "writeEpisode"} /\ UNCHANGED decision
      \/ pc' \notin {"writeLinks", "writeEventLinks", "writeEpisode", "markEvaluated"}
  BY DEF Next, Cycle, Persist, Arrive, FetchCandidates, EvaluateCandidate,
         WriteIncident, WriteDetectionLinks, WriteEventLinks, WriteEpisodeState,
         PersistenceConflict, Goto, NextCandidate, MarkEvaluated, MarkStateless,
         SaveSchedule, Crash, EndCycle
<1>2. IncidentIsFirst'
  BY <1>1, TablesGrow DEF EngineInv, IncidentIsFirst
<1>3. episodeRows' = episodeRows \/ pc = "writeEpisode"
  BY DEF Next, Cycle, Persist, Arrive, FetchCandidates, EvaluateCandidate,
         WriteIncident, WriteDetectionLinks, WriteEventLinks, WriteEpisodeState,
         PersistenceConflict, Goto, MarkEvaluated, MarkStateless, SaveSchedule, Crash
<1>. QED  BY <1>2, <1>3 DEF EngineInv, IncidentIsFirst

\* A new revision follows a visible one, because the decision that is being
\* persisted does, and what was visible when it was made still is.
LEMMA RevisionsStillFollow ==
  ASSUME EngineInv, [Next]_vars
  PROVE  RevisionsFollow' /\ Sound(decision, candidate)'
<1>1. /\ CommittedIncidents(incidentRows) \subseteq CommittedIncidents(incidentRows)'
      /\ Committed(episodeRows) \subseteq Committed(episodeRows)'
      /\ incidentRows \subseteq incidentRows' /\ episodeRows \subseteq episodeRows'
      /\ incidentRows' \subseteq incidentRows \cup decision.incident
      /\ episodeRows' \subseteq episodeRows \cup decision.episode
  BY TablesGrow, VisibleStays
<1>2. RevisionsFollow'
  <2>1. ASSUME NEW n \in incidentRows'
        PROVE  n.revision = 1 \/ \E p \in CommittedIncidents(incidentRows)' : Precedes(p, n)
    <3>1. n.revision = 1 \/ \E p \in CommittedIncidents(incidentRows) : Precedes(p, n)
      BY <1>1 DEF EngineInv, RevisionsFollow, Sound, Extends, Opens
    <3>. QED  BY <1>1, <3>1
  <2>2. ASSUME NEW e \in episodeRows'
        PROVE  /\ HasIncident(e, incidentRows')
               /\ e.revision = 1 \/ \E s \in Committed(episodeRows)' : Continues(s, e)
    <3>1. /\ e.revision = 1 \/ \E s \in Committed(episodeRows) : Continues(s, e)
          /\ e \in episodeRows => HasIncident(e, incidentRows)
          /\ HasIncident(e, incidentRows \cup decision.incident)
      <4>1. CASE e \in episodeRows
        BY <4>1 DEF EngineInv, RevisionsFollow, HasIncident
      <4>2. CASE e \notin episodeRows
        BY <1>1, <4>2 DEF EngineInv, Sound
      <4>. QED  BY <4>1, <4>2
    <3>2. e \in episodeRows \/ decision.incident \subseteq incidentRows
      BY WriteOrder
    <3>3. incidentRows \subseteq incidentRows'
      BY <1>1
    <3>4. HasIncident(e, incidentRows')
      BY <3>1, <3>2, <3>3, Zenon DEF HasIncident
    <3>. QED  BY <1>1, <3>1, <3>4
  <2>. QED  BY <2>1, <2>2 DEF RevisionsFollow
<1>3. ASSUME NEW d, NEW c, Sound(d, c), decision' = d, candidate' = c
      PROVE  Sound(decision, candidate)'
  <2>1. \A n \in d.incident :
          Opens(n) \/ \E p \in CommittedIncidents(incidentRows)' : Extends(p, n)
    BY <1>1, <1>3 DEF Sound
  <2>2. \A e \in d.episode :
          \/ e \in episodeRows'
          \/ /\ e.token = c /\ \A f \in d.episode : f = e
             /\ HasIncident(e, incidentRows' \cup d.incident)
             /\ e.revision = 1 \/ \E s \in Committed(episodeRows)' : Continues(s, e)
    <3>1. SUFFICES ASSUME NEW e \in d.episode, e \notin episodeRows
                   PROVE  /\ e.token = c /\ \A f \in d.episode : f = e
                          /\ HasIncident(e, incidentRows' \cup d.incident)
                          /\ e.revision = 1 \/ \E s \in Committed(episodeRows)' : Continues(s, e)
      BY <1>1
    <3>2. /\ e.token = c /\ \A f \in d.episode : f = e
          /\ HasIncident(e, incidentRows \cup d.incident)
          /\ e.revision = 1 \/ \E s \in Committed(episodeRows) : Continues(s, e)
      BY <1>3, <3>1 DEF Sound
    <3>3. HasIncident(e, incidentRows' \cup d.incident)
      BY <1>1, <3>2, Zenon DEF HasIncident
    <3>. QED  BY <1>1, <3>2, <3>3
  <2>3. Decision' = Decision
    BY DEF Decision, IncidentRow, EpisodeRow
  <2>. QED  BY <1>3, <2>1, <2>2, <2>3 DEF Sound
<1>4. Sound(Stateless, 0)
  BY DEF Sound, Stateless, Decision
<1>5. ASSUME UNCHANGED <<candidate, decision>> PROVE Sound(decision, candidate)'
  <2>1. PICK d, c : d = decision /\ c = candidate
    OBVIOUS
  <2>2. Sound(d, c)
    BY <2>1 DEF EngineInv
  <2>. QED  BY <1>3, <1>5, <2>1, <2>2
<1>6. \/ UNCHANGED <<candidate, decision>>
      \/ candidate' = 0 /\ decision' = Stateless
      \/ EvaluateCandidate
  BY DEF Next, Cycle, Persist, Arrive, FetchCandidates, WriteDetectionLinks, WriteEventLinks,
         WriteIncident, WriteEpisodeState, PersistenceConflict, Goto, NextCandidate,
         MarkEvaluated, MarkStateless, SaveSchedule, Crash, EndCycle
<1>7. ASSUME EvaluateCandidate PROVE Sound(decision, candidate)'
  <2>1. UNCHANGED <<candidate, decision>> \/ \E c \in todo, d \in Decision :
           Sound(d, c) /\ candidate' = c /\ decision' = d
    BY <1>7, EvaluateCandidateChoice
  <2>2. CASE UNCHANGED <<candidate, decision>>
    BY <1>5, <2>2
  <2>. QED  BY <1>3, <2>1, <2>2
<1>. QED  BY <1>2, <1>3, <1>4, <1>6, <1>7, <1>5

\* Every step of the engine keeps the inductive invariant.
LEMMA InvariantIsKept == EngineInv /\ [Next]_vars => EngineInv'
  BY TypesAreKept, RowsAreWrittenOnce, WriteOrder, RevisionsStillFollow DEF EngineInv

\* Nothing is written yet.
LEMMA InitialInvariant == Init => EngineInv
<1>. SUFFICES ASSUME Init PROVE EngineInv
  OBVIOUS
<1>. USE DEF Init, IdleLocals
<1>1. TypeOK
  BY EngineAssumption DEF TypeOK, Steps
<1>2. PageIsSplit
  BY DEF PageIsSplit, Persisting
<1>3. TablesAreFinite
  BY FS_EmptySet DEF TablesAreFinite
<1>4. WrittenOnce /\ LinksWereCompared /\ IncidentIsFirst /\ RevisionsFollow
  BY DEF WrittenOnce, LinksWereCompared, IncidentIsFirst, RevisionsFollow
<1>5. Sound(decision, candidate)
  BY DEF Sound, Stateless, Decision
<1>. QED  BY <1>1, <1>2, <1>3, <1>4, <1>5 DEF EngineInv

\* The inductive invariant holds in every state.
THEOREM EngineInvariant == Spec => []EngineInv
  BY InitialInvariant, InvariantIsKept, PTL DEF Spec

\* Every table and local keeps its type, and a token is the candidate's own.
THEOREM TypeCorrect == Spec => []TypeOK
<1>1. EngineInv => TypeOK
  BY DEF EngineInv
<1>. QED  BY <1>1, EngineInvariant, PTL

\* Whatever inputs overtake a write that a stop cut short, a revision of an
\* incident or of an episode, and a link, is written once.
THEOREM RevisionsAreWrittenOnce == Spec => []WrittenOnce
<1>1. EngineInv => WrittenOnce
  BY DEF EngineInv
<1>. QED  BY <1>1, EngineInvariant, PTL

(***************************************************************************)
(* What is visible                                                         *)
(***************************************************************************)
\* Some row of the greatest revision is visible of what has a row at all.
LEMMA LatestExists ==
  ASSUME NEW W, IsFiniteSet(W), \A t \in W : t.revision \in Nat, NEW s \in W
  PROVE  \E t \in Latest(W) : t.id = s.id /\ s.revision <= t.revision
<1>. DEFINE F == {t \in W : t.id = s.id}
            R == {p \in F \X F : p[2].revision <= p[1].revision}
<1>1. IsFiniteSet(F) /\ s \in F /\ \A t \in F : t.revision \in Nat /\ t.id = s.id
  BY FS_Subset
<1>2. \A t, u \in F : <<t, u>> \in R <=> u.revision <= t.revision
  OBVIOUS
<1>. HIDE DEF F, R
<1>3. \A t, u \in F : t # u => <<t, u>> \in R \/ <<u, t>> \in R
  BY <1>1, <1>2
<1>4. \A t, u, v \in F : <<t, u>> \in R /\ <<u, v>> \in R => <<t, v>> \in R
  BY <1>1, <1>2
<1>5. PICK t \in F : \A u \in F \ {t} : <<t, u>> \in R
  BY <1>1, <1>3, <1>4, FirstOfFinite
<1>6. ASSUME NEW u \in F PROVE u.revision <= t.revision
  <2>1. CASE u = t
    BY <1>1, <2>1
  <2>2. CASE u # t
    BY <1>2, <1>5, <2>2
  <2>. QED  BY <2>1, <2>2
<1>. QED  BY <1>1, <1>6 DEF Latest, F

\* When rows V are visible and then rows W are, the row s that was served is
\* served still, or a row that can only come after s.
LEMMA OneRevisionAtATime ==
  ASSUME NEW V, NEW W, V \subseteq W, IsFiniteSet(W), \A t \in W : t.revision \in Nat,
         \A t, u \in W : t.id = u.id /\ t.revision = u.revision => t = u,
         NEW s \in Latest(V), s.revision # 0
  PROVE  /\ \E t \in Latest(W) : t.id = s.id
         /\ \A t \in Latest(W) : t.id = s.id =>
              \/ t = s
              \/ /\ t.revision # 1
                 /\ \A p \in V : p.id = t.id /\ t.revision = p.revision + 1 => p = s
<1>1. s \in V /\ \A p \in V : p.id = s.id => p.revision <= s.revision
  BY DEF Latest
<1>2. \E t \in Latest(W) : t.id = s.id
  BY <1>1, LatestExists
<1>3. ASSUME NEW t \in Latest(W), t.id = s.id, t # s
      PROVE  /\ t.revision # 1
             /\ \A p \in V : p.id = t.id /\ t.revision = p.revision + 1 => p = s
  <2>1. t \in W /\ s \in W /\ s.revision <= t.revision
    BY <1>1, <1>3 DEF Latest
  <2>2. t.revision \in Nat /\ s.revision \in Nat /\ t.revision # s.revision
    BY <1>3, <2>1
  <2>3. ASSUME NEW p \in V, p.id = t.id, t.revision = p.revision + 1 PROVE p = s
    <3>1. p.revision <= s.revision /\ p.revision \in Nat /\ p \in W
      BY <1>1, <1>3, <2>3
    <3>2. p.revision = s.revision
      BY <2>1, <2>2, <2>3, <3>1
    <3>. QED  BY <1>3, <2>1, <2>3, <3>1, <3>2
  <2>. QED  BY <2>1, <2>2, <2>3
<1>. QED  BY <1>2, <1>3

\* What the last lemma asks for, of incidents and of episodes.
Servable ==
  /\ IsFiniteSet(CommittedIncidents(incidentRows))
  /\ CommittedIncidents(incidentRows) \subseteq incidentRows
  /\ \A n \in incidentRows : n.revision \in Nat /\ n.revision # 0
  /\ \A n, m \in incidentRows : n.id = m.id /\ n.revision = m.revision => n = m
  /\ IsFiniteSet(Committed(episodeRows))
  /\ Committed(episodeRows) \subseteq episodeRows
  /\ \A e \in episodeRows : e.revision \in Nat /\ e.revision # 0
  /\ \A e, f \in episodeRows : e.id = f.id /\ e.revision = f.revision => e = f

\* The invariant provides it.
LEMMA RowsAreServed == EngineInv => Servable
<1>. SUFFICES ASSUME EngineInv PROVE Servable
  OBVIOUS
<1>1. /\ CommittedIncidents(incidentRows) \subseteq incidentRows
      /\ Committed(episodeRows) \subseteq episodeRows
  BY DEF CommittedIncidents, Committed
<1>2. IsFiniteSet(CommittedIncidents(incidentRows)) /\ IsFiniteSet(Committed(episodeRows))
  BY <1>1, FS_Subset DEF EngineInv, TablesAreFinite
<1>3. /\ \A n \in incidentRows : n.revision \in Nat
      /\ \A e \in episodeRows : e.revision \in Nat
  BY DEF EngineInv, TypeOK, IncidentRow, EpisodeRow
<1>4. \A n \in incidentRows : n.revision # 0
  BY <1>1, <1>3 DEF EngineInv, RevisionsFollow, Precedes
<1>5. \A e \in episodeRows : e.revision # 0
  BY <1>1, <1>3 DEF EngineInv, RevisionsFollow, Continues
<1>6. /\ \A n, m \in incidentRows : n.id = m.id /\ n.revision = m.revision => n = m
      /\ \A e, f \in episodeRows : e.id = f.id /\ e.revision = f.revision => e = f
  BY DEF EngineInv, WrittenOnce
<1>. QED  BY <1>1, <1>2, <1>3, <1>4, <1>5, <1>6 DEF Servable

\* The interval and the incident of an episode are immutable: an episode is served
\* by one revision after the other, and each continues the one before.
THEOREM IntervalsAreFixed == Spec => EpisodeIntervalFixed
<1>1. ASSUME EngineInv, Servable, Servable', [Next]_vars, NEW s \in Owning(CurrentEpisodes)
      PROVE  \E t \in CurrentEpisodes' :
               t.id = s.id /\ t.incident = s.incident /\ t.start = s.start
  <2>. DEFINE V == Committed(episodeRows)
              W == Committed(episodeRows)'
  <2>1. V \subseteq W
    BY <1>1, TablesGrow, VisibleStays
  <2>2. s \in Latest(V) /\ CurrentEpisodes' = Latest(W) /\ s.incident # 0
    BY <1>1 DEF Owning, CurrentEpisodes, Latest
  <2>3. s.revision # 0
    BY <1>1, <2>2 DEF Servable, Latest
  <2>4. /\ IsFiniteSet(W) /\ W \subseteq episodeRows'
        /\ \A t \in W : t.revision \in Nat
        /\ \A t, u \in W : t.id = u.id /\ t.revision = u.revision => t = u
    BY <1>1 DEF Servable
  <2>5. \A t \in episodeRows' : t.revision = 1 \/ \E p \in V : Continues(p, t)
    BY <1>1, TablesGrow DEF EngineInv, RevisionsFollow, Sound
  <2>. HIDE DEF V, W
  <2>6. PICK t \in Latest(W) : t.id = s.id
    BY <2>1, <2>2, <2>3, <2>4, OneRevisionAtATime
  <2>7. \/ t = s
        \/ /\ t.revision # 1
           /\ \A p \in V : p.id = t.id /\ t.revision = p.revision + 1 => p = s
    BY <2>1, <2>2, <2>3, <2>4, <2>6, OneRevisionAtATime
  <2>8. t = s \/ Continues(s, t)
    <3>1. t \in episodeRows'
      BY <2>4 DEF Latest
    <3>. QED  BY <2>5, <2>7, <3>1 DEF Continues
  <2>. QED  BY <2>2, <2>6, <2>8 DEF Continues
<1>2. EngineInv /\ Servable /\ Servable' /\ [Next]_vars =>
        [\A s \in Owning(CurrentEpisodes) : \E t \in CurrentEpisodes' :
           t.id = s.id /\ t.incident = s.incident /\ t.start = s.start]_vars
  BY <1>1
<1>. QED  BY <1>2, RowsAreServed, EngineInvariant, PTL DEF Spec, EpisodeIntervalFixed

(***************************************************************************)
(* Incidents only grow                                                     *)
(***************************************************************************)
\* A revision after the first keeps the members of the visible one it follows.
KeepsMembers(n) ==
  n.revision = 1 \/ \E p \in CommittedIncidents(incidentRows) :
                      Precedes(p, n) /\ p.members \subseteq n.members
MembersFollow == \A n \in incidentRows \cup decision.incident : KeepsMembers(n)

\* A decision keeps the confirmed members of the incident; if these are the
\* members of the visible revision, it keeps them.
LEMMA DecisionsKeepMembers ==
  ASSUME EngineInv, SnapshotMatchesLinks, NEW c \in Inputs, NEW context \in SUBSET Inputs
  PROVE  \A n \in Decide(c, context).incident : KeepsMembers(n)
<1>. DEFINE S    == LoadedEpisodes(c)
            rows == {r \in CurrentIncidents : \E s \in Owning(S) : s.incident = r.id}
            d    == Decide(c, context)
<1>1. Follows(d, c, S, rows, Linked, incidentRows)
  BY DecisionFollowsLoaded
<1>2. rows \in SUBSET CommittedIncidents(incidentRows) /\ rows \in SUBSET CurrentIncidents
  BY DEF CurrentIncidents, Latest
<1>3. \A p \in rows : p.members = Linked[p.id]
  BY <1>2 DEF SnapshotMatchesLinks
<1>. HIDE DEF S, rows, d
<1>4. \A n \in d.incident : KeepsMembers(n)
  BY <1>1, <1>2, <1>3 DEF Follows, IncidentFollows, KeepsMembers, Extends, Opens
<1>. QED  BY <1>4 DEF d

\* As long as the members of visible incidents are the confirmed ones, a visible
\* incident never disappears, goes back to an earlier revision, loses evidence or
\* changes the inputs that opened it.
THEOREM EvidenceOnlyGrows == Spec /\ []SnapshotMatchesLinks => IncidentsOnlyGrow
<1>1. Init => MembersFollow
  BY DEF Init, IdleLocals, MembersFollow, Stateless
<1>2. ASSUME EngineInv, SnapshotMatchesLinks, MembersFollow, [Next]_vars
      PROVE  MembersFollow'
  <2>1. /\ CommittedIncidents(incidentRows) \subseteq CommittedIncidents(incidentRows)'
        /\ incidentRows' \subseteq incidentRows \cup decision.incident
    BY <1>2, TablesGrow, VisibleStays
  <2>2. ASSUME NEW n, KeepsMembers(n)
        PROVE  n.revision = 1 \/ \E p \in CommittedIncidents(incidentRows)' :
                                   Precedes(p, n) /\ p.members \subseteq n.members
    BY <2>1, <2>2 DEF KeepsMembers
  <2>3. \A n \in decision'.incident : KeepsMembers(n)
    <3>1. \/ decision' = decision
          \/ decision' = Stateless
          \/ EvaluateCandidate
      BY <1>2 DEF Next, Cycle, Persist, Arrive, FetchCandidates, WriteDetectionLinks,
             WriteEventLinks, WriteIncident, WriteEpisodeState, PersistenceConflict,
             NextCandidate, MarkEvaluated, MarkStateless, SaveSchedule, Crash, EndCycle
    <3>2. CASE EvaluateCandidate
      <4>1. decision' = decision \/ \E c \in todo, context \in SUBSET sources :
                                      decision' = Decide(c, context)
        BY <1>2, <3>2, EvaluateCandidateChoice
      <4>2. todo \subseteq Inputs /\ sources \subseteq Inputs
        BY <1>2 DEF EngineInv, TypeOK
      <4>. QED  BY <1>2, <4>1, <4>2, DecisionsKeepMembers DEF MembersFollow
    <3>. QED  BY <1>2, <3>1, <3>2 DEF MembersFollow, Stateless
  <2>. QED  BY <1>2, <2>1, <2>2, <2>3 DEF MembersFollow, KeepsMembers
<1>3. ASSUME MembersFollow, Servable, Servable', [Next]_vars, NEW s \in CurrentIncidents
      PROVE  \E t \in CurrentIncidents' :
               /\ t.id = s.id /\ t.revision >= s.revision
               /\ s.members \subseteq t.members /\ t.qualifying = s.qualifying
  <2>. DEFINE V == CommittedIncidents(incidentRows)
              W == CommittedIncidents(incidentRows)'
  <2>1. V \subseteq W
    BY <1>3, TablesGrow, VisibleStays
  <2>2. s \in Latest(V) /\ CurrentIncidents' = Latest(W)
    BY <1>3 DEF CurrentIncidents, Latest
  <2>3. s.revision # 0 /\ s.revision \in Nat
    BY <1>3, <2>2 DEF Servable, Latest
  <2>4. /\ IsFiniteSet(W) /\ W \subseteq incidentRows'
        /\ \A t \in W : t.revision \in Nat
        /\ \A t, u \in W : t.id = u.id /\ t.revision = u.revision => t = u
    BY <1>3 DEF Servable
  <2>5. \A t \in incidentRows' : t.revision = 1 \/ \E p \in V :
                                   Precedes(p, t) /\ p.members \subseteq t.members
    BY <1>3, TablesGrow DEF MembersFollow, KeepsMembers
  <2>. HIDE DEF V, W
  <2>6. PICK t \in Latest(W) : t.id = s.id
    BY <2>1, <2>2, <2>3, <2>4, OneRevisionAtATime
  <2>7. \/ t = s
        \/ /\ t.revision # 1
           /\ \A p \in V : p.id = t.id /\ t.revision = p.revision + 1 => p = s
    BY <2>1, <2>2, <2>3, <2>4, <2>6, OneRevisionAtATime
  <2>8. t = s \/ (Precedes(s, t) /\ s.members \subseteq t.members)
    <3>1. t \in incidentRows'
      BY <2>4 DEF Latest
    <3>. QED  BY <2>5, <2>7, <3>1 DEF Precedes
  <2>. QED  BY <2>2, <2>3, <2>6, <2>8 DEF Precedes
<1>4. MembersFollow /\ Servable /\ Servable' /\ [Next]_vars =>
        [\A r \in CurrentIncidents : \E q \in CurrentIncidents' :
           /\ q.id = r.id /\ q.revision >= r.revision
           /\ r.members \subseteq q.members /\ q.qualifying = r.qualifying]_vars
  BY <1>3
<1>. QED  BY <1>1, <1>2, <1>4, RowsAreServed, EngineInvariant, PTL DEF Spec, IncidentsOnlyGrow

(***************************************************************************)
(* What opens an incident                                                  *)
(***************************************************************************)
\* Inputs in the order the stages ask for fill the stages.
LEMMA OrderFulfils ==
  ASSUME condition \in Conditions, condition.kind # "join", NEW M \in SUBSET Inputs,
         Cardinality(M) = Taken(Len(condition.stages)),
         InOrder(M, Len(condition.stages))
  PROVE  Fulfils(M)
<1>. DEFINE last == Len(condition.stages)
<1>1. PICK f \in [M -> Stages] :
        /\ \A k \in Stages : /\ {i \in M : f[i] = k} = StageOf(M, k)
                             /\ Cardinality(StageOf(M, k)) = condition.stages[k].count
        /\ \A i, j \in M : f[i] < f[j] => i < j
  BY StagesPartition
<1>2. last \in Nat /\ Stages = 1 .. last /\ \A k \in Stages : condition.stages[k].count \in Nat \ {0}
  BY TakenCounts
<1>3. \A k \in Stages : StageOf(M, k) \in SUBSET M /\ StageOf(M, k) # {}
  BY <1>1, <1>2, FS_EmptySet DEF StageOf
<1>4. /\ \A k \in Stages : StageOf(M, k) \subseteq condition.stages[k].select
      /\ \A k \in 1 .. last - 1 : Occurred[Max(StageOf(M, k))] < Occurred[Min(StageOf(M, k + 1))]
  BY <1>2 DEF InOrder, Before
<1>5. ASSUME NEW i \in M, NEW j \in M, f[i] < f[j] PROVE Occurred[i] < Occurred[j]
  <2>. DEFINE A == StageOf(M, f[i])
              B == StageOf(M, f[i] + 1)
  <2>1. f[i] \in 1 .. last - 1 /\ f[i] \in Stages /\ f[i] + 1 \in Stages /\ f[j] \in Stages
    BY <1>2, <1>5
  <2>2. A \in SUBSET M /\ B \in SUBSET M /\ B # {} /\ i \in A
    BY <1>1, <1>3, <2>1
  <2>3. \A x \in B : f[x] = f[i] + 1
    BY <1>1, <2>1
  <2>4. Occurred[Max(A)] < Occurred[Min(B)]
    BY <1>4, <2>1
  <2>. HIDE DEF A, B
  <2>5. A \in SUBSET Int /\ IsFiniteSet(A) /\ A # {} /\ B \in SUBSET Int /\ IsFiniteSet(B)
    <3>1. A \in SUBSET Inputs /\ B \in SUBSET Inputs /\ A # {}
      BY <2>2
    <3>2. IsFiniteSet(A) /\ IsFiniteSet(B)
      BY <3>1, SomeInputs
    <3>3. Inputs \in SUBSET Int
      BY InputsAssumption
    <3>. QED  BY <3>1, <3>2, <3>3
  <2>6. Max(A) \in A /\ i <= Max(A)
    BY <2>2, <2>5, MaxOfFinite
  <2>7. Min(B) \in B /\ (j \in B => Min(B) <= j)
    BY <2>2, <2>5, MinOfFinite
  <2>8. Min(B) <= j
    <3>1. CASE f[j] = f[i] + 1
      <4>1. j \in B
        BY <1>1, <2>1, <3>1 DEF B
      <4>. QED  BY <2>7, <4>1
    <3>2. CASE f[j] # f[i] + 1
      <4>1. f[Min(B)] < f[j] /\ Min(B) \in M
        BY <1>2, <1>5, <2>1, <2>2, <2>3, <2>7, <3>2
      <4>2. Min(B) < j /\ Min(B) \in Int /\ j \in Int
        BY <1>1, <2>2, <4>1, TimesAreNatural
      <4>. QED  BY <4>2
    <3>. QED  BY <3>1, <3>2
  <2>9. \A x, y \in Inputs : x <= y => Occurred[x] <= Occurred[y]
    BY InputsAssumption
  <2>10. /\ i \in Inputs /\ j \in Inputs /\ Max(A) \in Inputs /\ Min(B) \in Inputs
         /\ Occurred[i] <= Occurred[Max(A)] /\ Occurred[Min(B)] <= Occurred[j]
    BY <2>2, <2>6, <2>7, <2>8, <2>9
  <2>11. \A x \in Inputs : Occurred[x] \in Nat
    BY InputsAssumption
  <2>. QED  BY <2>4, <2>10, <2>11
<1>. QED  BY <1>1, <1>4, <1>5 DEF Fulfils

\* Inputs that satisfy a join, as many as its stages, fill one stage each.
LEMMA JoinFulfils ==
  ASSUME condition \in Conditions, condition.kind = "join", NEW M \in SUBSET Inputs,
         Cardinality(M) = Taken(Len(condition.stages)), Joined(M)
  PROVE  Fulfils(M)
<1>. DEFINE last == Len(condition.stages)
<1>1. PICK g \in [Stages -> M] :
        /\ \A k \in Stages : g[k] \in condition.stages[k].select
        /\ \A k, l \in Stages : k # l => g[k] # g[l]
  BY DEF Joined
<1>2. M \in Joinable
  BY DEF Joined
<1>3. last \in Nat /\ Stages = 1 .. last
  BY TakenCounts
<1>4. \A k \in Stages : condition.stages[k].count = 1
  BY RuleAssumption DEF Stages
<1>5. IsFiniteSet(M)
  BY SomeInputs
<1>6. Cardinality(Stages) = Cardinality(M)
  <2>1. Cardinality(1 .. last) = last
    BY <1>3, FS_Interval
  <2>. QED  BY <1>3, <2>1, JoinTakesOneEach
<1>7. g \in Surjection(Stages, M)
  <2>1. g \in Injection(Stages, M)
    BY <1>1 DEF Injection, IsInjective
  <2>. QED  BY <1>5, <1>6, <2>1, FS_Injection
<1>8. \A i \in M : \E k \in Stages : g[k] = i
  BY <1>7 DEF Surjection
<1>. DEFINE f == [i \in M |-> CHOOSE k \in Stages : g[k] = i]
<1>9. f \in [M -> Stages] /\ \A i \in M : g[f[i]] = i
  BY <1>8
<1>. HIDE DEF f
<1>10. \A k \in Stages : {i \in M : f[i] = k} = {g[k]}
  BY <1>1, <1>9
<1>11. \A x : Cardinality({x}) = 1
  BY FS_Singleton
<1>12. ASSUME NEW k \in Stages
       PROVE  /\ Cardinality({i \in M : f[i] = k}) = condition.stages[k].count
              /\ {i \in M : f[i] = k} \subseteq condition.stages[k].select
  <2>1. {i \in M : f[i] = k} = {g[k]} /\ g[k] \in condition.stages[k].select
    BY <1>1, <1>10
  <2>2. Cardinality({i \in M : f[i] = k}) = 1
    BY <1>11, <2>1
  <2>. QED  BY <1>4, <2>1, <2>2
<1>. QED  BY <1>2, <1>9, <1>12 DEF Fulfils

\* The inputs an evaluation matches satisfy the rule.
LEMMA MatchQualifies ==
  ASSUME condition \in Conditions, NEW context \in SUBSET Inputs, NEW M \in Satisfying(context)
  PROVE  M \in Qualifying(Inputs)
<1>1. /\ M \in SUBSET Inputs /\ Cardinality(M) = Taken(Len(condition.stages)) /\ Spans(M)
      /\ IF condition.kind = "join" THEN Joined(M) ELSE InOrder(M, Len(condition.stages))
  BY DEF Satisfying, kSubset
<1>2. Fulfils(M)
  BY <1>1, OrderFulfils, JoinFulfils
<1>3. M # {}
  <2>1. 1 \in Stages
    <3>. DEFINE last == Len(condition.stages)
    <3>1. last \in Nat /\ Stages = 1 .. last
      BY TakenCounts
    <3>2. last = 1 \/ last > 1
      BY RuleAssumption DEF Condition
    <3>. HIDE DEF last
    <3>. QED  BY <3>1, <3>2
  <2>2. PICK f \in [M -> Stages] :
          Cardinality({i \in M : f[i] = 1}) = condition.stages[1].count
    BY <1>2, <2>1 DEF Fulfils
  <2>3. condition.stages[1].count # 0
    BY <2>1, TakenCounts
  <2>4. {i \in M : f[i] = 1} # {}
    BY <2>2, <2>3, FS_EmptySet
  <2>. QED  BY <2>4
<1>4. ASSUME NEW i \in M, NEW j \in M PROVE Occurred[j] - Occurred[i] <= Window
  <2>1. M \in SUBSET Int /\ IsFiniteSet(M) /\ i \in Inputs /\ j \in Inputs
    <3>1. IsFiniteSet(M) /\ i \in Inputs /\ j \in Inputs
      BY <1>1, SomeInputs
    <3>2. Inputs \in SUBSET Int
      BY InputsAssumption
    <3>. QED  BY <1>1, <3>1, <3>2
  <2>2. Min(M) \in M /\ Max(M) \in M /\ Min(M) <= i /\ j <= Max(M)
    BY <2>1, MinOfFinite, MaxOfFinite
  <2>3. \A x, y \in Inputs : x <= y => Occurred[x] <= Occurred[y]
    BY InputsAssumption
  <2>4. Occurred[Min(M)] <= Occurred[i] /\ Occurred[j] <= Occurred[Max(M)]
    BY <1>1, <2>1, <2>2, <2>3
  <2>5. \A x \in Inputs : Occurred[x] \in Int
    BY TimesAreNatural
  <2>6. Occurred[Max(M)] - Occurred[Min(M)] <= Window
    BY <1>1 DEF Spans, Start
  <2>. QED  BY <1>1, <2>1, <2>2, <2>4, <2>5, <2>6, RuleAssumption
<1>5. M \in (SUBSET Inputs) \ {{}}
  BY <1>1, <1>3
<1>6. \A i, j \in M : Occurred[j] - Occurred[i] <= Window
  BY <1>4
<1>. QED  BY <1>2, <1>5, <1>6 DEF Qualifying

\* An incident is written with the matched inputs or with those of a loaded row.
LEMMA EvaluationOpens ==
  ASSUME NEW c, NEW context, NEW S, NEW rows, NEW linked, NEW raw,
         Loadable(c, context, S, rows, linked, raw),
         NEW n \in Evaluate(c, context, S, rows, linked, raw).incident
  PROVE  n.qualifying \in Satisfying(context) \/ \E r \in rows : n.qualifying = r.qualifying
<1>. DEFINE selected == Selected(c, context, S, rows)
            o        == The(selected)
            d        == Evaluate(c, context, S, rows, linked, raw)
<1>1. Stateless.incident = {} /\ Failed.incident = {} /\ PartialDecision(c, context, S).incident = {}
  BY DEF Stateless, Failed, PartialDecision
<1>2. selected # {} /\ d = MatchDecision(c, context, S, rows, linked, raw, o)
  BY <1>1 DEF Evaluate
<1>3. o \in selected
  BY <1>2 DEF The
<1>4. o.match.members \in Satisfying(context)
  <2>1. PICK p \in Matches(c, context) :
          o = [match |-> p, owner |-> Nearest(c, Attachable(c, S, rows, p))]
    BY <1>3 DEF Selected, Options
  <2>2. PICK M \in Satisfying(context) : p = [members |-> M, related |-> RelatedTo(M, context)]
    BY DEF Matches
  <2>. QED  BY <2>1, <2>2
<1>. HIDE DEF o, selected, d
<1>. DEFINE state      == IF o.owner # {} THEN o.owner
                          ELSE Nearest(c, {s \in Partial(S) : Covers(s, c)})
            held       == Owning(state)
            anchor     == IF held # {} THEN The(held).incident ELSE Max(o.match.members)
            old        == {r \in rows : r.id = anchor}
            known      == held # {} \/ old # {}
            confirmed  == IF known THEN linked[anchor] ELSE {}
            qualifying == IF old # {} THEN UNION {r.qualifying : r \in old}
                          ELSE o.match.members
            start      == IF held # {} THEN The(held).start ELSE Start(qualifying)
            terms      == TermsOf(old, start)
            owned      == context \cap UNION {s.owned : s \in state}
            approved   == IF condition.derived THEN Evidence(o.match) ELSE context
            members    == MembersOf(start, terms, confirmed, owned, approved)
            incident   == NextIncident(anchor, old, c, members, qualifying,
                                       TermsOf(old, Start(qualifying)))
            canonical  == IF held # {} THEN UNION {s.qualifying : s \in held} ELSE qualifying
            unchanged  == \E r \in old : r.members = members /\ r.token \in Inputs
            clash      == {r \in raw : r.id = anchor}
            stored     == old = {} /\ clash # {}
            episode    == NextEpisode(state, S, c, o.match.members, anchor, members,
                                      canonical, start, incident.deadline)
            result     == [failed |-> FALSE, anchor |-> anchor, qualifying |-> qualifying,
                           incident |-> IF unchanged \/ stored THEN {} ELSE {incident},
                           links |-> members \ linked[anchor], episode |-> {episode}]
<1>5. d.incident \subseteq {incident}
  <2>1. \/ MatchDecision(c, context, S, rows, linked, raw, o) = Stateless
        \/ MatchDecision(c, context, S, rows, linked, raw, o) = Failed
        \/ MatchDecision(c, context, S, rows, linked, raw, o) = result
    BY ZenonT(40) DEF MatchDecision
  <2>2. result.incident \subseteq {incident}
    <3>. HIDE DEF incident, unchanged, stored, anchor, qualifying, members, episode
    <3>. QED  OBVIOUS
  <2>. HIDE DEF result, incident
  <2>. QED  BY <1>1, <1>2, <2>1, <2>2
<1>6. n = incident
  BY ZenonT(40), <1>5 DEF d
<1>7. incident.qualifying = qualifying
  BY DEF NextIncident
<1>8. ASSUME old # {} PROVE \E r \in rows : qualifying = r.qualifying
  <2>1. PICK r \in old : TRUE
    BY <1>8
  <2>2. \A q \in old : q = r
    BY <2>1 DEF Loadable
  <2>3. UNION {q.qualifying : q \in old} = r.qualifying
    BY <2>1, <2>2
  <2>. QED  BY <1>8, <2>1, <2>3
<1>9. old = {} => qualifying = o.match.members
  OBVIOUS
<1>. HIDE DEF old, qualifying, incident
<1>. QED  BY <1>4, <1>6, <1>7, <1>8, <1>9

\* An incident row, written or decided, was opened by inputs that satisfy the rule.
OpenedByRule == \A n \in incidentRows \cup decision.incident : n.qualifying \in Qualifying(Inputs)

\* What the engine decides is opened by the rule, or takes over what opened a row.
LEMMA OpeningIsKept ==
  ASSUME EngineInv, OpenedByRule, [Next]_vars
  PROVE  OpenedByRule'
<1>1. condition' = condition /\ incidentRows' \subseteq incidentRows \cup decision.incident
  BY TablesGrow
<1>2. \A M : M \in Qualifying(Inputs) => (M \in Qualifying(Inputs))'
  BY <1>1 DEF Qualifying, Fulfils, Stages
<1>3. \/ UNCHANGED <<candidate, decision>>
      \/ candidate' = 0 /\ decision' = Stateless
      \/ EvaluateCandidate
  BY DEF Next, Cycle, Persist, Arrive, FetchCandidates, WriteDetectionLinks, WriteEventLinks,
         WriteIncident, WriteEpisodeState, PersistenceConflict, Goto, NextCandidate,
         MarkEvaluated, MarkStateless, SaveSchedule, Crash, EndCycle
<1>4. ASSUME EvaluateCandidate, NEW n \in decision'.incident
      PROVE  n.qualifying \in Qualifying(Inputs)
  <2>1. PICK c \in todo, context \in SUBSET sources, d \in Decision :
          d = Decide(c, context) /\ (decision' = decision \/ decision' = d)
    BY <1>4, EvaluateCandidateChoice
  <2>2. CASE n \in decision.incident
    BY <2>2 DEF OpenedByRule
  <2>3. CASE n \in d.incident
    <3>. DEFINE S    == LoadedEpisodes(c)
                rows == {r \in CurrentIncidents : \E s \in Owning(S) : s.incident = r.id}
    <3>1. c \in Inputs /\ context \in SUBSET Inputs /\ condition \in Conditions
      BY DEF EngineInv, TypeOK
    <3>2. Loadable(c, context, S, rows, Linked, incidentRows)
      BY <3>1, EvaluationLoads
    <3>3. n \in Evaluate(c, context, S, rows, Linked, incidentRows).incident
      BY <2>1, <2>3 DEF Decide, Failed, Stateless
    <3>4. \A r \in rows : r \in incidentRows
      BY DEF CurrentIncidents, Latest, CommittedIncidents
    <3>. HIDE DEF S, rows
    <3>5. n.qualifying \in Satisfying(context) \/ \E r \in rows : n.qualifying = r.qualifying
      BY <3>2, <3>3, EvaluationOpens
    <3>. QED  BY <3>1, <3>4, <3>5, MatchQualifies DEF OpenedByRule
  <2>. QED  BY <1>4, <2>1, <2>2, <2>3
<1>5. \A n \in decision'.incident : n.qualifying \in Qualifying(Inputs)
  BY <1>3, <1>4 DEF OpenedByRule, Stateless
<1>. QED  BY <1>1, <1>2, <1>5 DEF OpenedByRule

\* However its inputs arrived, and whatever partial episode they passed through,
\* an incident is opened by inputs that satisfy the rule, and by an input of each
\* stage in strict order of occurrence if the rule is a sequence: whatever stops
\* and arrives, a revision takes over what opened the incident.
THEOREM OpenedAsTheRuleAsks == Spec => []QualifyingSatisfiesRule
<1>1. Init => OpenedByRule
  BY DEF Init, IdleLocals, OpenedByRule, Stateless
<1>2. EngineInv /\ OpenedByRule /\ [Next]_vars => OpenedByRule'
  BY OpeningIsKept
<1>3. OpenedByRule => QualifyingSatisfiesRule
  BY DEF OpenedByRule, QualifyingSatisfiesRule, CurrentIncidents, Latest, CommittedIncidents
<1>. QED  BY <1>1, <1>2, <1>3, EngineInvariant, PTL DEF Spec
=============================================================================
