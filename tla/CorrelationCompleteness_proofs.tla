-------------------- MODULE CorrelationCompleteness_proofs --------------------
(***************************************************************************)
(* What the engine does not miss, as long as no stop and no conflict       *)
(* leaves rows behind: the evaluated inputs that satisfy the rule, and     *)
(* evidence that is in time for a visible incident. Inputs arrive at any   *)
(* time, in any order, and are evaluated over cached contexts. And which   *)
(* conflicts do leave rows behind: those over the name of an episode.      *)
(***************************************************************************)
EXTENDS CorrelationEvidence_proofs

(***************************************************************************)
(* The inductive invariant                                                 *)
(***************************************************************************)
USE DEF given, tables, page, current, vars

\* Inputs an evaluation has not left for a later cycle.
Handled == ledger \cup stateless \cup (IF pc \in Persisting THEN {candidate} ELSE {})

\* An input is visible evidence, or will be when the decision at hand is shown.
Evident(i) == \E x \in Inputs : i \in Linked[x]
Shows(d, i) == \E e \in d.episode : e.incident # 0 /\ i \in e.owned
Kept(i) == Evident(i) \/ (i = candidate /\ Shows(decision, i))

\* The input is in time for an incident whose interval holds it.
Timely(r, i) == InWindow(Start(r.qualifying), i) /\ Observed[i] <= r.deadline

\* Without lifecycle transitions all incidents are new, and have their first deadline.
TermsAreNew ==
  \A r \in incidentRows : r.status = "new" /\ r.deadline = Deadline(Start(r.qualifying))

\* No page is at hand between cycles; a cached context lacks no input of its window
\* that is handled or on the page, however long ago it was read.
ContextsAreComplete ==
  /\ pc = "idle" => contexts = <<>>
  /\ \A t \in DOMAIN contexts :
       /\ contexts[t] \cap Invalid = {}
       /\ \A i \in (Handled \cup todo) \ Invalid : Near(t, i) => i \in contexts[t]

\* An incident that is being opened takes what is in time for it.
OpeningIsComplete ==
  \A n \in decision.incident :
    (\A r \in CurrentIncidents : r.id # n.id) =>
      /\ n.qualifying \subseteq sources \ Invalid
      /\ ~ condition.derived =>
           \A i \in (Handled \cup todo) \ Invalid :
             InWindow(Start(n.qualifying), i) /\ Observed[i] <= Deadline(Start(n.qualifying))
               => i \in n.members

\* What opened an incident that a candidate is in time for will be in its context,
\* even if that was cached before the incident was opened: the incident took the
\* candidate then.
TodoIsServed ==
  \A r \in CurrentIncidents :
    /\ r.qualifying \subseteq sources \ Invalid
    /\ ~ condition.derived =>
         \A i \in todo \ Invalid : Timely(r, i) =>
           \/ Evident(i)
           \/ Occurred[i] \in DOMAIN contexts => r.qualifying \subseteq contexts[Occurred[i]]

\* What opened an incident around i is held by another incident too.
Entangled(i) ==
  \E r \in Around(i), q \in CurrentIncidents : r # q /\ r.qualifying \cap q.members # {}
\* One of M lies in the interval of an incident that one of them is too late for.
ComesLate(M) ==
  \E r \in CurrentIncidents, i, j \in M :
    InWindow(Start(r.qualifying), i) /\ Observed[j] > r.deadline

\* TimelyEvidenceIsKept and NoMissedMatch, of the handled inputs.
EvidenceIsTaken ==
  \A i \in Handled \ Invalid :
    ( /\ condition.kind = "threshold" /\ i \in condition.stages[1].select
      /\ \E r \in CurrentIncidents : Timely(r, i)
      /\ ~ Entangled(i) )
    => Kept(i)
MatchesAreNoticed ==
  ~ condition.derived => \A M \in Qualifying(Handled \ Invalid) :
    (\A i \in M : Observed[i] <= Deadline(Start(M))) =>
      (\E i \in M : Kept(i)) \/ ComesLate(M)

CompletenessInv ==
  /\ TermsAreNew /\ ContextsAreComplete /\ OpeningIsComplete /\ TodoIsServed
  /\ EvidenceIsTaken /\ MatchesAreNoticed

(***************************************************************************)
(* Matches                                                                 *)
(***************************************************************************)
\* The inputs that fulfil the stages of a threshold or a sequence are in order.
LEMMA FulfilledInOrder ==
  ASSUME condition \in Conditions, condition.kind # "join", NEW M \in SUBSET Inputs, Fulfils(M)
  PROVE  /\ Cardinality(M) = Taken(Len(condition.stages))
         /\ InOrder(M, Len(condition.stages))
<1>. DEFINE last == Len(condition.stages)
<1>1. PICK f \in [M -> Stages] :
        /\ \A k \in Stages : /\ Cardinality({i \in M : f[i] = k}) = condition.stages[k].count
                             /\ {i \in M : f[i] = k} \subseteq condition.stages[k].select
        /\ \A i, j \in M : f[i] < f[j] => Occurred[i] < Occurred[j]
  BY DEF Fulfils
<1>2. /\ last \in Nat /\ Stages = 1 .. last
      /\ \A k \in Stages : condition.stages[k].count \in Nat \ {0}
  BY TakenCounts
<1>3. ASSUME NEW i \in M, NEW j \in M, f[i] < f[j] PROVE i < j
  <2>1. Occurred[i] < Occurred[j] /\ i \in Inputs /\ j \in Inputs
    BY <1>1, <1>3
  <2>2. i \in Nat /\ j \in Nat /\ Occurred[i] \in Nat /\ Occurred[j] \in Nat
    BY <2>1, TimesAreNatural
  <2>3. i # j /\ (j < i => Occurred[j] <= Occurred[i])
    BY <2>1, <2>2, InputsAssumption
  <2>. QED  BY <2>1, <2>2, <2>3
<1>4. /\ Cardinality(M) = Taken(last)
      /\ \A k \in Stages : StageOf(M, k) = {i \in M : f[i] = k}
  BY <1>1, <1>3, StagesFulfilled
<1>5. \A k \in Stages : /\ StageOf(M, k) \subseteq condition.stages[k].select
                        /\ StageOf(M, k) \in SUBSET M /\ StageOf(M, k) # {}
                        /\ \A i \in StageOf(M, k) : f[i] = k
  <2>. SUFFICES ASSUME NEW k \in Stages
                PROVE  /\ StageOf(M, k) \subseteq condition.stages[k].select
                       /\ StageOf(M, k) \in SUBSET M /\ StageOf(M, k) # {}
                       /\ \A i \in StageOf(M, k) : f[i] = k
    OBVIOUS
  <2>1. StageOf(M, k) = {i \in M : f[i] = k}
    BY <1>4
  <2>2. Cardinality(StageOf(M, k)) # 0
    BY <1>1, <1>2, <2>1
  <2>3. StageOf(M, k) # {}
    BY <2>2, FS_EmptySet
  <2>. QED  BY <1>1, <2>1, <2>3
<1>6. ASSUME NEW k \in 1 .. last - 1 PROVE Before(StageOf(M, k), StageOf(M, k + 1))
  <2>. DEFINE A == StageOf(M, k)
              B == StageOf(M, k + 1)
  <2>1. k \in Stages /\ k + 1 \in Stages /\ k < k + 1
    BY <1>2
  <2>2. /\ A \in SUBSET Inputs /\ A # {} /\ B \in SUBSET Inputs /\ B # {}
        /\ \A i \in A : i \in M /\ f[i] = k
        /\ \A i \in B : i \in M /\ f[i] = k + 1
    BY <1>5, <2>1
  <2>. HIDE DEF A, B
  <2>3. Max(A) \in A /\ Min(B) \in B
    BY <2>2, SomeInputs
  <2>4. Occurred[Max(A)] < Occurred[Min(B)]
    BY <1>1, <2>1, <2>2, <2>3
  <2>. QED  BY <2>4 DEF Before, A, B
<1>. QED  BY <1>2, <1>4, <1>5, <1>6 DEF InOrder

\* The inputs that fulfil a join take a stage each.
LEMMA FulfilledJoin ==
  ASSUME condition \in Conditions, condition.kind = "join", NEW M \in SUBSET Inputs, Fulfils(M)
  PROVE  /\ Cardinality(M) = Taken(Len(condition.stages))
         /\ Joined(M)
<1>1. PICK f \in [M -> Stages] :
        \A k \in Stages : /\ Cardinality({i \in M : f[i] = k}) = condition.stages[k].count
                          /\ {i \in M : f[i] = k} \subseteq condition.stages[k].select
  BY DEF Fulfils
<1>2. Cardinality(M) = Taken(Len(condition.stages))
  BY <1>1, StagesFulfilled
<1>3. \A k \in Stages : \E i \in M : f[i] = k /\ i \in condition.stages[k].select
  <2>. SUFFICES ASSUME NEW k \in Stages
                PROVE  \E i \in M : f[i] = k /\ i \in condition.stages[k].select
    OBVIOUS
  <2>1. condition.stages[k].count # 0
    BY TakenCounts
  <2>2. {i \in M : f[i] = k} # {}
    BY <1>1, <2>1, FS_EmptySet
  <2>. QED  BY <1>1, <2>2
<1>. DEFINE g == [k \in Stages |-> CHOOSE i \in M : f[i] = k /\ i \in condition.stages[k].select]
<1>4. g \in [Stages -> M] /\ \A k \in Stages : f[g[k]] = k /\ g[k] \in condition.stages[k].select
  BY <1>3
<1>. HIDE DEF g
<1>5. \A k, l \in Stages : k # l => g[k] # g[l]
  BY <1>4
<1>6. M \in Joinable
  BY DEF Fulfils
<1>. QED  BY <1>2, <1>4, <1>5, <1>6 DEF Joined

\* Inputs that satisfy the rule are a match of every context that holds them.
LEMMA QualifyingMatches ==
  ASSUME condition \in Conditions, NEW context \in SUBSET Inputs,
         NEW M \in Qualifying(Inputs), M \subseteq context
  PROVE  M \in Satisfying(context)
<1>1. /\ M \in SUBSET Inputs /\ M # {} /\ Fulfils(M)
      /\ \A i, j \in M : Occurred[j] - Occurred[i] <= Window
  BY DEF Qualifying
<1>2. Spans(M)
  <2>1. Min(M) \in M /\ Max(M) \in M
    BY <1>1, SomeInputs
  <2>. QED  BY <1>1, <2>1 DEF Spans, Start
<1>3. /\ Cardinality(M) = Taken(Len(condition.stages))
      /\ IF condition.kind = "join" THEN Joined(M) ELSE InOrder(M, Len(condition.stages))
  BY <1>1, FulfilledInOrder, FulfilledJoin
<1>4. M \in kSubset(Taken(Len(condition.stages)), context)
  BY <1>3 DEF kSubset
<1>. QED  BY <1>2, <1>3, <1>4 DEF Satisfying

(***************************************************************************)
(* What an evaluation notices                                              *)
(***************************************************************************)
\* The loaded episodes that have an incident are those of the visible incidents that
\* reach the window of the candidate; an incident takes what is in time.
LEMMA ServedEpisodes ==
  ASSUME EngineInv, EvidenceInv, TermsAreNew, pc \notin Persisting,
         NEW c \in Inputs, c \notin ledger,
         NEW S, S = LoadedEpisodes(c),
         NEW rows, rows = {r \in CurrentIncidents : \E s \in Owning(S) : s.incident = r.id}
  PROVE  /\ IsFiniteSet(S)
         /\ \A s \in S : s.start \in Nat /\ s.incident \in {0} \cup Inputs /\ s.id \in Inputs
         /\ \A s, t \in Owning(S) : s.incident = t.incident => s = t
         /\ \A s \in Owning(S) : \E r \in CurrentIncidents :
              /\ Owns(s, r) /\ WellFormed(r)
              /\ r.members = Linked[r.id] /\ r.id \in Inputs
              /\ \A i : Takes(Terms(s, rows), i) <=> Observed[i] <= r.deadline
         /\ \A r \in CurrentIncidents :
              InWindow(Start(r.qualifying), c) => \E s \in Owning(S) : Owns(s, r)
<1>1. /\ S \in SUBSET EpisodeRow /\ IsFiniteSet(S)
      /\ \A s \in S : s.start \in Nat /\ s.incident \in {0} \cup Inputs /\ s.id \in Inputs
  <2>1. rows \in SUBSET CurrentIncidents
    OBVIOUS
  <2>2. Loadable(c, {}, S, rows, Linked, incidentRows)
    BY <2>1, EvaluationLoads
  <2>. QED  BY <2>2, LoadedStates DEF Loadable
<1>2. /\ S = {s \in CurrentEpisodes : /\ s.start <= Occurred[c] + Window
                                      /\ s.start + Window >= Occurred[c] - Window}
      /\ Owning(S) \subseteq Episodes
  BY LoadedAreCurrent DEF EvidenceInv, Owning, Episodes
<1>3. \A s, t \in Owning(S) : s.incident = t.incident => s = t
  BY <1>2 DEF EvidenceInv, Coherent
<1>4. /\ \A r \in CurrentIncidents : r \in incidentRows /\ r.id \in Inputs
      /\ \A r, q \in CurrentIncidents : r.id = q.id => r = q
  BY OneRowIsVisible DEF CurrentIncidents, Latest, CommittedIncidents, EngineInv, TypeOK,
     IncidentRow
<1>5. ASSUME NEW s \in Owning(S)
      PROVE  \E r \in CurrentIncidents :
               /\ Owns(s, r) /\ WellFormed(r)
               /\ r.members = Linked[r.id] /\ r.id \in Inputs
               /\ \A i : Takes(Terms(s, rows), i) <=> Observed[i] <= r.deadline
  <2>1. PICK r \in CurrentIncidents : r.id = s.incident
    BY <1>2 DEF EvidenceInv, Coherent
  <2>2. Owns(s, r) /\ WellFormed(r) /\ r.members = Linked[r.id]
    <3>1. PICK t \in Episodes : Owns(t, r)
      BY DEF EvidenceInv, Coherent
    <3>2. t = s
      BY <1>2, <2>1, <3>1 DEF EvidenceInv, Coherent, Owns
    <3>. QED  BY <3>1, <3>2 DEF EvidenceInv, Coherent
  <2>3. {q \in rows : q.id = s.incident} = {r}
    BY <1>4, <2>1
  <2>4. Terms(s, rows) = [status |-> r.status, from |-> r.from,
                          closedAt |-> r.closedAt, deadline |-> r.deadline]
    <3>1. The({r}) = r /\ {r} # {}
      BY DEF The
    <3>. QED  BY <2>3, <3>1 DEF Terms, TermsOf
  <2>5. Terms(s, rows).status = "new" /\ Terms(s, rows).deadline = r.deadline
    BY <1>4, <2>4 DEF TermsAreNew
  <2>6. \A i : Takes(Terms(s, rows), i) <=> Observed[i] <= r.deadline
    BY <2>5 DEF Takes
  <2>. QED  BY <1>4, <2>2, <2>6
<1>6. ASSUME NEW r \in CurrentIncidents, InWindow(Start(r.qualifying), c)
      PROVE  \E s \in Owning(S) : Owns(s, r)
  <2>1. PICK s \in Episodes : Owns(s, r)
    BY DEF EvidenceInv, Coherent
  <2>2. s \in CurrentEpisodes /\ s.incident # 0
    BY DEF Episodes, Owning
  <2>3. s.start \in Nat /\ Occurred[c] \in Nat /\ Window \in Nat /\ InWindow(s.start, c)
    BY <1>6, <2>1, <2>2, OneEpisodeIsCurrent, TimesAreNatural, RuleAssumption
       DEF EngineInv, TypeOK, EpisodeRow, Owns
  <2>4. s.start <= Occurred[c] + Window /\ s.start + Window >= Occurred[c] - Window
    BY <2>3 DEF InWindow
  <2>. QED  BY <1>2, <2>1, <2>2, <2>4 DEF Owning
<1>. QED  BY <1>1, <1>3, <1>5, <1>6

\* A candidate that could be added to an incident or open one is evidence of an
\* incident, or of the decision, unless the evaluation fails.
LEMMA OptionIsNoticed ==
  ASSUME EngineInv, EvidenceInv, TermsAreNew, pc \notin Persisting,
         NEW c \in Inputs, c \notin ledger, c \notin Invalid,
         NEW context \in SUBSET Inputs, \A i \in context : Near(Occurred[c], i),
         NEW S, S = LoadedEpisodes(c),
         NEW rows, rows = {r \in CurrentIncidents : \E s \in Owning(S) : s.incident = r.id},
         Options(c, context, S, rows) # {},
         NEW d, d = Decide(c, context)
  PROVE  d = Failed \/ Evident(c) \/ Shows(d, c)
<1>. DEFINE selected == Selected(c, context, S, rows)
<1>1. /\ \A s \in S : s.start \in Nat /\ s.incident \in {0} \cup Inputs /\ s.id \in Inputs
      /\ \A s, t \in Owning(S) : s.incident = t.incident => s = t
  BY ServedEpisodes
<1>2. condition \in Conditions
  BY DEF EngineInv, TypeOK
<1>3. selected # {}
  <2>. HIDE DEF selected
  <2>. QED  BY <1>1, <1>2, SelectedExists DEF selected
<1>4. The(selected) \in selected
  BY <1>3 DEF The
<1>5. \/ d = Failed
      \/ d = MatchDecision(c, context, S, rows, Linked, incidentRows, The(selected))
  <2>1. d = Failed \/ d = Evaluate(c, context, S, rows, Linked, incidentRows)
    BY DEF Decide
  <2>. HIDE DEF selected
  <2>. QED  BY <1>3, <2>1 DEF Evaluate, selected
<1>. HIDE DEF selected
<1>6. ASSUME NEW o \in selected,
             d = MatchDecision(c, context, S, rows, Linked, incidentRows, o)
      PROVE  \/ d = Failed
             \/ \E s \in Episodes : c \in s.owned
             \/ OpensOne(d, c) \/ EnrichesOne(d, c)
  <2>1. o \in Selected(c, context, S, rows)
    BY DEF selected
  <2>2. Clean /\ Coherent
    BY DEF EvidenceInv
  <2>3. CASE o.owner = {}
    <3>1. \/ d = Failed
          \/ OpensOne(d, c) /\ TakesContext(d, context) /\ NamesEpisode(d, S)
      BY <1>6, <2>1, <2>2, <2>3, MatchOpens
    <3>. QED  BY <3>1
  <2>4. CASE o.owner # {}
    BY <1>6, <2>1, <2>2, <2>4, MatchEnriches
  <2>. QED  BY <2>3, <2>4
<1>7. ASSUME NEW s \in Episodes, c \in s.owned PROVE Evident(c)
  <2>1. PICK r \in CurrentIncidents : r.id = s.incident
    BY DEF EvidenceInv, Coherent
  <2>2. PICK t \in Episodes : Owns(t, r)
    BY DEF EvidenceInv, Coherent
  <2>3. t = s
    BY <2>1, <2>2 DEF EvidenceInv, Coherent, Owns
  <2>4. c \in Linked[r.id]
    BY <1>7, <2>2, <2>3 DEF EvidenceInv, Coherent, Owns
  <2>5. r.id \in Inputs
    BY DEF CurrentIncidents, Latest, CommittedIncidents, EngineInv, TypeOK, IncidentRow
  <2>. QED  BY <2>4, <2>5 DEF Evident
<1>8. ASSUME OpensOne(d, c) PROVE Shows(d, c)
  <2>1. PICK n \in d.incident, e \in d.episode :
          n.id = d.anchor /\ d.links = n.members /\ c \in n.members /\ Owns(e, n)
    BY <1>8 DEF OpensOne
  <2>2. d.anchor \in Inputs
    <3>1. Sound(d, c)
      BY DecisionsAreSound
    <3>2. d.links # {}
      BY <2>1
    <3>. QED  BY <3>1, <3>2 DEF Sound
  <2>3. e.incident # 0
    BY <2>1, <2>2, TimesAreNatural DEF Owns
  <2>. QED  BY <2>1, <2>3 DEF Owns, Shows
<1>9. ASSUME EnrichesOne(d, c) PROVE Shows(d, c)
  <2>1. PICK s \in Episodes, e \in d.episode : Continues(s, e) /\ c \in e.owned
    BY <1>9 DEF EnrichesOne
  <2>2. e.incident # 0
    BY <2>1 DEF Continues, Episodes, Owning
  <2>. QED  BY <2>1, <2>2 DEF Shows
<1>. QED  BY <1>4, <1>5, <1>6, <1>7, <1>8, <1>9

\* An admissible match of the candidate is an option.
LEMMA AdmissibleIsOption ==
  ASSUME ~ condition.derived, NEW c, NEW context, NEW S, NEW rows,
         NEW M \in Satisfying(context), c \in M,
         NEW o, o = [members |-> M, related |-> {}],
         Admissible(c, S, o, Nearest(c, Attachable(c, S, rows, o)))
  PROVE  Options(c, context, S, rows) # {}
<1>1. Evidence(o) = M
  BY DEF Evidence
<1>2. o \in Matches(c, context)
  <2>1. RelatedTo(M, context) = {}
    BY DEF RelatedTo
  <2>2. o \in {[members |-> Q, related |-> RelatedTo(Q, context)] : Q \in Satisfying(context)}
    BY <2>1
  <2>. QED  BY <1>1, <2>2 DEF Matches
<1>. DEFINE p == [match |-> o, owner |-> Nearest(c, Attachable(c, S, rows, o))]
<1>3. p.match = o /\ p.owner = Nearest(c, Attachable(c, S, rows, o))
  OBVIOUS
<1>4. p \in {[match |-> q, owner |-> Nearest(c, Attachable(c, S, rows, q))] :
               q \in Matches(c, context)}
  BY <1>2
<1>. HIDE DEF p
<1>5. p \in Options(c, context, S, rows)
  BY <1>3, <1>4 DEF Options
<1>. QED  BY <1>5

\* Inputs that satisfy the rule are an option, if none is evidence yet and no incident
\* around one of them ends too early for another.
LEMMA MatchIsOption ==
  ASSUME EngineInv, EvidenceInv, TermsAreNew, pc \notin Persisting, ~ condition.derived,
         NEW c \in Inputs, c \notin ledger, NEW context \in SUBSET Inputs,
         NEW S, S = LoadedEpisodes(c),
         NEW rows, rows = {r \in CurrentIncidents : \E s \in Owning(S) : s.incident = r.id},
         NEW M \in Qualifying(Inputs), M \subseteq context, c \in M,
         \A i \in M : Observed[i] <= Deadline(Start(M)) /\ ~ Evident(i),
         ~ ComesLate(M)
  PROVE  Options(c, context, S, rows) # {}
<1>. DEFINE o     == [members |-> M, related |-> {}]
            A     == Attachable(c, S, rows, o)
            owner == Nearest(c, A)
<1>0. /\ Evidence(o) = M
      /\ A = {s \in Owning(S) : Covers(s, c) /\ \A i \in M \ s.owned : Takes(Terms(s, rows), i)}
  <2>1. Evidence(o) = M
    BY DEF Evidence
  <2>. HIDE DEF o
  <2>. QED  BY <2>1 DEF Attachable
<1>. HIDE DEF o, A
<1>1. /\ IsFiniteSet(S)
      /\ \A s \in S : s.start \in Nat /\ s.incident \in {0} \cup Inputs /\ s.id \in Inputs
      /\ \A s, t \in Owning(S) : s.incident = t.incident => s = t
      /\ \A s \in Owning(S) : \E r \in CurrentIncidents :
              /\ Owns(s, r) /\ WellFormed(r)
              /\ r.members = Linked[r.id] /\ r.id \in Inputs
              /\ \A i : Takes(Terms(s, rows), i) <=> Observed[i] <= r.deadline
      /\ \A r \in CurrentIncidents :
           InWindow(Start(r.qualifying), c) => \E s \in Owning(S) : Owns(s, r)
  BY ZenonT(40), ServedEpisodes
<1>2. ASSUME NEW s \in Owning(S)
      PROVE  M \cap s.owned = {} /\ (Covers(s, c) => s \in A)
  <2>1. PICK r \in CurrentIncidents :
              /\ Owns(s, r) /\ r.members = Linked[r.id] /\ r.id \in Inputs
              /\ \A i : Takes(Terms(s, rows), i) <=> Observed[i] <= r.deadline
    BY <1>1
  <2>2. s.owned = Linked[r.id] /\ s.start = Start(r.qualifying)
    BY <2>1 DEF Owns
  <2>3. M \cap s.owned = {}
    BY <2>1, <2>2 DEF Evident
  <2>4. ASSUME Covers(s, c), NEW i \in M PROVE Takes(Terms(s, rows), i)
    <3>1. InWindow(Start(r.qualifying), c)
      BY <2>2, <2>3, <2>4 DEF Covers
    <3>2. ~ (Observed[i] > r.deadline)
      BY <3>1 DEF ComesLate
    <3>3. Observed[i] \in Nat /\ r.deadline \in Nat
      <4>1. M \in SUBSET Inputs
        BY DEF Qualifying
      <4>. QED  BY <4>1, TimesAreNatural DEF CurrentIncidents, Latest, CommittedIncidents,
                   EngineInv, TypeOK, IncidentRow
    <3>. QED  BY <2>1, <3>2, <3>3
  <2>. QED  BY <1>0, <2>3, <2>4
<1>3. (\E s \in Owning(S) : Covers(s, c)) => owner # {}
  <2>. SUFFICES ASSUME NEW s \in Owning(S), Covers(s, c) PROVE owner # {}
    OBVIOUS
  <2>1. A # {} /\ A \in SUBSET Owning(S) /\ Owning(S) \in SUBSET S
    BY <1>0, <1>2 DEF Owning
  <2>2. IsFiniteSet(A)
    BY <1>1, <2>1, FS_Subset
  <2>3. /\ \A t \in A : t.start \in Nat /\ t.incident \in {0} \cup Inputs /\ t.id \in Inputs
        /\ \A t, u \in A : t.incident = u.incident => t = u
    BY <1>1, <2>1
  <2>4. condition \in Conditions
    BY DEF EngineInv, TypeOK
  <2>. QED  BY <2>1, <2>2, <2>3, <2>4, NearestExists
<1>4. M \in Satisfying(context)
  <2>1. condition \in Conditions
    BY DEF EngineInv, TypeOK
  <2>. QED  BY <2>1, QualifyingMatches
<1>5. Admissible(c, S, o, owner)
  <2>. HIDE DEF owner
  <2>. QED  BY <1>0, <1>2, <1>3 DEF Admissible
<1>. QED  BY <1>4, <1>5, AdmissibleIsOption DEF o, A

\* An input the threshold counts can stand in for one of those that opened an
\* incident, if it lies in the interval.
LEMMA StandsIn ==
  ASSUME condition \in Conditions, condition.kind = "threshold",
         NEW Q \in Qualifying(Inputs), NEW c \in Inputs \ Q, NEW x \in Q,
         c \in condition.stages[1].select, InWindow(Start(Q), c),
         \A i \in Q : InWindow(Start(Q), i)
  PROVE  {c} \cup (Q \ {x}) \in Qualifying(Inputs)
<1>. DEFINE M     == {c} \cup (Q \ {x})
            count == condition.stages[1].count
<1>1. /\ Q \in SUBSET Inputs /\ Fulfils(Q) /\ IsFiniteSet(Q)
      /\ \A i, j \in Q : Occurred[j] - Occurred[i] <= Window
  BY SomeInputs DEF Qualifying
<1>2. Stages = {1}
  <2>1. Len(condition.stages) = 1
    BY RuleAssumption
  <2>2. Stages = 1 .. 1
    BY <2>1, TakenCounts
  <2>. QED  BY <2>2
<1>3. Cardinality(Q) = count /\ Q \subseteq condition.stages[1].select
  <2>1. PICK f \in [Q -> Stages] :
          /\ Cardinality({i \in Q : f[i] = 1}) = count
          /\ {i \in Q : f[i] = 1} \subseteq condition.stages[1].select
    BY <1>1, <1>2 DEF Fulfils
  <2>2. {i \in Q : f[i] = 1} = Q
    BY <1>2
  <2>. QED  BY <2>1, <2>2
<1>4. Cardinality(M) = count
  <2>1. /\ IsFiniteSet(Q \ {x}) /\ Cardinality(Q \ {x}) = Cardinality(Q) - 1
        /\ Cardinality(Q) \in Nat
    BY <1>1, FS_RemoveElement, FS_CardinalityType
  <2>2. Cardinality((Q \ {x}) \cup {c}) = Cardinality(Q \ {x}) + 1
    BY <2>1, FS_AddElement
  <2>3. Cardinality(M) = Cardinality((Q \ {x}) \cup {c})
    <3>1. M = (Q \ {x}) \cup {c}
      OBVIOUS
    <3>. HIDE DEF M
    <3>. QED  BY <3>1
  <2>. HIDE DEF M, count
  <2>. QED  BY <1>3, <2>1, <2>2, <2>3
<1>5. M \in (SUBSET Inputs) \ {{}} /\ M \subseteq condition.stages[1].select
  BY <1>1, <1>3
<1>6. ASSUME NEW i \in M, NEW j \in M PROVE Occurred[j] - Occurred[i] <= Window
  <2>1. InWindow(Start(Q), i) /\ InWindow(Start(Q), j) /\ i \in Inputs /\ j \in Inputs
    BY <1>1
  <2>2. Start(Q) \in Nat /\ Occurred[i] \in Nat /\ Occurred[j] \in Nat /\ Window \in Nat
    BY <1>1, <2>1, SomeInputs, TimesAreNatural, RuleAssumption
  <2>. QED  BY <2>1, <2>2 DEF InWindow
<1>. HIDE DEF M, count
<1>7. Fulfils(M)
  <2>. DEFINE f == [i \in M |-> 1]
  <2>1. f \in [M -> Stages] /\ {i \in M : f[i] = 1} = M /\ \A i, j \in M : ~ (f[i] < f[j])
    BY <1>2
  <2>. HIDE DEF f
  <2>2. \A k \in Stages : /\ Cardinality({i \in M : f[i] = k}) = condition.stages[k].count
                          /\ {i \in M : f[i] = k} \subseteq condition.stages[k].select
    <3>1. /\ Cardinality({i \in M : f[i] = 1}) = condition.stages[1].count
          /\ {i \in M : f[i] = 1} \subseteq condition.stages[1].select
      BY <1>4, <1>5, <2>1 DEF count
    <3>. QED  BY <1>2, <3>1
  <2>3. condition.kind # "join"
    OBVIOUS
  <2>. QED  BY <2>1, <2>2, <2>3 DEF Fulfils
<1>8. M \in Qualifying(Inputs)
  BY <1>5, <1>6, <1>7 DEF Qualifying
<1>. QED  BY <1>8 DEF M

\* An input the threshold counts, and that is in time for incidents around it, is in
\* an option: in place of one that opened the nearest of them, if no other holds those.
LEMMA TimelyIsOption ==
  ASSUME EngineInv, EvidenceInv, TermsAreNew, QualifyingSatisfiesRule, pc \notin Persisting,
         NEW c \in Inputs, c \notin ledger, NEW context \in SUBSET Inputs, c \in context,
         NEW S, S = LoadedEpisodes(c),
         NEW rows, rows = {r \in CurrentIncidents : \E s \in Owning(S) : s.incident = r.id},
         condition.kind = "threshold", c \in condition.stages[1].select,
         ~ Evident(c), ~ Entangled(c),
         \E r \in CurrentIncidents : Timely(r, c),
         \A r \in CurrentIncidents : Timely(r, c) => r.qualifying \subseteq context
  PROVE  Options(c, context, S, rows) # {}
<1>. DEFINE T == {s \in Owning(S) : Covers(s, c) /\ Takes(Terms(s, rows), c)}
<1>1. /\ IsFiniteSet(S)
      /\ \A s \in S : s.start \in Nat /\ s.incident \in {0} \cup Inputs /\ s.id \in Inputs
      /\ \A s, t \in Owning(S) : s.incident = t.incident => s = t
      /\ \A s \in Owning(S) : \E r \in CurrentIncidents :
              /\ Owns(s, r) /\ WellFormed(r)
              /\ r.members = Linked[r.id] /\ r.id \in Inputs
              /\ \A i : Takes(Terms(s, rows), i) <=> Observed[i] <= r.deadline
      /\ \A r \in CurrentIncidents :
           InWindow(Start(r.qualifying), c) => \E s \in Owning(S) : Owns(s, r)
  BY ZenonT(40), ServedEpisodes
<1>2. condition \in Conditions /\ ~ condition.derived
  BY RuleAssumption DEF EngineInv, TypeOK
<1>3. \A s \in Owning(S) : c \notin s.owned /\ s \in S
  <2>. SUFFICES ASSUME NEW s \in Owning(S) PROVE c \notin s.owned /\ s \in S
    OBVIOUS
  <2>1. PICK r \in CurrentIncidents : Owns(s, r) /\ r.members = Linked[r.id] /\ r.id \in Inputs
    BY <1>1
  <2>. QED  BY <2>1 DEF Owns, Evident, Owning
<1>4. \A r, q \in CurrentIncidents : r.id = q.id => r = q
  BY OneRowIsVisible DEF EngineInv
<1>5. T # {}
  <2>1. PICK r \in CurrentIncidents : Timely(r, c)
    OBVIOUS
  <2>2. PICK s \in Owning(S) : Owns(s, r)
    BY <1>1, <2>1 DEF Timely
  <2>3. PICK q \in CurrentIncidents :
          Owns(s, q) /\ \A i : Takes(Terms(s, rows), i) <=> Observed[i] <= q.deadline
    BY <1>1
  <2>4. q = r
    BY <1>4, <2>2, <2>3 DEF Owns
  <2>5. Covers(s, c) /\ Takes(Terms(s, rows), c)
    BY <2>1, <2>2, <2>3, <2>4 DEF Covers, Timely, Owns
  <2>. QED  BY <2>5
<1>6. T \in SUBSET Owning(S) /\ T \in SUBSET S
  BY <1>3
<1>7. Nearest(c, T) # {}
  <2>1. /\ \A t \in T : t.start \in Nat /\ t.incident \in {0} \cup Inputs /\ t.id \in Inputs
        /\ \A t, u \in T : t.incident = u.incident => t = u
    BY <1>1, <1>6
  <2>2. IsFiniteSet(T)
    BY <1>1, <1>6, FS_Subset
  <2>. HIDE DEF T
  <2>. QED  BY <1>2, <1>5, <2>1, <2>2, NearestExists
<1>8. PICK s \in T : \A t \in T \ {s} : Closer(c, s, t)
  <2>. HIDE DEF T
  <2>. QED  BY <1>7 DEF Nearest
<1>9. s \in Owning(S) /\ Covers(s, c) /\ Takes(Terms(s, rows), c)
  OBVIOUS
<1>10. PICK r \in CurrentIncidents :
              /\ Owns(s, r) /\ WellFormed(r)
              /\ r.members = Linked[r.id] /\ r.id \in Inputs
              /\ \A i : Takes(Terms(s, rows), i) <=> Observed[i] <= r.deadline
  BY <1>1, <1>9
<1>. DEFINE Q == r.qualifying
<1>11. /\ Timely(r, c) /\ r \in Around(c) /\ Q \subseteq context
       /\ Q \in Qualifying(Inputs) /\ r.id \in Q /\ Q \subseteq s.owned
       /\ c \in Inputs \ Q /\ \A i \in Q : InWindow(Start(Q), i)
  <2>1. InWindow(Start(Q), c)
    BY <1>3, <1>9, <1>10 DEF Covers, Owns
  <2>2. Timely(r, c) /\ r \in Around(c)
    BY <1>9, <1>10, <2>1 DEF Timely, Around
  <2>3. Q \in Qualifying(Inputs)
    BY DEF QualifyingSatisfiesRule
  <2>4. r.id \in Q /\ Q \subseteq s.owned /\ \A i \in Q : InWindow(Start(Q), i)
    BY <1>10 DEF WellFormed, Owns
  <2>. QED  BY <1>3, <1>9, <2>2, <2>3, <2>4
<1>. DEFINE M == {c} \cup (Q \ {r.id})
<1>12. M \in Satisfying(context) /\ c \in M
  <2>1. InWindow(Start(Q), c)
    BY <1>11 DEF Timely
  <2>. HIDE DEF Q
  <2>2. M \in Qualifying(Inputs)
    BY <1>2, <1>11, <2>1, StandsIn
  <2>3. M \subseteq context
    BY <1>11
  <2>. HIDE DEF M
  <2>4. M \in Satisfying(context)
    BY <1>2, <2>2, <2>3, QualifyingMatches
  <2>. QED  BY <2>4 DEF M
<1>. DEFINE o     == [members |-> M, related |-> {}]
            A     == Attachable(c, S, rows, o)
            owner == Nearest(c, A)
<1>13. Evidence(o) = M
  BY DEF Evidence
<1>. HIDE DEF o
<1>14. A = {t \in Owning(S) : Covers(t, c) /\ \A i \in M \ t.owned : Takes(Terms(t, rows), i)}
  BY <1>13 DEF Attachable
<1>. HIDE DEF A, T, Q
<1>15. s \in A
  <2>1. \A i \in M \ s.owned : i = c
    BY <1>11
  <2>. QED  BY <1>9, <1>14, <2>1
<1>16. A \subseteq T
  BY <1>3, <1>14 DEF T
<1>17. s \in owner
  BY <1>8, <1>15, <1>16 DEF Nearest
<1>18. ASSUME NEW t \in Owning(S), t # s PROVE M \cap t.owned = {}
  <2>1. PICK q \in CurrentIncidents : Owns(t, q)
    BY <1>1
  <2>2. q # r
    BY <1>1, <1>9, <1>10, <1>18, <2>1 DEF Owns
  <2>3. Q \cap q.members = {}
    BY <1>11, <2>2 DEF Entangled, Q
  <2>. QED  BY <1>3, <2>1, <2>3 DEF Owns
<1>19. Admissible(c, S, o, owner)
  <2>. HIDE DEF owner
  <2>. QED  BY <1>13, <1>17, <1>18 DEF Admissible
<1>. HIDE DEF M
<1>. QED  BY <1>2, <1>12, <1>19, AdmissibleIsOption DEF o, A

\* An incident that an evaluation opens holds the candidate, and takes the context.
LEMMA DecisionTakesContext ==
  ASSUME EngineInv, Clean, Coherent, pc \notin Persisting,
         NEW c \in Inputs, c \notin ledger,
         NEW context \in SUBSET Inputs, \A i \in context : Near(Occurred[c], i),
         NEW d, d = Decide(c, context),
         \A n \in d.incident, r \in CurrentIncidents : r.id # n.id
  PROVE  /\ TakesContext(d, context)
         /\ \A n \in d.incident : InWindow(Start(n.qualifying), c) /\ n.qualifying \in SUBSET Inputs
<1>1. PICK S : S = LoadedEpisodes(c)
  OBVIOUS
<1>2. PICK rows : rows = {r \in CurrentIncidents : \E s \in Owning(S) : s.incident = r.id}
  OBVIOUS
<1>. DEFINE selected == Selected(c, context, S, rows)
<1>3. \/ d = Stateless
      \/ d = Failed
      \/ d = PartialDecision(c, context, S)
      \/ /\ The(selected) \in selected
         /\ d = MatchDecision(c, context, S, rows, Linked, incidentRows, The(selected))
  <2>1. selected # {} => The(selected) \in selected
    BY DEF The
  <2>2. d = Failed \/ d = Evaluate(c, context, S, rows, Linked, incidentRows)
    BY <1>1, <1>2 DEF Decide
  <2>. QED  BY <2>1, <2>2 DEF Evaluate
<1>. HIDE DEF selected
<1>4. CASE d.incident = {}
  BY <1>4 DEF TakesContext
<1>5. Stateless.incident = {} /\ Failed.incident = {}
  BY DEF Stateless, Failed
<1>6. ASSUME d = PartialDecision(c, context, S) PROVE d.incident = {}
  BY <1>1, <1>6, PartialIgnores DEF Ignores
<1>7. ASSUME NEW o \in selected,
             d = MatchDecision(c, context, S, rows, Linked, incidentRows, o)
      PROVE  d.incident = {} \/ (TakesContext(d, context) /\ OpensOne(d, c))
  <2>1. o \in Selected(c, context, S, rows)
    BY DEF selected
  <2>2. CASE o.owner = {}
    <3>1. \/ d = Failed
          \/ OpensOne(d, c) /\ TakesContext(d, context) /\ NamesEpisode(d, S)
      BY <1>1, <1>2, <1>7, <2>1, <2>2, MatchOpens
    <3>. QED  BY <1>5, <3>1
  <2>3. CASE o.owner # {}
    <3>1. \/ d = Failed
          \/ d = Stateless
          \/ EnrichesOne(d, c)
      BY <1>1, <1>2, <1>7, <2>1, <2>3, MatchEnriches
    <3>2. EnrichesOne(d, c) => d.incident = {}
      BY DEF EnrichesOne, Precedes
    <3>. QED  BY <1>5, <3>1, <3>2
  <2>. QED  BY <2>2, <2>3
<1>8. ASSUME TakesContext(d, context), OpensOne(d, c)
      PROVE  \A n \in d.incident :
               InWindow(Start(n.qualifying), c) /\ n.qualifying \in SUBSET Inputs
  BY <1>8 DEF OpensOne, WellFormed, TakesContext
<1>. QED  BY <1>3, <1>4, <1>5, <1>6, <1>7, <1>8

(***************************************************************************)
(* The evaluation of a candidate                                           *)
(***************************************************************************)
\* The candidate c is evaluated over all inputs of its window that are handled or on
\* the page, and over what opened the incidents it is in time for; nothing comes of
\* an input whose rows conflict.
EvaluatedOver(c, context, d) ==
  /\ d = Decide(c, context)
  /\ \A i \in context : Near(Occurred[c], i)
  /\ IF c \in Invalid THEN d = Failed \/ d = Stateless
     ELSE /\ context \cap Invalid = {}
          /\ \A i \in (Handled \cup todo) \ Invalid : Near(Occurred[c], i) => i \in context
  /\ \A r \in CurrentIncidents :
       ~ condition.derived /\ c \notin Invalid /\ Timely(r, c) =>
         Evident(c) \/ r.qualifying \subseteq context
  /\ todo' = todo \ {c}
  /\ stateless' = IF d.failed \/ HasEffects(d) THEN stateless ELSE stateless \cup {c}
  /\ IF HasEffects(d)
     THEN pc' = "writeIncident" /\ candidate' = c /\ decision' = d
     ELSE UNCHANGED <<pc, candidate, decision>>
  /\ \A t \in DOMAIN contexts' :
       \/ t \in DOMAIN contexts /\ contexts'[t] = contexts[t]
       \/ t = Occurred[c] /\ contexts'[t] = SourceWindow(c)

LEMMA EvaluatedOverAll ==
  ASSUME EngineInv, EvidenceInv, ContextsAreComplete, TodoIsServed, EvaluateCandidate
  PROVE  \E c \in todo, context \in SUBSET sources : \E d : EvaluatedOver(c, context, d)
<1>1. PICK c \in todo :
        LET known   == Occurred[c] \in DOMAIN contexts
            context == IF c \in Invalid THEN {c}
                       ELSE IF known THEN contexts[Occurred[c]] ELSE SourceWindow(c)
            kept    == IF Cardinality(DOMAIN contexts) >= CacheSlots THEN <<>> ELSE contexts
        IN  \E d \in {Decide(c, context)} :
            /\ todo' = todo \ {c}
            /\ contexts' = IF c \in Invalid \/ known \/ Cardinality(context) > ContextLimit
                           THEN contexts
                           ELSE [t \in {Occurred[c]} \cup DOMAIN kept |->
                                   IF t = Occurred[c] THEN context ELSE kept[t]]
            /\ stateless' = IF d.failed \/ HasEffects(d) THEN stateless ELSE stateless \cup {c}
            /\ IF HasEffects(d)
               THEN pc' = "writeIncident" /\ candidate' = c /\ decision' = d
               ELSE UNCHANGED <<pc, current>>
  BY DEF EvaluateCandidate
<1>. DEFINE known   == Occurred[c] \in DOMAIN contexts
            context == IF c \in Invalid THEN {c}
                       ELSE IF known THEN contexts[Occurred[c]] ELSE SourceWindow(c)
            kept    == IF Cardinality(DOMAIN contexts) >= CacheSlots THEN <<>> ELSE contexts
            d       == Decide(c, context)
<1>2. /\ todo' = todo \ {c}
      /\ contexts' = IF c \in Invalid \/ known \/ Cardinality(context) > ContextLimit
                           THEN contexts
                     ELSE [t \in {Occurred[c]} \cup DOMAIN kept |->
                             IF t = Occurred[c] THEN context ELSE kept[t]]
      /\ stateless' = IF d.failed \/ HasEffects(d) THEN stateless ELSE stateless \cup {c}
      /\ IF HasEffects(d)
         THEN pc' = "writeIncident" /\ candidate' = c /\ decision' = d
         ELSE UNCHANGED <<pc, current>>
  BY <1>1
<1>3. Handled \cup todo \subseteq sources /\ todo \subseteq Inputs /\ sources \subseteq Inputs
  BY DEF Handled, EngineInv, TypeOK, PageIsSplit, Persisting
<1>4. \A i \in sources \ Invalid : Near(Occurred[c], i) <=> i \in SourceWindow(c)
  BY DEF SourceWindow, Near
<1>5. SourceWindow(c) \in SUBSET (sources \ Invalid)
  BY DEF SourceWindow
<1>6. ASSUME c \notin Invalid
      PROVE  /\ context \in SUBSET (sources \ Invalid)
             /\ \A i \in context : Near(Occurred[c], i)
             /\ \A i \in (Handled \cup todo) \ Invalid : Near(Occurred[c], i) => i \in context
  <2>1. CASE known
    <3>1. contexts[Occurred[c]] \in SUBSET (sources \ Invalid)
      BY <2>1 DEF EngineInv, TypeOK, ContextsAreComplete
    <3>. QED  BY <1>6, <2>1, <3>1 DEF EvidenceInv, ContextsAreWindows, ContextsAreComplete
  <2>2. CASE ~ known
    BY <1>3, <1>4, <1>5, <1>6, <2>2
  <2>. QED  BY <2>1, <2>2
<1>12. context \in SUBSET sources /\ \A i \in context : Near(Occurred[c], i)
  <2>1. CASE c \in Invalid
    <3>1. Occurred[c] \in Nat /\ Window \in Nat
      BY <1>3, TimesAreNatural, RuleAssumption
    <3>. QED  BY <1>3, <2>1, <3>1 DEF Near
  <2>. QED  BY <1>6, <2>1
<1>13. c \in Invalid => d = Failed \/ d = Stateless
  <2>. HIDE DEF context
  <2>1. \A S, rows, linked, raw :
          c \in Invalid => Evaluate(c, context, S, rows, linked, raw) \in {Failed, Stateless}
    BY DEF Evaluate
  <2>. QED  BY <2>1 DEF Decide
<1>7. ASSUME NEW r \in CurrentIncidents, ~ condition.derived, c \notin Invalid, Timely(r, c)
      PROVE  Evident(c) \/ r.qualifying \subseteq context
  <2>1. CASE known
    BY <1>7, <2>1 DEF TodoIsServed
  <2>2. CASE ~ known
    <3>1. r.qualifying \in SUBSET (sources \ Invalid) /\ WellFormed(r)
      BY DEF TodoIsServed, EvidenceInv, Coherent
    <3>2. ASSUME NEW i \in r.qualifying PROVE Near(Occurred[c], i)
      <4>1. InWindow(Start(r.qualifying), i) /\ InWindow(Start(r.qualifying), c)
        BY <1>7, <3>1 DEF WellFormed, Timely
      <4>2. /\ Occurred[i] \in Nat /\ Occurred[c] \in Nat /\ Window \in Nat
            /\ Start(r.qualifying) \in Nat
        BY <1>3, <3>1, SomeInputs, TimesAreNatural, RuleAssumption
      <4>. QED  BY <4>1, <4>2 DEF InWindow, Near
    <3>. QED  BY <1>4, <1>7, <2>2, <3>1, <3>2
  <2>. QED  BY <2>1, <2>2
<1>8. \A t \in DOMAIN contexts' : \/ t \in DOMAIN contexts /\ contexts'[t] = contexts[t]
                                  \/ t = Occurred[c] /\ contexts'[t] = SourceWindow(c)
  <2>1. CASE contexts' = contexts
    BY <2>1
  <2>2. CASE c \notin Invalid /\ ~ known /\ contexts' = [t \in {Occurred[c]} \cup DOMAIN kept |->
                                       IF t = Occurred[c] THEN context ELSE kept[t]]
    <3>1. context = SourceWindow(c)
      BY <2>2
    <3>2. \A t \in DOMAIN kept : t \in DOMAIN contexts /\ kept[t] = contexts[t]
      OBVIOUS
    <3>. HIDE DEF known, context, kept
    <3>. QED  BY <2>2, <3>1, <3>2
  <2>. QED  BY <1>2, <2>1, <2>2
<1>9. d = Decide(c, context)
  OBVIOUS
<1>. HIDE DEF known, context, kept, d
<1>10. IF HasEffects(d)
       THEN pc' = "writeIncident" /\ candidate' = c /\ decision' = d
       ELSE UNCHANGED <<pc, candidate, decision>>
  <2>1. CASE HasEffects(d)
    <3>1. pc' = "writeIncident" /\ candidate' = c /\ decision' = d
      BY ONLY <1>2, <2>1
    <3>. QED  BY ONLY <2>1, <3>1
  <2>2. CASE ~ HasEffects(d)
    <3>1. UNCHANGED <<pc, current>>
      BY ONLY <1>2, <2>2
    <3>2. pc' = pc /\ candidate' = candidate /\ decision' = decision
      BY ONLY <3>1 DEF current
    <3>. QED  BY ONLY <2>2, <3>2
  <2>. QED  BY ONLY <2>1, <2>2
<1>11. EvaluatedOver(c, context, d)
  BY <1>2, <1>6, <1>7, <1>8, <1>9, <1>10, <1>12, <1>13 DEF EvaluatedOver
<1>. QED  BY <1>11, <1>12

\* Inputs that satisfy the rule do so in every set that holds them, in every state.
LEMMA QualifyingIsKept ==
  ASSUME condition' = condition, Handled' \subseteq Inputs,
         NEW M, M \in Qualifying(Handled \ Invalid)'
  PROVE  /\ M \subseteq Handled' \ Invalid /\ M \in Qualifying(Inputs)
         /\ \A S : M \subseteq S => M \in Qualifying(S)
<1>1. M \in (SUBSET (Handled' \ Invalid)) \ {{}}
  BY DEF Qualifying
<1>2. Fulfils(M)' /\ \A i, j \in M : Occurred[j] - Occurred[i] <= Window
  BY DEF Qualifying
<1>3. Fulfils(M)
  BY <1>2 DEF Fulfils, Stages
<1>. QED  BY <1>1, <1>2, <1>3 DEF Qualifying

\* Revisions keep the first deadline.
LEMMA TermsStayNew ==
  ASSUME EngineInv, TermsAreNew, [Next]_vars
  PROVE  TermsAreNew'
<1>. SUFFICES ASSUME NEW n \in incidentRows'
              PROVE  n.status = "new" /\ n.deadline = Deadline(Start(n.qualifying))
  BY DEF TermsAreNew
<1>1. n \in incidentRows \/ n \in decision.incident
  BY TablesGrow
<1>2. CASE n \in incidentRows
  BY <1>2 DEF TermsAreNew
<1>3. CASE n \in decision.incident
  <2>1. Opens(n) \/ \E p \in CommittedIncidents(incidentRows) : Extends(p, n)
    BY <1>3 DEF EngineInv, Sound
  <2>2. CASE Opens(n)
    BY <2>2 DEF Opens
  <2>3. ASSUME NEW p \in CommittedIncidents(incidentRows), Extends(p, n)
        PROVE  n.status = "new" /\ n.deadline = Deadline(Start(n.qualifying))
    <3>1. p.status = "new" /\ p.deadline = Deadline(Start(p.qualifying))
      BY DEF TermsAreNew, CommittedIncidents
    <3>. QED  BY <2>3, <3>1 DEF Extends, Precedes
  <2>. QED  BY <2>1, <2>2, <2>3
<1>. QED  BY <1>1, <1>2, <1>3

\* Inputs that lie in the interval of an incident that another of them lies in are
\* near that one.
LEMMA IntervalIsNear ==
  ASSUME NEW start \in Nat, NEW i \in Inputs, NEW j \in Inputs,
         InWindow(start, i), InWindow(start, j)
  PROVE  Near(Occurred[i], j)
<1>1. Occurred[i] \in Nat /\ Occurred[j] \in Nat /\ Window \in Nat
  BY TimesAreNatural, RuleAssumption
<1>. QED  BY <1>1 DEF InWindow, Near

\* What an evaluation changes of the page: the candidate is handled unless it fails,
\* and is kept if its decision shows it.
LEMMA EvaluationHandles ==
  ASSUME EngineInv, EvaluateCandidate,
         NEW c \in todo, NEW d,
         todo' = todo \ {c},
         stateless' = IF d.failed \/ HasEffects(d) THEN stateless ELSE stateless \cup {c},
         IF HasEffects(d)
         THEN pc' = "writeIncident" /\ candidate' = c /\ decision' = d
         ELSE UNCHANGED <<pc, candidate, decision>>
  PROVE  /\ pc \notin Persisting /\ pc' # "idle" /\ \A i : ~ Shows(decision, i)
         /\ Handled' \subseteq Handled \cup {c}
         /\ (Handled \cup todo)' \subseteq Handled \cup todo
         /\ d = Failed => Handled' \subseteq Handled
         /\ Shows(d, c) => candidate' = c /\ decision' = d
         /\ decision'.incident = {} \/ decision' = d
<1>1. /\ pc = "evaluate" /\ pc \notin Persisting /\ ledger' = ledger
      /\ candidate = 0 /\ decision = Stateless
  BY DEF EvaluateCandidate, Persisting, EngineInv, PageIsSplit
<1>2. Stateless.incident = {} /\ Stateless.episode = {}
  BY DEF Stateless
<1>3. d = Failed => d.failed /\ ~ HasEffects(d)
  BY DEF Failed, Stateless, HasEffects
<1>4. Shows(d, c) => HasEffects(d)
  BY DEF Shows, HasEffects
<1>. HIDE DEF HasEffects
<1>5. CASE HasEffects(d)
  <2>1. /\ pc' = "writeIncident" /\ candidate' = c /\ decision' = d /\ stateless' = stateless
        /\ d # Failed
    BY <1>3, <1>5
  <2>2. Handled = ledger \cup stateless /\ Handled' = ledger \cup stateless \cup {c}
    BY <1>1, <2>1 DEF Handled, Persisting
  <2>. QED  BY <1>1, <1>2, <2>1, <2>2 DEF Shows
<1>6. CASE ~ HasEffects(d)
  <2>1. pc' = pc /\ candidate' = candidate /\ decision' = decision
    BY <1>6
  <2>2. stateless' = IF d.failed THEN stateless ELSE stateless \cup {c}
    BY <1>6
  <2>3. Handled = ledger \cup stateless /\ Handled' = ledger \cup stateless'
    BY <1>1, <2>1 DEF Handled
  <2>. QED  BY <1>1, <1>2, <1>3, <1>4, <1>6, <2>1, <2>2, <2>3 DEF Shows
<1>. QED  BY <1>5, <1>6

\* The evaluation of a candidate notices the matches it completes, and takes it if it
\* is in time; an incident that it opens takes all that is handled or on the page.
LEMMA EvaluationIsComplete ==
  ASSUME EngineInv, EvidenceInv, QualifyingSatisfiesRule, CompletenessInv,
         [Next]_vars, EvaluateCandidate
  PROVE  CompletenessInv'
<1>0. PICK c \in todo, context \in SUBSET sources : \E d : EvaluatedOver(c, context, d)
  BY EvaluatedOverAll DEF CompletenessInv
<1>1. PICK d : EvaluatedOver(c, context, d)
  BY <1>0
<1>. USE DEF EvaluatedOver
<1>2. /\ pc \notin Persisting /\ pc' # "idle" /\ \A i : ~ Shows(decision, i)
      /\ Handled' \subseteq Handled \cup {c}
      /\ (Handled \cup todo)' \subseteq Handled \cup todo
      /\ d = Failed => Handled' \subseteq Handled
      /\ Shows(d, c) => candidate' = c /\ decision' = d
      /\ decision'.incident = {} \/ decision' = d
  BY <1>1, EvaluationHandles
<1>3. /\ CurrentIncidents' = CurrentIncidents /\ Linked' = Linked
      /\ condition' = condition /\ sources' = sources
  <2>1. ~ MarkEvaluated
    BY DEF MarkEvaluated, EvaluateCandidate
  <2>2. /\ Visible' = Visible /\ VisibleEpisodes' = VisibleEpisodes
        /\ Committed(linkRows)' = Committed(linkRows)
    BY <2>1, VisibleIsKept DEF EvidenceInv
  <2>. QED  BY <2>2, CurrentIsKept DEF EvaluateCandidate
<1>4. /\ c \in Inputs /\ c \in sources /\ c \notin ledger /\ context \in SUBSET Inputs
      /\ Handled \cup todo \subseteq sources /\ sources \subseteq Inputs
  BY DEF Handled, EngineInv, TypeOK, PageIsSplit, Persisting
<1>5. /\ \A i : Evident(i)' <=> Evident(i)
      /\ \A i : Kept(i) <=> Evident(i)
      /\ \A i : Evident(i) => Kept(i)'
      /\ Shows(d, c) => Kept(c)'
  BY <1>2, <1>3 DEF Kept, Evident, Shows
<1>6. ASSUME NEW r \in CurrentIncidents
      PROVE  /\ Start(r.qualifying) \in Nat
             /\ r.qualifying \in SUBSET (sources \ Invalid)
             /\ \A i \in r.qualifying : InWindow(Start(r.qualifying), i)
  <2>1. r.qualifying \in SUBSET (sources \ Invalid) /\ WellFormed(r)
    BY DEF CompletenessInv, TodoIsServed, EvidenceInv, Coherent
  <2>. QED  BY <1>4, <2>1, SomeInputs DEF WellFormed
<1>7. \A i \in sources \ Invalid : Near(Occurred[c], i) <=> i \in SourceWindow(c)
  BY DEF SourceWindow, Near
<1>8. TermsAreNew'
  BY TermsStayNew DEF CompletenessInv
<1>9. ContextsAreComplete'
  <2>. SUFFICES ASSUME NEW t \in DOMAIN contexts'
                PROVE  /\ contexts'[t] \cap Invalid = {}
                       /\ \A i \in (Handled \cup todo) \ Invalid : Near(t, i) => i \in contexts'[t]
    BY <1>2 DEF ContextsAreComplete, Near
  <2>1. CASE t \in DOMAIN contexts /\ contexts'[t] = contexts[t]
    BY <2>1 DEF CompletenessInv, ContextsAreComplete
  <2>2. CASE t = Occurred[c] /\ contexts'[t] = SourceWindow(c)
    <3>1. SourceWindow(c) \cap Invalid = {}
      BY DEF SourceWindow
    <3>. QED  BY <1>4, <1>7, <2>2, <3>1
  <2>. QED  BY <1>1, <2>1, <2>2
<1>10. OpeningIsComplete'
  <2>1. CASE decision'.incident = {}
    BY <2>1 DEF OpeningIsComplete
  <2>2. ASSUME decision' = d, NEW n \in d.incident, \A r \in CurrentIncidents : r.id # n.id
        PROVE  /\ n.qualifying \subseteq sources \ Invalid
               /\ ~ condition.derived =>
                    \A i \in (Handled \cup todo)' \ Invalid :
                      InWindow(Start(n.qualifying), i) /\ Observed[i] <= Deadline(Start(n.qualifying))
                        => i \in n.members
    <3>1. n.qualifying # {} /\ \A m \in d.incident : m = n
      <4>1. Sound(d, c)
        BY <1>1, <1>4, DecisionsAreSound
      <4>. QED  BY ONLY <4>1, n \in d.incident DEF Sound
    <3>2. /\ TakesContext(d, context)
          /\ InWindow(Start(n.qualifying), c) /\ n.qualifying \in SUBSET Inputs
      <4>1. \A m \in d.incident, r \in CurrentIncidents : r.id # m.id
        BY <2>2, <3>1
      <4>2. /\ TakesContext(d, context)
            /\ \A m \in d.incident :
                 InWindow(Start(m.qualifying), c) /\ m.qualifying \in SUBSET Inputs
        BY <1>1, <1>2, <1>4, <4>1, DecisionTakesContext DEF EvidenceInv
      <4>. QED  BY <4>2
    <3>3. n.qualifying \subseteq context \ Invalid /\ c \notin Invalid
      <4>1. d # Failed /\ d # Stateless
        BY <2>2 DEF Failed, Stateless
      <4>2. c \notin Invalid /\ context \cap Invalid = {}
        BY <1>1, <4>1
      <4>. QED  BY <3>2, <4>2 DEF TakesContext
    <3>4. ASSUME ~ condition.derived, NEW i \in (Handled \cup todo) \ Invalid,
                 InWindow(Start(n.qualifying), i), Observed[i] <= Deadline(Start(n.qualifying))
          PROVE  i \in n.members
      <4>1. Start(n.qualifying) \in Nat /\ i \in Inputs
        BY <1>4, <3>1, <3>2, SomeInputs
      <4>2. Near(Occurred[c], i)
        BY <1>4, <3>2, <3>4, <4>1, IntervalIsNear
      <4>3. i \in context
        BY <1>1, <3>3, <4>2
      <4>. QED  BY <3>2, <3>4, <4>3 DEF TakesContext
    <3>. QED  BY <1>2, <3>3, <3>4
  <2>3. CASE decision' = d
    BY <1>3, <2>2, <2>3 DEF OpeningIsComplete
  <2>. QED  BY <1>2, <2>1, <2>3
<1>11. TodoIsServed'
  <2>. SUFFICES ASSUME NEW r \in CurrentIncidents
                PROVE  /\ r.qualifying \subseteq sources \ Invalid
                       /\ ~ condition.derived =>
                            \A i \in todo' \ Invalid : Timely(r, i) =>
                              \/ Evident(i)
                              \/ Occurred[i] \in DOMAIN contexts'
                                   => r.qualifying \subseteq contexts'[Occurred[i]]
    BY <1>3, <1>5 DEF TodoIsServed, Timely
  <2>1. r.qualifying \subseteq sources \ Invalid
    BY <1>6
  <2>2. ASSUME ~ condition.derived, NEW i \in todo' \ Invalid, Timely(r, i), ~ Evident(i),
               Occurred[i] \in DOMAIN contexts'
        PROVE  r.qualifying \subseteq contexts'[Occurred[i]]
    <3>1. i \in todo \ Invalid /\ i \in Inputs
      BY <1>1, <1>4
    <3>2. CASE Occurred[i] \in DOMAIN contexts /\ contexts'[Occurred[i]] = contexts[Occurred[i]]
      BY <2>2, <3>1, <3>2 DEF CompletenessInv, TodoIsServed
    <3>3. CASE Occurred[i] = Occurred[c] /\ contexts'[Occurred[i]] = SourceWindow(c)
      <4>1. ASSUME NEW j \in r.qualifying PROVE Near(Occurred[c], j)
        <5>1. InWindow(Start(r.qualifying), i)
          BY <2>2 DEF Timely
        <5>2. /\ j \in Inputs /\ InWindow(Start(r.qualifying), j)
              /\ Start(r.qualifying) \in Nat
          BY <1>4, <1>6
        <5>3. Near(Occurred[i], j)
          BY <3>1, <5>1, <5>2, IntervalIsNear
        <5>. QED  BY <3>3, <5>3
      <4>. QED  BY <1>7, <2>1, <3>3, <4>1
    <3>. QED  BY <1>1, <2>2, <3>2, <3>3
  <2>. QED  BY <2>1, <2>2
<1>12. ASSUME c \in Handled', c \notin Handled, c \notin Invalid,
              LET S == LoadedEpisodes(c)
              IN  Options(c, context, S,
                          {r \in CurrentIncidents : \E s \in Owning(S) : s.incident = r.id}) # {}
       PROVE  Kept(c)'
  <2>1. PICK S : S = LoadedEpisodes(c)
    OBVIOUS
  <2>2. PICK rows : rows = {r \in CurrentIncidents : \E s \in Owning(S) : s.incident = r.id}
    OBVIOUS
  <2>3. Options(c, context, S, rows) # {}
    BY <1>12, <2>1, <2>2
  <2>4. d = Failed \/ Evident(c) \/ Shows(d, c)
    BY <1>1, <1>2, <1>4, <1>12, <2>1, <2>2, <2>3, OptionIsNoticed DEF CompletenessInv
  <2>. QED  BY <1>2, <1>5, <1>12, <2>4
<1>13. EvidenceIsTaken'
  <2>. SUFFICES ASSUME NEW i \in Handled', i \notin Invalid, condition.kind = "threshold",
                       i \in condition.stages[1].select,
                       \E r \in CurrentIncidents : Timely(r, i), ~ Entangled(i)
                PROVE  Kept(i)'
    BY <1>3 DEF EvidenceIsTaken, Timely, Entangled, Around
  <2>1. CASE i \in Handled
    <3>1. Kept(i)
      BY <2>1 DEF CompletenessInv, EvidenceIsTaken
    <3>. QED  BY <1>5, <3>1
  <2>2. CASE Evident(i)
    BY <1>5, <2>2
  <2>3. CASE i \notin Handled /\ ~ Evident(i)
    <3>1. i = c /\ c \in context
      <4>1. i = c
        BY <1>2, <2>3
      <4>2. Near(Occurred[c], c)
        BY <1>4, TimesAreNatural, RuleAssumption DEF Near
      <4>. QED  BY <1>1, <4>1, <4>2
    <3>2. PICK S : S = LoadedEpisodes(c)
      OBVIOUS
    <3>3. PICK rows : rows = {r \in CurrentIncidents : \E s \in Owning(S) : s.incident = r.id}
      OBVIOUS
    <3>4. ~ condition.derived
      BY RuleAssumption DEF EngineInv, TypeOK
    <3>5. \A r \in CurrentIncidents : Timely(r, c) => r.qualifying \subseteq context
      BY <1>1, <2>3, <3>1, <3>4
    <3>6. Options(c, context, S, rows) # {}
      BY <1>2, <1>4, <2>3, <3>1, <3>2, <3>3, <3>5, TimelyIsOption DEF CompletenessInv
    <3>. QED  BY <1>12, <2>3, <3>1, <3>2, <3>3, <3>6
  <2>. QED  BY <2>1, <2>2, <2>3
<1>14. MatchesAreNoticed'
  <2>. SUFFICES ASSUME ~ condition.derived, NEW M, M \in Qualifying(Handled \ Invalid)',
                       \A i \in M : Observed[i] <= Deadline(Start(M)), ~ ComesLate(M),
                       \A i \in M : ~ Evident(i)
                PROVE  \E i \in M : Kept(i)'
    BY <1>3, <1>5 DEF MatchesAreNoticed, ComesLate
  <2>1. /\ M \subseteq Handled' \ Invalid /\ M \in Qualifying(Inputs)
        /\ \A S : M \subseteq S => M \in Qualifying(S)
    <3>1. Handled' \subseteq Inputs
      BY <1>2, <1>4
    <3>. QED  BY <1>3, <3>1, QualifyingIsKept
  <2>2. c \in M /\ c \notin Handled
    <3>1. ASSUME M \subseteq Handled \ Invalid PROVE FALSE
      <4>1. M \in Qualifying(Handled \ Invalid)
        BY <2>1, <3>1
      <4>2. \E i \in M : Kept(i)
        BY <4>1 DEF CompletenessInv, MatchesAreNoticed
      <4>. QED  BY <1>5, <4>2
    <3>. QED  BY <1>2, <2>1, <3>1
  <2>3. M \subseteq context /\ c \notin Invalid
    <3>0. c \notin Invalid
      BY <2>1, <2>2
    <3>. SUFFICES ASSUME NEW i \in M PROVE i \in context
      BY <3>0
    <3>1. Occurred[i] - Occurred[c] <= Window /\ Occurred[c] - Occurred[i] <= Window
      BY <2>1, <2>2 DEF Qualifying
    <3>2. i \in (Handled \cup todo) \ Invalid /\ i \in Inputs
      BY <1>2, <1>4, <2>1
    <3>3. Near(Occurred[c], i)
      <4>1. Occurred[i] \in Nat /\ Occurred[c] \in Nat /\ Window \in Nat
        BY <1>4, <3>2, TimesAreNatural, RuleAssumption
      <4>. QED  BY <3>1, <4>1 DEF Near
    <3>. QED  BY <1>1, <3>0, <3>2, <3>3
  <2>4. PICK S : S = LoadedEpisodes(c)
    OBVIOUS
  <2>5. PICK rows : rows = {r \in CurrentIncidents : \E s \in Owning(S) : s.incident = r.id}
    OBVIOUS
  <2>6. Options(c, context, S, rows) # {}
    BY <1>2, <1>4, <2>1, <2>2, <2>3, <2>4, <2>5, MatchIsOption DEF CompletenessInv
  <2>. QED  BY <1>12, <2>1, <2>2, <2>4, <2>5, <2>6
<1>. QED  BY <1>8, <1>9, <1>10, <1>11, <1>13, <1>14 DEF CompletenessInv

(***************************************************************************)
(* Steps that evaluate and show nothing                                    *)
(***************************************************************************)
\* They handle no further input. A page begins and ends without contexts, and keeps
\* its candidates otherwise; a decision that is given up leaves its candidate unhandled.
LEMMA PageIsKept ==
  ASSUME EngineInv, ContextsAreComplete, [Next]_vars, ~ MarkEvaluated, ~ EvaluateCandidate
  PROVE  /\ Handled' \subseteq Handled /\ sources \subseteq sources'
         /\ pc' = "idle" => contexts' = <<>>
         /\ \/ contexts' = <<>>
            \/ /\ contexts' = contexts /\ todo' \subseteq todo
               /\ (Handled \cup todo)' \subseteq Handled \cup todo
         /\ \/ /\ decision' = decision /\ candidate' = candidate
               /\ (Handled \cup todo)' \subseteq Handled \cup todo
            \/ decision' = Stateless /\ candidate \notin Handled'
<1>. USE DEF Handled, Persisting
<1>1. /\ pc \notin Persisting => candidate = 0 /\ decision = Stateless
      /\ pc \in Persisting => candidate \notin ledger \cup stateless
      /\ 0 \notin ledger \cup stateless
      /\ pc = "idle" => stateless = {} /\ contexts = <<>>
  BY TimesAreNatural DEF EngineInv, PageIsSplit, TypeOK, ContextsAreComplete
<1>2. CASE \E i \in Inputs : Arrive(i)
  BY <1>1, <1>2 DEF Arrive
<1>3. CASE FetchCandidates
  BY <1>1, <1>3 DEF FetchCandidates
<1>4. CASE WriteIncident \/ WriteDetectionLinks \/ WriteEventLinks \/ WriteEpisodeState
  BY <1>1, <1>4 DEF WriteIncident, WriteDetectionLinks, WriteEventLinks, WriteEpisodeState, Goto
<1>5. CASE PersistenceConflict
  BY <1>1, <1>5 DEF PersistenceConflict, NextCandidate, Refused
<1>6. CASE MarkStateless
  BY <1>1, <1>6 DEF MarkStateless, Goto
<1>7. CASE SaveSchedule
  BY <1>1, <1>7 DEF SaveSchedule, EndCycle
<1>8. CASE Crash
  BY <1>1, <1>8 DEF Crash, EndCycle
<1>9. CASE UNCHANGED vars
  BY <1>1, <1>9
<1>. QED  BY <1>2, <1>3, <1>4, <1>5, <1>6, <1>7, <1>8, <1>9 DEF Next, Cycle, Persist

\* They keep what is complete.
LEMMA QuietIsComplete ==
  ASSUME EngineInv, EvidenceInv, CompletenessInv,
         [Next]_vars, ~ MarkEvaluated, ~ EvaluateCandidate
  PROVE  CompletenessInv'
<1>1. /\ Handled' \subseteq Handled /\ sources \subseteq sources'
      /\ pc' = "idle" => contexts' = <<>>
      /\ \/ contexts' = <<>>
         \/ /\ contexts' = contexts /\ todo' \subseteq todo
            /\ (Handled \cup todo)' \subseteq Handled \cup todo
      /\ \/ /\ decision' = decision /\ candidate' = candidate
            /\ (Handled \cup todo)' \subseteq Handled \cup todo
         \/ decision' = Stateless /\ candidate \notin Handled'
  BY PageIsKept DEF CompletenessInv
<1>2. /\ CurrentIncidents' = CurrentIncidents /\ Linked' = Linked /\ condition' = condition
  <2>1. /\ Visible' = Visible /\ VisibleEpisodes' = VisibleEpisodes
        /\ Committed(linkRows)' = Committed(linkRows)
    BY VisibleIsKept DEF EvidenceInv
  <2>. QED  BY <2>1, CurrentIsKept, TablesGrow
<1>3. \A i : Evident(i)' <=> Evident(i)
  BY <1>2 DEF Evident
<1>4. ASSUME NEW i \in Handled', Kept(i) PROVE Kept(i)'
  <2>1. CASE Evident(i)
    BY <1>3, <2>1 DEF Kept
  <2>2. CASE i = candidate /\ Shows(decision, i)
    BY <1>1, <2>2 DEF Kept, Shows
  <2>. QED  BY <1>4, <2>1, <2>2 DEF Kept
<1>5. TermsAreNew'
  BY TermsStayNew DEF CompletenessInv
<1>6. ContextsAreComplete'
  <2>1. CASE contexts' = <<>>
    BY <2>1 DEF ContextsAreComplete
  <2>2. CASE contexts' = contexts /\ (Handled \cup todo)' \subseteq Handled \cup todo
    BY <1>1, <2>2 DEF CompletenessInv, ContextsAreComplete, Near
  <2>. QED  BY <1>1, <2>1, <2>2
<1>7. OpeningIsComplete'
  <2>1. CASE decision' = Stateless
    BY <2>1 DEF OpeningIsComplete, Stateless
  <2>2. CASE decision' = decision /\ (Handled \cup todo)' \subseteq Handled \cup todo
    BY <1>1, <1>2, <2>2 DEF CompletenessInv, OpeningIsComplete
  <2>. QED  BY <1>1, <2>1, <2>2
<1>8. TodoIsServed'
  <2>1. \A r \in CurrentIncidents : r.qualifying \subseteq sources' \ Invalid
    BY <1>1 DEF CompletenessInv, TodoIsServed
  <2>2. ASSUME NEW r \in CurrentIncidents, ~ condition.derived, NEW i \in todo' \ Invalid,
               Timely(r, i), ~ Evident(i), Occurred[i] \in DOMAIN contexts'
        PROVE  r.qualifying \subseteq contexts'[Occurred[i]]
    <3>1. CASE contexts' = <<>>
      BY <2>2, <3>1
    <3>2. CASE contexts' = contexts /\ todo' \subseteq todo
      BY <2>2, <3>2 DEF CompletenessInv, TodoIsServed
    <3>. QED  BY <1>1, <3>1, <3>2
  <2>. QED  BY <1>2, <1>3, <2>1, <2>2 DEF TodoIsServed, Timely
<1>9. EvidenceIsTaken'
  <2>. SUFFICES ASSUME NEW i \in Handled', i \notin Invalid, condition.kind = "threshold",
                       i \in condition.stages[1].select,
                       \E r \in CurrentIncidents : Timely(r, i), ~ Entangled(i)
                PROVE  Kept(i)'
    BY <1>2 DEF EvidenceIsTaken, Timely, Entangled, Around
  <2>1. Kept(i)
    BY <1>1 DEF CompletenessInv, EvidenceIsTaken
  <2>. QED  BY <1>4, <2>1
<1>10. MatchesAreNoticed'
  <2>. SUFFICES ASSUME ~ condition.derived, NEW M, M \in Qualifying(Handled \ Invalid)',
                       \A i \in M : Observed[i] <= Deadline(Start(M)), ~ ComesLate(M)
                PROVE  \E i \in M : Kept(i)'
    BY <1>2 DEF MatchesAreNoticed, ComesLate
  <2>1. M \subseteq Handled' \ Invalid /\ M \in Qualifying(Handled \ Invalid)
    <3>1. Handled' \subseteq Inputs
      BY <1>1 DEF Handled, EngineInv, TypeOK, PageIsSplit, Persisting
    <3>2. /\ M \subseteq Handled' \ Invalid
          /\ \A S : M \subseteq S => M \in Qualifying(S)
      BY <1>2, <3>1, QualifyingIsKept
    <3>. QED  BY <1>1, <3>2
  <2>2. \E i \in M : Kept(i)
    BY <2>1 DEF CompletenessInv, MatchesAreNoticed
  <2>. QED  BY <1>4, <2>1, <2>2
<1>. QED  BY <1>5, <1>6, <1>7, <1>8, <1>9, <1>10 DEF CompletenessInv

(***************************************************************************)
(* The step that makes a decision visible                                  *)
(***************************************************************************)
\* r is not lost, and its evidence neither.
Survives(r) ==
  \E q \in CurrentIncidents' :
    q.id = r.id /\ q.qualifying = r.qualifying /\ r.members \subseteq q.members
\* q was visible already, or is opened now.
WasVisible(q) == \E r \in CurrentIncidents : q.id = r.id /\ q.qualifying = r.qualifying
IsOpened(q) ==
  /\ q \in decision.incident /\ \A r \in CurrentIncidents : r.id # q.id
  /\ q.id \in Inputs /\ Linked'[q.id] = q.members

LEMMA MarkShowsEvidence ==
  ASSUME EngineInv, EvidenceInv, NothingIsLeftBehind', MarkEvaluated
  PROVE  /\ \A r \in CurrentIncidents : Survives(r)
         /\ \A q \in CurrentIncidents' : WasVisible(q) \/ IsOpened(q)
         /\ \A x \in Inputs : Linked[x] \subseteq Linked'[x]
         /\ \A i : i = candidate /\ Shows(decision, i) => Evident(i)'
<1>1. \/ Ignores(decision, candidate)
      \/ OpensOne(decision, candidate)
      \/ EnrichesOne(decision, candidate)
  BY DEF MarkEvaluated, Persisting, EvidenceInv, FollowsVisible
<1>2. \A r \in CurrentIncidents : r.id \in Inputs /\ r.members = Linked[r.id]
  BY DEF CurrentIncidents, Latest, CommittedIncidents, EngineInv, TypeOK, IncidentRow,
         EvidenceInv, Coherent
<1>3. CASE Ignores(decision, candidate)
  <2>1. CurrentIncidents' = CurrentIncidents /\ \A x \in Inputs : Linked'[x] = Linked[x]
    BY <1>3, MarkIgnores
  <2>2. \A i : ~ Shows(decision, i)
    BY <1>3 DEF Ignores, Shows
  <2>. QED  BY <2>1, <2>2 DEF Survives, WasVisible
<1>4. CASE OpensOne(decision, candidate)
  <2>1. PICK n \in decision.incident :
          /\ CurrentIncidents' = CurrentIncidents \cup {n}
          /\ \A x \in Inputs : Linked'[x] = IF x = n.id THEN n.members ELSE Linked[x]
          /\ candidate \in n.members
          /\ n.id \in Inputs /\ \A r \in CurrentIncidents : r.id # n.id
    BY <1>4, MarkOpens
  <2>2. Linked'[n.id] = n.members
    BY <2>1
  <2>3. \A i : i = candidate => Evident(i)'
    BY <2>1, <2>2 DEF Evident
  <2>4. Linked[n.id] = {}
    BY <2>1 DEF EvidenceInv, Coherent
  <2>5. \A x \in Inputs : Linked[x] \subseteq Linked'[x]
    BY <2>1, <2>4
  <2>6. \A r \in CurrentIncidents : Survives(r)
    BY <2>1 DEF Survives
  <2>7. \A q \in CurrentIncidents' : WasVisible(q) \/ IsOpened(q)
    BY <2>1, <2>2 DEF WasVisible, IsOpened
  <2>. QED  BY <2>3, <2>5, <2>6, <2>7
<1>5. CASE EnrichesOne(decision, candidate)
  <2>1. PICK r \in CurrentIncidents, n \in incidentRows :
          /\ CurrentIncidents' = (CurrentIncidents \ {r}) \cup {n}
          /\ \A x \in Inputs : Linked'[x] = IF x = r.id THEN n.members ELSE Linked[x]
          /\ n.id = r.id /\ n.qualifying = r.qualifying
          /\ r.members \subseteq n.members /\ candidate \in n.members
    BY <1>5, MarkEnriches
  <2>2. Linked'[r.id] = n.members /\ r.id \in Inputs /\ Linked[r.id] = r.members
    BY <1>2, <2>1
  <2>3. \A i : i = candidate => Evident(i)'
    BY <2>1, <2>2 DEF Evident
  <2>4. \A x \in Inputs : Linked[x] \subseteq Linked'[x]
    BY <2>1, <2>2
  <2>5. \A q \in CurrentIncidents : Survives(q)
    BY <2>1 DEF Survives
  <2>6. \A q \in CurrentIncidents' : WasVisible(q) \/ IsOpened(q)
    BY <2>1 DEF WasVisible
  <2>. QED  BY <2>3, <2>4, <2>5, <2>6
<1>. QED  BY <1>1, <1>3, <1>4, <1>5

\* An incident that is opened took what is in time for it, and one that is enriched
\* keeps its interval and its deadline.
LEMMA MarkIsComplete ==
  ASSUME EngineInv, EvidenceInv, CompletenessInv, NothingIsLeftBehind',
         [Next]_vars, MarkEvaluated
  PROVE  CompletenessInv'
<1>1. /\ Handled' = Handled /\ Handled \subseteq Inputs
      /\ UNCHANGED <<condition, sources, incidentRows, contexts, todo>>
      /\ decision' = Stateless /\ pc' # "idle"
  BY DEF MarkEvaluated, NextCandidate, Handled, Persisting, EngineInv, PageIsSplit, TypeOK
<1>2. /\ \A r \in CurrentIncidents : Survives(r)
      /\ \A q \in CurrentIncidents' : WasVisible(q) \/ IsOpened(q)
      /\ \A x \in Inputs : Linked[x] \subseteq Linked'[x]
      /\ \A i : i = candidate /\ Shows(decision, i) => Evident(i)'
  BY MarkShowsEvidence
<1>3. \A i : Kept(i) => Evident(i)'
  BY <1>2 DEF Kept, Evident
<1>4. \A i : Evident(i) => Evident(i)'
  BY <1>2 DEF Evident
<1>5. \A i : Evident(i)' => Kept(i)'
  BY DEF Kept
<1>6. TermsAreNew'
  BY TermsStayNew DEF CompletenessInv
<1>7. /\ \A r \in CurrentIncidents : r.deadline = Deadline(Start(r.qualifying))
      /\ \A q \in CurrentIncidents' : q.deadline = Deadline(Start(q.qualifying))
  <2>1. \A r \in incidentRows : r.deadline = Deadline(Start(r.qualifying))
    BY DEF CompletenessInv, TermsAreNew
  <2>2. CurrentIncidents \subseteq incidentRows /\ CurrentIncidents' \subseteq incidentRows'
    BY DEF CurrentIncidents, Latest, CommittedIncidents
  <2>. QED  BY <1>1, <2>1, <2>2
<1>8. ASSUME NEW q \in CurrentIncidents', ~ condition.derived,
             NEW i \in (Handled \cup todo) \ Invalid, Timely(q, i)
      PROVE  \/ Evident(i)'
             \/ \E r \in CurrentIncidents : Timely(r, i) /\ q.qualifying = r.qualifying
  <2>1. CASE WasVisible(q)
    BY <1>7, <1>8, <2>1 DEF WasVisible, Timely
  <2>2. CASE IsOpened(q)
    <3>1. i \in q.members
      BY <1>7, <1>8, <2>2 DEF IsOpened, Timely, CompletenessInv, OpeningIsComplete
    <3>. QED  BY <2>2, <3>1 DEF IsOpened, Evident
  <2>. QED  BY <1>2, <2>1, <2>2
<1>9. ContextsAreComplete'
  BY <1>1 DEF CompletenessInv, ContextsAreComplete, Near
<1>10. OpeningIsComplete'
  BY <1>1 DEF OpeningIsComplete, Stateless
<1>11. TodoIsServed'
  <2>1. \A q \in CurrentIncidents' : q.qualifying \subseteq sources \ Invalid
    BY <1>2 DEF WasVisible, IsOpened, CompletenessInv, TodoIsServed, OpeningIsComplete
  <2>2. ASSUME NEW q \in CurrentIncidents', ~ condition.derived,
               NEW i \in todo \ Invalid, Timely(q, i)
        PROVE  \/ Evident(i)'
               \/ Occurred[i] \in DOMAIN contexts => q.qualifying \subseteq contexts[Occurred[i]]
    <3>1. CASE Evident(i)'
      BY <3>1
    <3>2. ASSUME NEW r \in CurrentIncidents, Timely(r, i), q.qualifying = r.qualifying
          PROVE  \/ Evident(i)
                 \/ Occurred[i] \in DOMAIN contexts => q.qualifying \subseteq contexts[Occurred[i]]
      BY <2>2, <3>2 DEF CompletenessInv, TodoIsServed
    <3>. QED  BY <1>4, <1>8, <2>2, <3>1, <3>2
  <2>. QED  BY <1>1, <2>1, <2>2 DEF TodoIsServed, Timely
<1>12. \A i : Entangled(i) => Entangled(i)'
  <2>. SUFFICES ASSUME NEW i, NEW r \in CurrentIncidents, InWindow(Start(r.qualifying), i),
                       NEW q \in CurrentIncidents, r # q, r.qualifying \cap q.members # {}
                PROVE  \E s, t \in CurrentIncidents' :
                         /\ InWindow(Start(s.qualifying), i)
                         /\ s # t /\ s.qualifying \cap t.members # {}
    BY DEF Entangled, Around
  <2>1. PICK s \in CurrentIncidents' : s.id = r.id /\ s.qualifying = r.qualifying
    BY <1>2 DEF Survives
  <2>2. PICK t \in CurrentIncidents' : t.id = q.id /\ q.members \subseteq t.members
    BY <1>2 DEF Survives
  <2>3. r.id # q.id
    BY OneRowIsVisible DEF EngineInv
  <2>. QED  BY <2>1, <2>2, <2>3
<1>13. EvidenceIsTaken'
  <2>. SUFFICES ASSUME NEW i \in Handled, i \notin Invalid, condition.kind = "threshold",
                       i \in condition.stages[1].select,
                       NEW q \in CurrentIncidents', Timely(q, i), ~ Entangled(i)
                PROVE  Evident(i)'
    BY <1>1, <1>5, <1>12 DEF EvidenceIsTaken, Timely
  <2>1. ~ condition.derived
    BY RuleAssumption DEF EngineInv, TypeOK
  <2>2. ASSUME NEW r \in CurrentIncidents, Timely(r, i) PROVE Kept(i)
    BY <2>2 DEF CompletenessInv, EvidenceIsTaken
  <2>. QED  BY <1>3, <1>8, <2>1, <2>2
<1>14. MatchesAreNoticed'
  <2>. SUFFICES ASSUME ~ condition.derived, NEW M, M \in Qualifying(Handled \ Invalid)',
                       \A i \in M : Observed[i] <= Deadline(Start(M))
                PROVE  (\E i \in M : Evident(i)') \/ ComesLate(M)'
    BY <1>1, <1>5 DEF MatchesAreNoticed
  <2>1. M \in Qualifying(Handled \ Invalid)
    <3>1. Handled' \subseteq Inputs
      BY <1>1
    <3>2. /\ M \subseteq Handled' \ Invalid
          /\ \A S : M \subseteq S => M \in Qualifying(S)
      BY <1>1, <3>1, QualifyingIsKept
    <3>. QED  BY <1>1, <3>2
  <2>2. (\E i \in M : Kept(i)) \/ ComesLate(M)
    BY <2>1 DEF CompletenessInv, MatchesAreNoticed
  <2>3. ASSUME ComesLate(M) PROVE ComesLate(M)'
    <3>1. PICK r \in CurrentIncidents, i \in M, j \in M :
            InWindow(Start(r.qualifying), i) /\ Observed[j] > r.deadline
      BY <2>3 DEF ComesLate
    <3>2. PICK q \in CurrentIncidents' : q.qualifying = r.qualifying
      BY <1>2 DEF Survives
    <3>3. q.deadline = r.deadline
      BY <1>7, <3>2
    <3>. QED  BY <3>1, <3>2, <3>3 DEF ComesLate
  <2>. QED  BY <1>3, <2>2, <2>3
<1>. QED  BY <1>6, <1>9, <1>10, <1>11, <1>13, <1>14 DEF CompletenessInv

\* Every step keeps what is complete, as long as nothing is left behind.
LEMMA CompletenessIsKept ==
  ASSUME EngineInv, EvidenceInv, QualifyingSatisfiesRule, CompletenessInv,
         NothingIsLeftBehind', [Next]_vars
  PROVE  CompletenessInv'
  BY EvaluationIsComplete, MarkIsComplete, QuietIsComplete

\* Nothing is handled or visible yet.
LEMMA InitialCompleteness == Init => CompletenessInv
<1>. SUFFICES ASSUME Init PROVE CompletenessInv
  OBVIOUS
<1>1. /\ incidentRows = {} /\ ledger = {} /\ todo = {} /\ stateless = {} /\ contexts = <<>>
      /\ pc = "idle" /\ decision = Stateless
  BY DEF Init, IdleLocals
<1>2. CurrentIncidents = {} /\ Handled = {} /\ Qualifying(Handled \ Invalid) = {}
  BY <1>1 DEF CurrentIncidents, CommittedIncidents, Latest, Handled, Persisting, Qualifying
<1>3. TermsAreNew /\ ContextsAreComplete /\ OpeningIsComplete
  BY <1>1 DEF TermsAreNew, ContextsAreComplete, OpeningIsComplete, Stateless
<1>4. TodoIsServed /\ EvidenceIsTaken /\ MatchesAreNoticed
  BY <1>2 DEF TodoIsServed, EvidenceIsTaken, MatchesAreNoticed
<1>. QED  BY <1>3, <1>4 DEF CompletenessInv

\* What the invariant says of the evaluated inputs, whose decisions are visible.
LEMMA CompleteMeansKept ==
  EngineInv /\ CompletenessInv => TimelyEvidenceIsKept /\ NoMissedMatch
<1>. SUFFICES ASSUME EngineInv, CompletenessInv PROVE TimelyEvidenceIsKept /\ NoMissedMatch
  OBVIOUS
<1>1. ledger \subseteq Handled
  BY DEF Handled
<1>2. ASSUME NEW i \in ledger, Kept(i) PROVE Evident(i)
  <2>1. candidate \notin ledger
    BY TimesAreNatural DEF EngineInv, TypeOK
  <2>. QED  BY <1>2, <2>1 DEF Kept
<1>3. TimelyEvidenceIsKept
  <2>. SUFFICES ASSUME NEW i \in ledger \ Invalid, condition.kind = "threshold",
                       i \in condition.stages[1].select,
                       \E r \in Around(i) : Observed[i] <= r.deadline,
                       \A r \in Around(i), q \in CurrentIncidents :
                         r # q => r.qualifying \cap q.members = {}
                PROVE  Evident(i)
    BY DEF TimelyEvidenceIsKept, Evident
  <2>1. (\E r \in CurrentIncidents : Timely(r, i)) /\ ~ Entangled(i)
    BY DEF Timely, Around, Entangled
  <2>2. Kept(i)
    BY <1>1, <2>1 DEF CompletenessInv, EvidenceIsTaken
  <2>. QED  BY <1>2, <2>2
<1>4. NoMissedMatch
  <2>. SUFFICES ASSUME ~ condition.derived, NEW M \in Qualifying(ledger \ Invalid),
                       \A i \in M : Observed[i] <= Deadline(Start(M))
                PROVE  (\E i \in M : Evident(i)) \/ ComesLate(M)
    BY DEF NoMissedMatch, Evident, ComesLate
  <2>1. M \subseteq ledger /\ M \in Qualifying(Handled \ Invalid)
    BY <1>1 DEF Qualifying
  <2>2. (\E i \in M : Kept(i)) \/ ComesLate(M)
    BY <2>1 DEF CompletenessInv, MatchesAreNoticed
  <2>. QED  BY <1>2, <2>1, <2>2
<1>. QED  BY <1>3, <1>4

(***************************************************************************)
(* When rows are left behind                                               *)
(***************************************************************************)
\* Without transitions all rows carry tokens of inputs; the links of a decision are new.
TokensAreInputs == \A r \in incidentRows : r.token \in Inputs
LinksAreNew == decision.links \cap Linked[decision.anchor] = {}

\* A match adds links that are not visible yet.
LEMMA MatchAddsLinks ==
  ASSUME NEW c, NEW context, NEW S, NEW rows, NEW linked, NEW raw, NEW o,
         NEW d, d = MatchDecision(c, context, S, rows, linked, raw, o)
  PROVE  d.links \cap linked[d.anchor] = {}
<1>. DEFINE state      == IF o.owner # {} THEN o.owner
                          ELSE Nearest(c, {s \in Partial(S) : Covers(s, c)})
            held       == Owning(state)
            anchor     == IF held # {} THEN The(held).incident ELSE Max(o.match.members)
            old        == {r \in rows : r.id = anchor}
            known      == held # {} \/ old # {}
            confirmed  == IF known THEN linked[anchor] ELSE {}
            qualifying == IF old # {} THEN UNION {r.qualifying : r \in old} ELSE o.match.members
            start      == IF held # {} THEN The(held).start ELSE Start(qualifying)
            terms      == TermsOf(old, start)
            owned      == context \cap UNION {s.owned : s \in state}
            approved   == IF condition.derived THEN Evidence(o.match) ELSE context
            members    == MembersOf(start, terms, confirmed, owned, approved)
<1>1. Failed.links = {} /\ Stateless.links = {}
  BY DEF Failed, Stateless
<1>2. \/ d = Failed \/ d = Stateless
      \/ d.anchor = anchor /\ d.links = members \ linked[anchor]
  BY DEF MatchDecision
<1>. HIDE DEF anchor, members
<1>. QED  BY <1>1, <1>2

\* So does an evaluation.
LEMMA EvaluationAddsLinks ==
  ASSUME NEW c, NEW context, NEW d, d = Decide(c, context)
  PROVE  d.links \cap Linked[d.anchor] = {}
<1>1. PICK S : S = LoadedEpisodes(c)
  OBVIOUS
<1>2. PICK rows : rows = {r \in CurrentIncidents : \E s \in Owning(S) : s.incident = r.id}
  OBVIOUS
<1>3. Failed.links = {} /\ Stateless.links = {}
  BY DEF Failed, Stateless
<1>4. d = Failed \/ d = Evaluate(c, context, S, rows, Linked, incidentRows)
  BY <1>1, <1>2 DEF Decide
<1>5. \/ d = Failed \/ d = Stateless
      \/ d = PartialDecision(c, context, S)
      \/ \E o : d = MatchDecision(c, context, S, rows, Linked, incidentRows, o)
  BY <1>4 DEF Evaluate
<1>6. PartialDecision(c, context, S).links = {}
  <2>1. \A X : [Stateless EXCEPT !.episode = X].links = {}
    BY DEF Stateless
  <2>. QED  BY <1>3, <2>1 DEF PartialDecision
<1>. QED  BY <1>3, <1>5, <1>6, MatchAddsLinks

\* What a write finds contradicts it only if it is the first revision of an episode
\* whose name another episode has.
LEMMA OnlyNamesAreTaken ==
  ASSUME EngineInv, EvidenceInv, TokensAreInputs, LinksAreNew, Refused
  PROVE  /\ pc = "writeEpisode" /\ Conflicts(episodeRows, decision.episode)
         /\ \E e \in decision.episode, q \in VisibleEpisodes :
              /\ decision.episode = {e} /\ q.id = e.id
              /\ q.revision = 1 /\ e.revision = 1
<1>1. /\ pc \in Persisting /\ candidate \in Inputs \ ledger
      /\ \A r \in incidentRows : r.token \in ledger \/ r \in decision.incident
      /\ \A l \in linkRows : l.token \in ledger \/ l \in LinksOf(decision)
      /\ \A e \in episodeRows : e.token \in ledger \/ e \in decision.episode
      /\ \A n \in decision.incident : n.token = candidate /\ \A m \in decision.incident : m = n
      /\ \/ Ignores(decision, candidate)
         \/ OpensOne(decision, candidate)
         \/ EnrichesOne(decision, candidate)
  <2>1. pc \in Persisting
    BY DEF Refused, Persisting
  <2>. QED  BY <2>1 DEF EngineInv, TypeOK, PageIsSplit, Sound, EvidenceInv, Clean, TokensAreInputs,
                FollowsVisible
<1>2. ASSUME NEW n \in decision.incident, NEW q \in Rivals(incidentRows, n) \ {n}
      PROVE  FALSE
  <2>1. /\ q \in incidentRows /\ q.id = n.id /\ q # n
        /\ q.revision = n.revision \/ q.token = n.token
    BY DEF Rivals
  <2>2. q.token \in ledger /\ q.revision = n.revision /\ q \in Visible
    BY <1>1, <2>1 DEF Visible, CommittedIncidents
  <2>3. CASE Ignores(decision, candidate)
    BY <2>3 DEF Ignores
  <2>4. CASE OpensOne(decision, candidate)
    BY <1>1, <2>1, <2>2, <2>4 DEF OpensOne
  <2>5. CASE EnrichesOne(decision, candidate)
    <3>1. PICK r \in CurrentIncidents : Precedes(r, n)
      BY <1>1, <2>5 DEF EnrichesOne
    <3>2. q.revision <= r.revision
      BY <2>1, <2>2, <3>1 DEF CurrentIncidents, Latest, Visible, Precedes
    <3>3. r.revision \in Nat /\ n.revision = r.revision + 1
      BY <3>1 DEF CurrentIncidents, Latest, CommittedIncidents, EngineInv, TypeOK, IncidentRow,
                  Precedes
    <3>. QED  BY <2>2, <3>2, <3>3
  <2>. QED  BY <1>1, <2>3, <2>4, <2>5
<1>3. ~ LinkConflict
  <2>. SUFFICES ASSUME NEW l \in LinksOf(decision), NEW k \in linkRows,
                       k.incident = l.incident, k.input = l.input, k # l
                PROVE  FALSE
    BY DEF LinkConflict
  <2>1. \A m \in LinksOf(decision) :
          /\ m.incident = decision.anchor /\ m.input \in decision.links
          /\ m.input = l.input => m = l
    BY DEF LinksOf
  <2>2. k.token \in ledger
    BY <1>1, <2>1
  <2>3. decision.anchor \in Inputs
    BY <2>1 DEF EngineInv, Sound
  <2>4. l.input \in Linked[decision.anchor]
    BY <2>1, <2>2, <2>3 DEF Linked, Committed
  <2>. QED  BY <2>1, <2>4 DEF LinksAreNew
<1>4. ASSUME NEW e \in decision.episode, NEW q \in Rivals(episodeRows, e) \ {e}
      PROVE  /\ decision.episode = {e} /\ q.id = e.id /\ q \in VisibleEpisodes
             /\ q.revision = 1 /\ e.revision = 1
  <2>1. /\ q \in episodeRows /\ q.id = e.id /\ q # e
        /\ q.revision = e.revision \/ q.token = e.token
    BY DEF Rivals
  <2>2. /\ e.token = candidate /\ \A f \in decision.episode : f = e
        /\ \/ Starts(e)
           \/ \E s \in CurrentEpisodes : Continues(s, e)
    BY <1>1 DEF Ignores, OpensOne, EnrichesOne, Episodes, Owning
  <2>3. q.token \in ledger /\ q.revision = e.revision
    BY <1>1, <2>1, <2>2
  <2>4. ASSUME NEW s \in CurrentEpisodes, Continues(s, e) PROVE FALSE
    <3>1. q.revision <= s.revision
      BY <2>1, <2>3, <2>4 DEF CurrentEpisodes, Latest, Committed, Continues
    <3>2. s.revision \in Nat /\ e.revision = s.revision + 1
      BY <2>4, OneEpisodeIsCurrent DEF Continues
    <3>. QED  BY <2>3, <3>1, <3>2
  <2>5. e.revision = 1
    BY <2>2, <2>4 DEF Starts, Partial
  <2>. QED  BY <2>1, <2>2, <2>3, <2>5 DEF VisibleEpisodes, Committed
<1>5. ~ Conflicts(incidentRows, decision.incident)
  BY <1>2 DEF Conflicts
<1>6. pc = "writeEpisode" /\ Conflicts(episodeRows, decision.episode)
  BY <1>3, <1>5 DEF Refused
<1>7. PICK e \in decision.episode : Rivals(episodeRows, e) \ {e} # {}
  BY <1>6 DEF Conflicts
<1>. QED  BY <1>4, <1>6, <1>7

\* A decision is kept, dropped or made by an evaluation over a window.
LEMMA DecisionsChange ==
  ASSUME EngineInv, ContextsAreWindows, [Next]_vars
  PROVE  \/ decision' = decision \/ decision' = Stateless
         \/ /\ pc \notin Persisting /\ ~ MarkEvaluated
            /\ \E c \in Inputs \ ledger, context \in SUBSET Inputs :
                 (\A i \in context : Near(Occurred[c], i)) /\ decision' = Decide(c, context)
<1>1. decision' = decision \/ decision' = Stateless \/ EvaluateCandidate
  BY DEF Next, Cycle, Persist, Arrive, FetchCandidates, WriteIncident, WriteDetectionLinks,
         WriteEventLinks, WriteEpisodeState, PersistenceConflict, NextCandidate,
         MarkEvaluated, MarkStateless, SaveSchedule, Crash, EndCycle
<1>2. CASE EvaluateCandidate
  <2>1. /\ pc \notin Persisting /\ ~ MarkEvaluated
        /\ todo \subseteq Inputs \ ledger /\ sources \subseteq Inputs
    BY <1>2 DEF EvaluateCandidate, MarkEvaluated, Persisting, EngineInv, TypeOK
  <2>2. PICK c \in todo, context \in SUBSET sources :
          /\ \A i \in context : Near(Occurred[c], i)
          /\ decision' = decision \/ decision' = Decide(c, context)
    BY <1>2, EvaluatedInItsWindow
  <2>. QED  BY <2>1, <2>2
<1>. QED  BY <1>1, <1>2

LEMMA LinksStayNew ==
  ASSUME EngineInv, EvidenceInv, TokensAreInputs, LinksAreNew, [Next]_vars
  PROVE  TokensAreInputs' /\ LinksAreNew'
<1>1. TokensAreInputs'
  BY TablesGrow, DecisionIsProvisional DEF TokensAreInputs
<1>. SUFFICES LinksAreNew'
  BY <1>1
<1>2. CASE decision' = Stateless
  BY <1>2 DEF LinksAreNew, Stateless
<1>3. CASE decision' # Stateless
  <2>1. ~ MarkEvaluated
    BY <1>3 DEF MarkEvaluated, NextCandidate
  <2>2. Linked' = Linked
    <3>1. /\ Visible' = Visible /\ VisibleEpisodes' = VisibleEpisodes
          /\ Committed(linkRows)' = Committed(linkRows)
      BY <2>1, VisibleIsKept DEF EvidenceInv
    <3>. QED  BY <3>1, CurrentIsKept
  <2>3. CASE decision' = decision
    BY <2>2, <2>3 DEF LinksAreNew
  <2>4. ASSUME NEW c, NEW context, decision' = Decide(c, context) PROVE LinksAreNew'
    <3>1. PICK d : d = Decide(c, context)
      OBVIOUS
    <3>2. d.links \cap Linked[d.anchor] = {}
      BY <3>1, EvaluationAddsLinks
    <3>. QED  BY <2>2, <2>4, <3>1, <3>2 DEF LinksAreNew
  <2>. QED  BY <1>3, <2>3, <2>4, DecisionsChange DEF EvidenceInv
<1>. QED  BY <1>2, <1>3

\* Rows are left behind by a stop, or by an episode whose name is taken: a partial
\* episode is written alone, and all else that is written follows what is visible.
LEMMA NothingIsLeft ==
  ASSUME EngineInv, EvidenceInv, TokensAreInputs, LinksAreNew, NothingIsLeftBehind,
         ~ CrashAnytime, ~ NameIsTaken, [Next]_vars
  PROVE  NothingIsLeftBehind'
<1>. SUFFICES ASSUME pc' \notin Persisting PROVE ~ Provisional'
  BY DEF NothingIsLeftBehind, Persisting
<1>1. /\ \A r \in incidentRows : r.token \in ledger \/ (pc \in Persisting /\ r \in decision.incident)
      /\ \A l \in linkRows : l.token \in ledger \/ (pc \in Persisting /\ l \in LinksOf(decision))
      /\ \A e \in episodeRows : e.token \in ledger \/ (pc \in Persisting /\ e \in decision.episode)
  BY DEF EvidenceInv, Clean, TokensAreInputs
<1>2. ASSUME \A r \in incidentRows' \cup linkRows' \cup episodeRows' : r.token \in ledger'
      PROVE  ~ Provisional'
  BY <1>2 DEF Provisional, Committed
<1>3. CASE pc \notin Persisting
  <2>1. incidentRows' = incidentRows /\ linkRows' = linkRows /\ episodeRows' = episodeRows
    BY <1>3 DEF Next, Cycle, Persist, Arrive, FetchCandidates, EvaluateCandidate, WriteIncident,
         WriteDetectionLinks, WriteEventLinks, WriteEpisodeState, Goto, PersistenceConflict,
         MarkEvaluated, MarkStateless, SaveSchedule, Crash, Persisting
  <2>. QED  BY <1>1, <1>2, <1>3, <2>1, TablesGrow
<1>4. CASE Crash
  <2>1. ~ Provisional /\ UNCHANGED <<incidentRows, linkRows, episodeRows, ledger>>
    BY <1>4 DEF Crash
  <2>. QED  BY <2>1 DEF Provisional, Committed
<1>5. CASE pc \in Persisting /\ MarkEvaluated
  <2>1. /\ \A r \in decision.incident : r.token = candidate
        /\ \A l \in LinksOf(decision) : l.token = candidate
        /\ \A e \in decision.episode : e.token = candidate
    <3>1. \A e \in decision.episode : e.token = candidate
      BY <1>5 DEF EvidenceInv, FollowsVisible, Ignores, OpensOne, EnrichesOne
    <3>. QED  BY <3>1, DecisionIsProvisional DEF LinksOf
  <2>2. /\ ledger' = ledger \cup {candidate}
        /\ UNCHANGED <<incidentRows, linkRows, episodeRows>>
    BY <1>5 DEF MarkEvaluated
  <2>. QED  BY <1>1, <1>2, <2>1, <2>2
<1>6. CASE pc \in Persisting /\ PersistenceConflict
  <2>1. Refused /\ UNCHANGED <<incidentRows, linkRows, episodeRows, ledger>>
    BY <1>6 DEF PersistenceConflict
  <2>2. PICK e \in decision.episode, q \in VisibleEpisodes :
          /\ decision.episode = {e} /\ q.id = e.id /\ q.revision = 1 /\ e.revision = 1
    BY <2>1, OnlyNamesAreTaken
  <2>3. e.incident = 0
    BY <2>1, OnlyNamesAreTaken DEF NameIsTaken
  <2>4. Ignores(decision, candidate)
    <3>1. ~ OpensOne(decision, candidate)
      <4>1. \A n \in decision.incident : n.id \in Inputs /\ n.id # 0
        <5>1. decision.incident \subseteq IncidentRow
          BY DEF EngineInv, Sound, Decision
        <5>. QED  BY <5>1, TimesAreNatural DEF IncidentRow
      <4>. QED  BY <2>2, <2>3, <4>1 DEF OpensOne, Owns
    <3>2. ~ EnrichesOne(decision, candidate)
      BY <2>2, <2>3 DEF EnrichesOne, Continues, Episodes, Owning
    <3>. QED  BY <1>6, <3>1, <3>2 DEF EvidenceInv, FollowsVisible
  <2>5. /\ \A r \in incidentRows : r.token \in ledger
        /\ \A l \in linkRows : l.token \in ledger
    BY <1>1, <2>4 DEF Ignores, LinksOf
  <2>6. ASSUME NEW f \in episodeRows PROVE f.token \in ledger
    <3>1. q \in episodeRows /\ q.token \in ledger
      BY DEF VisibleEpisodes, Committed
    <3>2. CASE f = e
      <4>1. f = q
        BY <2>2, <3>1, <3>2 DEF EngineInv, WrittenOnce
      <4>. QED  BY <3>1, <4>1
    <3>. QED  BY <1>1, <2>2, <3>2
  <2>. QED  BY <1>2, <2>1, <2>5, <2>6
<1>7. \/ pc \notin Persisting \/ Crash \/ MarkEvaluated \/ PersistenceConflict
  BY DEF Next, Cycle, Persist, Arrive, FetchCandidates, EvaluateCandidate, WriteIncident,
         WriteDetectionLinks, WriteEventLinks, WriteEpisodeState, Goto, MarkStateless,
         SaveSchedule, Persisting
<1>. QED  BY <1>3, <1>4, <1>5, <1>6, <1>7

\* No row is written yet.
LEMMA NothingIsLeftFirst == Init => NothingIsLeftBehind /\ TokensAreInputs /\ LinksAreNew
<1>. SUFFICES ASSUME Init PROVE NothingIsLeftBehind /\ TokensAreInputs /\ LinksAreNew
  OBVIOUS
<1>1. incidentRows = {} /\ linkRows = {} /\ episodeRows = {} /\ decision = Stateless
  BY DEF Init, IdleLocals
<1>2. ~ Provisional
  BY <1>1 DEF Provisional, Committed
<1>. QED  BY <1>1, <1>2 DEF NothingIsLeftBehind, TokensAreInputs, LinksAreNew, Stateless

\* An ownership join remembers no partial episode: all have an incident, and the name
\* of an input that opened it.
DerivedEpisodes ==
  condition.derived =>
    \A e \in episodeRows \cup decision.episode : e.incident # 0 /\ e.id \in e.qualifying

LEMMA DerivedDecision ==
  ASSUME EngineInv, Clean, Coherent, pc \notin Persisting, DerivedEpisodes, condition.derived,
         NEW c \in Inputs, c \notin ledger,
         NEW context \in SUBSET Inputs, \A i \in context : Near(Occurred[c], i),
         NEW d, d = Decide(c, context)
  PROVE  \A e \in d.episode : e.incident # 0 /\ e.id \in e.qualifying
<1>1. PICK S : S = LoadedEpisodes(c)
  OBVIOUS
<1>2. PICK rows : rows = {r \in CurrentIncidents : \E s \in Owning(S) : s.incident = r.id}
  OBVIOUS
<1>. DEFINE selected == Selected(c, context, S, rows)
<1>3. \/ d = Stateless
      \/ d = Failed
      \/ d = PartialDecision(c, context, S)
      \/ /\ The(selected) \in selected
         /\ d = MatchDecision(c, context, S, rows, Linked, incidentRows, The(selected))
  <2>1. selected # {} => The(selected) \in selected
    BY DEF The
  <2>2. d = Failed \/ d = Evaluate(c, context, S, rows, Linked, incidentRows)
    BY <1>1, <1>2 DEF Decide
  <2>. QED  BY <2>1, <2>2 DEF Evaluate
<1>. HIDE DEF selected
<1>4. Stateless.episode = {} /\ Failed.episode = {}
  BY DEF Stateless, Failed
<1>5. PartialDecision(c, context, S) = Stateless
  BY DEF PartialDecision
<1>6. ASSUME NEW o \in selected,
             d = MatchDecision(c, context, S, rows, Linked, incidentRows, o)
      PROVE  \/ d = Failed \/ d = Stateless
             \/ OpensOne(d, c) /\ NamesEpisode(d, S)
             \/ EnrichesOne(d, c)
  <2>1. o \in Selected(c, context, S, rows)
    BY DEF selected
  <2>2. CASE o.owner = {}
    <3>1. \/ d = Failed
          \/ OpensOne(d, c) /\ TakesContext(d, context) /\ NamesEpisode(d, S)
      BY <1>1, <1>2, <1>6, <2>1, <2>2, MatchOpens
    <3>. QED  BY <3>1
  <2>3. CASE o.owner # {}
    <3>1. d = Failed \/ d = Stateless \/ EnrichesOne(d, c)
      BY <1>1, <1>2, <1>6, <2>1, <2>3, MatchEnriches
    <3>. QED  BY <3>1
  <2>. QED  BY <2>2, <2>3
<1>7. ASSUME OpensOne(d, c), NamesEpisode(d, S), NEW e \in d.episode
      PROVE  e.incident # 0 /\ e.id \in e.qualifying
  <2>1. Partial(S) = {}
    <3>1. S \subseteq episodeRows
      BY <1>1 DEF LoadedEpisodes, CurrentEpisodes, Latest, Committed
    <3>. QED  BY <3>1 DEF DerivedEpisodes, Partial
  <2>2. e.id \in e.qualifying
    BY <1>7, <2>1 DEF NamesEpisode
  <2>3. \A n \in d.incident : n.id \in Inputs /\ n.id # 0
    <3>1. d.incident \subseteq IncidentRow
      BY DecisionsAreSound DEF Sound, Decision
    <3>. QED  BY <3>1, TimesAreNatural DEF IncidentRow
  <2>. QED  BY <1>7, <2>2, <2>3 DEF OpensOne, Owns
<1>8. ASSUME EnrichesOne(d, c), NEW e \in d.episode
      PROVE  e.incident # 0 /\ e.id \in e.qualifying
  <2>1. PICK s \in Episodes : Continues(s, e) /\ e.qualifying = s.qualifying
    BY <1>8 DEF EnrichesOne
  <2>2. s \in episodeRows /\ s.incident # 0
    BY OneEpisodeIsCurrent DEF Episodes, Owning
  <2>. QED  BY <2>1, <2>2 DEF DerivedEpisodes, Continues
<1>. QED  BY <1>3, <1>4, <1>5, <1>6, <1>7, <1>8

LEMMA DerivedEpisodesStay ==
  ASSUME EngineInv, EvidenceInv, DerivedEpisodes, [Next]_vars
  PROVE  DerivedEpisodes'
<1>. SUFFICES ASSUME condition.derived, NEW e \in episodeRows' \cup decision'.episode
              PROVE  e.incident # 0 /\ e.id \in e.qualifying
  BY TablesGrow DEF DerivedEpisodes
<1>1. CASE e \in episodeRows \cup decision.episode
  BY <1>1 DEF DerivedEpisodes
<1>2. ASSUME NEW c \in Inputs \ ledger, NEW context \in SUBSET Inputs, pc \notin Persisting,
             \A i \in context : Near(Occurred[c], i), decision' = Decide(c, context),
             e \in decision'.episode
      PROVE  e.incident # 0 /\ e.id \in e.qualifying
  BY <1>2, DerivedDecision DEF EvidenceInv
<1>3. CASE e \in decision'.episode /\ decision' = Stateless
  BY <1>3 DEF Stateless
<1>. QED  BY <1>1, <1>2, <1>3, TablesGrow, DecisionsChange DEF EvidenceInv

\* The name of a new episode is free: the one that had it would have an incident that
\* holds an input which is free.
LEMMA DerivedNamesAreFree ==
  ASSUME EngineInv, EvidenceInv, TokensAreInputs, LinksAreNew, DerivedEpisodes,
         condition.derived
  PROVE  ~ NameIsTaken
<1>. SUFFICES ASSUME NameIsTaken PROVE FALSE
  OBVIOUS
<1>1. Refused
  BY DEF NameIsTaken, Refused
<1>2. PICK e \in decision.episode, q \in VisibleEpisodes :
        /\ decision.episode = {e} /\ q.id = e.id /\ q.revision = 1 /\ e.revision = 1
  BY <1>1, OnlyNamesAreTaken
<1>3. e.incident # 0 /\ e.id \in e.qualifying
  BY DEF DerivedEpisodes
<1>4. PICK t \in CurrentEpisodes : t.id = e.id
  <2>1. IsFiniteSet(VisibleEpisodes) /\ \A v \in VisibleEpisodes : v.revision \in Nat
    BY RowsAreServed DEF Servable, VisibleEpisodes
  <2>. QED  BY <1>2, <2>1, LatestExists DEF CurrentEpisodes, VisibleEpisodes
<1>5. t \in Episodes /\ t.id \in t.qualifying
  BY OneEpisodeIsCurrent DEF DerivedEpisodes, Episodes, Owning
<1>6. PICK r \in CurrentIncidents : Owns(t, r) /\ r.qualifying \subseteq r.members
  <2>1. PICK r \in CurrentIncidents : r.id = t.incident
    BY <1>5 DEF EvidenceInv, Coherent
  <2>2. PICK s \in Episodes : Owns(s, r) /\ WellFormed(r)
    BY DEF EvidenceInv, Coherent
  <2>3. s = t
    BY <1>5, <2>1, <2>2 DEF EvidenceInv, Coherent, Owns
  <2>. QED  BY <2>2, <2>3 DEF WellFormed
<1>7. e.id \in r.members
  BY <1>4, <1>5, <1>6 DEF Owns
<1>8. ~ Ignores(decision, candidate)
  BY <1>3 DEF Ignores
<1>9. ~ OpensOne(decision, candidate)
  BY <1>2, <1>3, <1>7 DEF OpensOne, Owns
<1>10. ~ EnrichesOne(decision, candidate)
  <2>. SUFFICES ASSUME NEW s \in Episodes, Continues(s, e) PROVE FALSE
    BY <1>2 DEF EnrichesOne
  <2>1. s.revision \in Nat /\ s.revision # 0 /\ e.revision = s.revision + 1
    BY OneEpisodeIsCurrent DEF Episodes, Owning, Continues
  <2>. QED  BY <1>2, <2>1
<1>. QED  BY <1>8, <1>9, <1>10 DEF NameIsTaken, Persisting, EvidenceInv, FollowsVisible

(***************************************************************************)
(* Theorems                                                                *)
(***************************************************************************)
\* What is handled is kept, in whatever order inputs arrive between the calls of a
\* cycle, and however long a page goes on reading contexts it cached before.
THEOREM CompletenessInvariant == Spec /\ []NothingIsLeftBehind => []CompletenessInv
<1>1. /\ EngineInv /\ EvidenceInv /\ QualifyingSatisfiesRule /\ CompletenessInv
      /\ NothingIsLeftBehind' /\ [Next]_vars
      => CompletenessInv'
  BY CompletenessIsKept
<1>. QED  BY <1>1, InitialCompleteness, EngineInvariant, EvidenceInvariant, OpenedAsTheRuleAsks,
             PTL DEF Spec

\* An evaluated input the threshold counts is evidence of some incident if it is in
\* time for an incident whose interval holds it, however it was reordered, unless
\* another incident holds what opened one of those around it.
THEOREM TimelyIsKept == Spec /\ []NothingIsLeftBehind => []TimelyEvidenceIsKept
  BY CompleteMeansKept, EngineInvariant, CompletenessInvariant, PTL

\* Evaluated inputs that satisfy the rule and were observed in time never go
\* unnoticed: one of them at least is evidence of an incident, or lies in the
\* interval of an incident that one of them is too late for.
THEOREM NoMatchIsMissed == Spec /\ []NothingIsLeftBehind => []NoMissedMatch
  BY CompleteMeansKept, EngineInvariant, CompletenessInvariant, PTL

\* Unless the process stops, rows are left behind only by a conflict over the name of
\* an episode: the theorems above hold of every cycle that meets none.
THEOREM LeftByNamesOnly ==
  ASSUME ~ CrashAnytime
  PROVE  Spec /\ []~NameIsTaken => []NothingIsLeftBehind
<1>. DEFINE Inv == EvidenceInv /\ TokensAreInputs /\ LinksAreNew /\ NothingIsLeftBehind
<1>1. Init => Inv
  BY InitialEvidence, NothingIsLeftFirst
<1>2. EngineInv /\ Inv /\ ~ NameIsTaken /\ [Next]_vars => Inv'
  BY NothingIsLeft, EvidenceIsKept, LinksStayNew
<1>. HIDE DEF Inv
<1>3. Spec /\ []~NameIsTaken => []Inv
  BY <1>1, <1>2, EngineInvariant, PTL DEF Spec
<1>4. Inv => NothingIsLeftBehind
  BY DEF Inv
<1>. QED  BY <1>3, <1>4, PTL

\* An ownership join never meets one: unless the process stops, all that was written
\* of a candidate is visible when the next is evaluated.
THEOREM OwnershipLeavesNothing ==
  ASSUME ~ CrashAnytime
  PROVE  Spec /\ condition.derived => []NothingIsLeftBehind
<1>. DEFINE Inv == /\ EvidenceInv /\ TokensAreInputs /\ LinksAreNew /\ NothingIsLeftBehind
                  /\ DerivedEpisodes /\ condition.derived
<1>1. Init /\ condition.derived => Inv
  <2>1. Init => DerivedEpisodes
    BY DEF Init, IdleLocals, DerivedEpisodes, Stateless
  <2>. QED  BY <2>1, InitialEvidence, NothingIsLeftFirst
<1>2. EngineInv /\ Inv /\ [Next]_vars => Inv'
  <2>. SUFFICES ASSUME EngineInv, Inv, [Next]_vars PROVE Inv'
    OBVIOUS
  <2>1. NothingIsLeftBehind'
    BY NothingIsLeft, DerivedNamesAreFree
  <2>2. condition'.derived
    BY TablesGrow
  <2>. QED  BY <2>1, <2>2, EvidenceIsKept, LinksStayNew, DerivedEpisodesStay
<1>. HIDE DEF Inv
<1>3. Spec /\ condition.derived => []Inv
  BY <1>1, <1>2, EngineInvariant, PTL DEF Spec
<1>4. Inv => NothingIsLeftBehind
  BY DEF Inv
<1>. QED  BY <1>3, <1>4, PTL

\* So the incidents of an ownership join, their links and their episodes tell the same,
\* no input qualifies two of them, and they only grow, whatever arrives when.
THEOREM OwnershipIsCoherent ==
  ASSUME ~ CrashAnytime
  PROVE  Spec /\ condition.derived =>
           /\ [](SnapshotMatchesLinks /\ EpisodeMatchesIncident /\ OneQualification)
           /\ IncidentsOnlyGrow
  BY OwnershipLeavesNothing, SnapshotsMatchLinks, EpisodesMatchIncidents, InputsQualifyOnce,
     VisibleIncidentsOnlyGrow, PTL

=============================================================================
