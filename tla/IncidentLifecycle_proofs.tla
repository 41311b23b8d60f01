----------------------- MODULE IncidentLifecycle_proofs -----------------------
(***************************************************************************)
(* Theorems of IncidentLifecycle, for any requests and any number of       *)
(* connections, faults and stops: the engine and the control thread write  *)
(* revisions of the same incidents, in turns, and either may leave its     *)
(* work half done at any store call. The last part is about evidence: with *)
(* acknowledgements and closures between the cycles, incidents, links and  *)
(* episodes still tell the same, and a closed incident takes no later      *)
(* evidence.                                                               *)
(***************************************************************************)
EXTENDS IncidentLifecycle, CorrelationEvidence_proofs

(***************************************************************************)
(* The inductive invariant                                                 *)
(***************************************************************************)
USE DEF given, tables, page, current, vars, clients, control, engine, lifecycleVars

\* What n may be as a revision of an incident that was p: it has not gone back in
\* the lifecycle, and a closure is as it was.
NotBefore(p, n) ==
  /\ Rank(p.status) <= Rank(n.status)
  /\ p.status = "closed" => n.closedAt = p.closedAt /\ n.deadline = p.deadline

\* A revision of a transition: its status follows the one of the revision before,
\* whose evidence it keeps.
Transits(p, n) ==
  /\ Precedes(p, n) /\ n.members = p.members
  /\ n.from = p.status /\ <<p.status, n.status>> \in Allowed

\* Each revision after the first follows a visible one, and a transition is not
\* the first.
HistoryFollows ==
  \A n \in incidentRows :
    /\ n.revision = 1 \/ \E p \in Visible : Precedes(p, n) /\ NotBefore(p, n)
    /\ n.token \notin Inputs => \E p \in Visible : Transits(p, n)

\* No revision is missing below a visible one, and visible revisions of an incident
\* never go back.
Unbroken(V) ==
  \A n \in V : \A k \in 1 .. n.revision : \E m \in V : m.id = n.id /\ m.revision = k
Ordered(V) ==
  \A p, n \in V : p.id = n.id /\ p.revision <= n.revision => NotBefore(p, n)

\* An id of a transition is used for one revision of an incident, and an audit row
\* records one.
OneRevisionPerId ==
  \A n, m \in incidentRows : n.id = m.id /\ n.token = m.token /\ n.token \notin Inputs => n = m
AuditsRecord == \A a \in audits : \E n \in incidentRows : n.token \notin Inputs /\ a = AuditOf(n)

\* The control thread: it writes under the lock, what it read there still holds,
\* and a success it is about to report is visible.
Succeeded(q) ==
  \E r \in CurrentIncidents : r.id = asked[q] /\ Rank(q.target) <= Rank(r.status)
ControlIsRight ==
  /\ Holds => pc = "idle"
  /\ \A r \in revision :
       /\ \A s \in revision : s = r
       /\ r.token \notin Inputs
       /\ \A q \in request : r.id = asked[q] /\ r.status = q.target
  /\ cpc = "insert" => \A r \in revision :
       /\ Rivals(incidentRows, r) = {}
       /\ r.deadline = IF r.status = "closed" THEN r.closedAt + Lateness
                       ELSE Deadline(Start(r.qualifying))
       /\ \E p \in Visible : Transits(p, r)
  /\ cpc = "audit" => revision \subseteq incidentRows
  /\ cpc = "reply" => answer \in {"ok", "rejected", "failed"}
  /\ cpc = "reply" /\ answer = "ok" => \A q \in request : Succeeded(q)

AnswersAreRight == \A a \in answered : a.answer = "ok" => Succeeded(a.request)

LifecycleInv ==
  /\ EngineInv /\ LifecycleTypeOK
  /\ HistoryFollows /\ Unbroken(Visible) /\ Ordered(Visible)
  /\ DeadlineIsFixed /\ OneRevisionPerId /\ AuditsRecord
  /\ ControlIsRight /\ AnswersAreRight

\* Statuses rank from new to closed, and a transition goes up.
LEMMA RanksOfStatuses ==
  /\ Rank("new") = 0 /\ Rank("acknowledged") = 1 /\ Rank("closed") = 2
  /\ \A status \in {"new", "acknowledged", "closed"} : Rank(status) \in Nat
  /\ \A s, t \in {"new", "acknowledged", "closed"} :
       <<s, t>> \in Allowed => Rank(s) < Rank(t) /\ s # "closed"
<1>1. Rank("new") = 0 /\ Rank("acknowledged") = 1 /\ Rank("closed") = 2
  BY DEF Rank
<1>2. \A s, t : <<s, t>> \in Allowed =>
        \/ s = "new" /\ t = "acknowledged"
        \/ s = "new" /\ t = "closed"
        \/ s = "acknowledged" /\ t = "closed"
  BY DEF Allowed
<1>. QED  BY <1>1, <1>2

\* A step of the system is one of the engine, which leaves the audit rows alone, or
\* a write of the control thread, or a stop.
LEMMA StepsOfTheSystem ==
  ASSUME [LifecycleNext]_lifecycleVars
  PROVE  \/ [Next]_vars /\ audits' = audits
         \/ InsertRevision
         \/ WriteAudit
         \/ Stop
<1>1. CASE EngineStep
  BY <1>1, TablesGrow DEF EngineStep, Next
<1>2. CASE Client
  BY <1>2 DEF Client, Ask, GiveUp
<1>3. CASE Accept \/ Fail \/ Reply
  BY <1>3 DEF Accept, Fail, Reply
<1>4. CASE UNCHANGED lifecycleVars
  BY <1>4
<1>. QED  BY <1>1, <1>2, <1>3, <1>4 DEF LifecycleNext, Serve

\* Nothing is removed, new incident rows are the ones of the decision or of the
\* transition at hand, and new audit rows record the transition at hand.
LEMMA SystemGrows ==
  ASSUME [LifecycleNext]_lifecycleVars
  PROVE  /\ incidentRows \subseteq incidentRows' /\ audits \subseteq audits'
         /\ Visible \subseteq Visible'
         /\ \A n \in incidentRows' \ incidentRows :
              n \in decision.incident \/ (cpc = "insert" /\ n \in revision)
         /\ \A a \in audits' \ audits :
              cpc = "audit" /\ \E r \in revision : a = AuditOf(r)
<1>. DEFINE Grown == /\ ledger \subseteq ledger' /\ audits \subseteq audits'
                     /\ incidentRows \subseteq incidentRows'
                     /\ episodeRows \subseteq episodeRows'
                     /\ \A n \in incidentRows' \ incidentRows :
                          n \in decision.incident \/ (cpc = "insert" /\ n \in revision)
                     /\ \A a \in audits' \ audits :
                          cpc = "audit" /\ \E r \in revision : a = AuditOf(r)
<1>1. ASSUME [Next]_vars, audits' = audits PROVE Grown
  BY <1>1, TablesGrow
<1>2. ASSUME InsertRevision PROVE Grown
  BY <1>2 DEF InsertRevision
<1>3. ASSUME WriteAudit PROVE Grown
  BY <1>3 DEF WriteAudit
<1>4. ASSUME Stop PROVE Grown
  BY <1>4 DEF Stop
<1>5. Grown
  BY <1>1, <1>2, <1>3, <1>4, StepsOfTheSystem
<1>6. Visible \subseteq Visible'
  BY <1>5, VisibleStays DEF Visible
<1>. QED  BY <1>5, <1>6

\* What a new incident row is: the work of the engine, or a transition that has no
\* rival in the table.
LEMMA NewRows ==
  ASSUME LifecycleInv, [LifecycleNext]_lifecycleVars,
         NEW n \in incidentRows' \ incidentRows
  PROVE  /\ n.revision = 1 \/ \E p \in Visible : Precedes(p, n) /\ NotBefore(p, n)
         /\ n.token \notin Inputs =>
              /\ n \in revision /\ Rivals(incidentRows, n) = {}
              /\ \E p \in Visible : Transits(p, n)
         /\ n.deadline = IF n.status = "closed" THEN n.closedAt + Lateness
                         ELSE Deadline(Start(n.qualifying))
<1>1. \A p \in Visible : p \in incidentRows /\ p.status \in {"new", "acknowledged", "closed"}
  BY DEF Visible, CommittedIncidents, LifecycleInv, EngineInv, TypeOK, IncidentRow
<1>2. CASE n \in decision.incident
  <2>1. n.token \in Inputs
    <3>1. decision # Stateless
      BY <1>2 DEF Stateless
    <3>. QED  BY <1>2, <3>1 DEF LifecycleInv, EngineInv, TypeOK, PageIsSplit, Sound
  <2>2. Opens(n) \/ \E p \in Visible : Extends(p, n)
    BY <1>2 DEF LifecycleInv, EngineInv, Sound, Visible
  <2>3. CASE Opens(n)
    BY <2>1, <2>3 DEF Opens
  <2>4. CASE \E p \in Visible : Extends(p, n)
    <3>1. PICK p \in Visible : Extends(p, n)
      BY <2>4
    <3>2. Precedes(p, n) /\ NotBefore(p, n)
      BY <1>1, <3>1, RanksOfStatuses DEF Extends, NotBefore
    <3>3. p.deadline = IF p.status = "closed" THEN p.closedAt + Lateness
                       ELSE Deadline(Start(p.qualifying))
      BY <1>1 DEF LifecycleInv, DeadlineIsFixed
    <3>. QED  BY <2>1, <3>1, <3>2, <3>3 DEF Extends, Precedes
  <2>. QED  BY <2>2, <2>3, <2>4
<1>3. CASE cpc = "insert" /\ n \in revision
  <2>1. PICK p \in Visible : Transits(p, n)
    BY <1>3 DEF LifecycleInv, ControlIsRight
  <2>2. n.status \in {"new", "acknowledged", "closed"}
    BY <1>3 DEF LifecycleInv, LifecycleTypeOK, IncidentRow
  <2>3. Precedes(p, n) /\ NotBefore(p, n)
    BY <1>1, <2>1, <2>2, RanksOfStatuses DEF Transits, NotBefore
  <2>. QED  BY <1>3, <2>1, <2>3 DEF LifecycleInv, ControlIsRight
<1>. QED  BY <1>2, <1>3, SystemGrows

\* The engine's invariant survives what the control thread writes: a revision that
\* has no rival, and an audit row that makes it visible. A stop forgets the rest.
LEMMA EngineIsKept ==
  ASSUME LifecycleInv, [LifecycleNext]_lifecycleVars
  PROVE  EngineInv'
<1>1. CASE [Next]_vars
  BY <1>1, InvariantIsKept DEF LifecycleInv
<1>2. SUFFICES ASSUME InsertRevision \/ WriteAudit \/ Stop PROVE EngineInv'
  BY <1>1, StepsOfTheSystem
<1>3. /\ EngineInv
      /\ UNCHANGED <<condition, sources, linkRows, episodeRows, ledger, schedule>>
      /\ incidentRows \subseteq incidentRows' /\ Visible \subseteq Visible'
      /\ \/ UNCHANGED <<pc, page, current, crashes>>
         \/ /\ EndCycle /\ crashes' = crashes + 1 /\ crashes < MaxCrashes
            /\ UNCHANGED incidentRows
  BY <1>2, SystemGrows DEF LifecycleInv, InsertRevision, WriteAudit, Stop
<1>4. \/ incidentRows' = incidentRows
      \/ cpc = "insert" /\ incidentRows' = incidentRows \cup revision
  BY <1>2 DEF InsertRevision, WriteAudit, Stop
<1>5. /\ \A n \in revision : n \in IncidentRow /\ \A m \in revision : m = n
      /\ cpc = "insert" => \A n \in revision :
           Rivals(incidentRows, n) = {} /\ \E p \in Visible : Transits(p, n)
  BY DEF LifecycleInv, LifecycleTypeOK, ControlIsRight
<1>6. TypeOK' /\ PageIsSplit'
  <2>1. incidentRows' \subseteq IncidentRow
    BY <1>3, <1>4, <1>5 DEF EngineInv, TypeOK
  <2>2. CASE UNCHANGED <<pc, page, current, crashes>>
    BY <1>3, <2>1, <2>2 DEF EngineInv, TypeOK, PageIsSplit
  <2>3. CASE EndCycle /\ crashes' = crashes + 1 /\ crashes < MaxCrashes
    BY <1>3, <2>1, <2>3, EngineAssumption
       DEF EngineInv, TypeOK, PageIsSplit, EndCycle, Steps, Persisting
  <2>. QED  BY <1>3, <2>2, <2>3
<1>7. TablesAreFinite'
  <2>1. IsFiniteSet(revision)
    <3>1. CASE revision = {}
      BY <3>1, FS_EmptySet
    <3>2. ASSUME NEW n \in revision PROVE IsFiniteSet(revision)
      <4>1. revision = {n}
        BY <1>5
      <4>. QED  BY <4>1, FS_Singleton
    <3>. QED  BY <3>1, <3>2
  <2>2. IsFiniteSet(incidentRows')
    BY <1>3, <1>4, <2>1, FS_Union DEF EngineInv, TablesAreFinite
  <2>3. \A n \in incidentRows' : n.qualifying # {}
    <3>1. \A n \in incidentRows : n.qualifying # {}
      BY <1>3 DEF EngineInv, TablesAreFinite
    <3>2. Visible \subseteq incidentRows
      BY DEF Visible, CommittedIncidents
    <3>3. ASSUME NEW n \in revision, cpc = "insert" PROVE n.qualifying # {}
      <4>1. PICK p \in Visible : Transits(p, n)
        BY <1>5, <3>3
      <4>. QED  BY <3>1, <3>2, <4>1 DEF Transits, Precedes
    <3>. QED  BY <1>4, <3>1, <3>3
  <2>. QED  BY <1>3, <2>2, <2>3 DEF EngineInv, TablesAreFinite
<1>8. WrittenOnce' /\ LinksWereCompared' /\ IncidentIsFirst'
  <2>1. \A n, m \in incidentRows' : n.id = m.id /\ n.revision = m.revision => n = m
    <3>1. \A n, m \in incidentRows : n.id = m.id /\ n.revision = m.revision => n = m
      BY <1>3 DEF EngineInv, WrittenOnce
    <3>2. cpc = "insert" => \A n \in revision, m \in incidentRows :
                               ~ (n.id = m.id /\ n.revision = m.revision)
      BY <1>5 DEF Rivals
    <3>. QED  BY <1>4, <1>5, <3>1, <3>2
  <2>2. WrittenOnce'
    BY <1>3, <2>1 DEF EngineInv, WrittenOnce
  <2>3. LinksWereCompared' /\ IncidentIsFirst'
    <3>1. CASE UNCHANGED <<pc, page, current, crashes>>
      <4>1. LinkConflict' = LinkConflict
        BY <1>3, <3>1 DEF LinkConflict, LinksOf, Relationship
      <4>. QED  BY <1>3, <3>1, <4>1 DEF EngineInv, LinksWereCompared, IncidentIsFirst
    <3>2. CASE EndCycle
      BY <3>2 DEF EndCycle, LinksWereCompared, IncidentIsFirst
    <3>. QED  BY <1>3, <3>1, <3>2
  <2>. QED  BY <2>2, <2>3
<1>9. RevisionsFollow'
  <2>1. ASSUME NEW n \in incidentRows'
        PROVE  n.revision = 1 \/ \E p \in Visible' : Precedes(p, n)
    <3>1. n.revision = 1 \/ \E p \in Visible : Precedes(p, n)
      <4>1. CASE n \in incidentRows
        BY <1>3, <4>1 DEF EngineInv, RevisionsFollow, Visible
      <4>2. CASE n \notin incidentRows
        BY <1>4, <1>5, <4>2 DEF Transits
      <4>. QED  BY <4>1, <4>2
    <3>. QED  BY <1>3, <3>1
  <2>2. Committed(episodeRows)' = Committed(episodeRows)
    BY <1>3 DEF Committed
  <2>3. \A e \in episodeRows' : HasIncident(e, incidentRows')
    <3>1. \A e \in episodeRows : HasIncident(e, incidentRows)
      BY <1>3 DEF EngineInv, RevisionsFollow
    <3>. QED  BY <1>3, <3>1, Zenon DEF HasIncident
  <2>. QED  BY <1>3, <2>1, <2>2, <2>3 DEF EngineInv, RevisionsFollow, Visible
<1>10. Sound(decision, candidate)'
  <2>1. ASSUME NEW d, NEW c, Sound(d, c), decision' = d, candidate' = c
        PROVE  Sound(decision, candidate)'
    <3>1. \A n \in d.incident : Opens(n) \/ \E p \in Visible' : Extends(p, n)
      BY <1>3, <2>1 DEF Sound, Visible
    <3>2. Committed(episodeRows)' = Committed(episodeRows)
      BY <1>3 DEF Committed
    <3>3. ASSUME NEW e \in d.episode, e \notin episodeRows
          PROVE  HasIncident(e, incidentRows' \cup d.incident)
      <4>1. HasIncident(e, incidentRows \cup d.incident)
        BY <2>1, <3>3 DEF Sound
      <4>. QED  BY <1>3, <4>1, Zenon DEF HasIncident
    <3>4. Decision' = Decision
      BY DEF Decision, IncidentRow, EpisodeRow
    <3>. QED  BY <1>3, <2>1, <3>1, <3>2, <3>3, <3>4 DEF Sound, Visible
  <2>2. Sound(Stateless, 0)
    BY DEF Sound, Stateless, Decision
  <2>3. CASE UNCHANGED current
    <3>1. PICK d, c : d = decision /\ c = candidate
      OBVIOUS
    <3>2. Sound(d, c)
      BY <1>3, <3>1 DEF EngineInv
    <3>. QED  BY <2>1, <2>3, <3>1, <3>2
  <2>. QED  BY <1>3, <2>1, <2>2, <2>3 DEF EndCycle
<1>. QED  BY <1>6, <1>7, <1>8, <1>9, <1>10 DEF EngineInv

\* When rows V are visible and then rows W, each of which is a first revision or
\* follows one of V, no revision is missing and none has gone back still.
LEMMA HistoryIsOrdered ==
  ASSUME NEW V, NEW W, V \subseteq W,
         \A n \in W : n.revision \in Nat /\ n.status \in {"new", "acknowledged", "closed"},
         \A n, m \in W : n.id = m.id /\ n.revision = m.revision => n = m,
         \A n \in W : n.revision = 1 \/ \E p \in V : Precedes(p, n) /\ NotBefore(p, n),
         Unbroken(V), Ordered(V)
  PROVE  Unbroken(W) /\ Ordered(W)
<1>1. Unbroken(W)
  <2>. SUFFICES ASSUME NEW n \in W, NEW k \in 1 .. n.revision
                PROVE  \E m \in W : m.id = n.id /\ m.revision = k
    BY DEF Unbroken
  <2>1. CASE k = n.revision
    BY <2>1
  <2>2. CASE k # n.revision
    <3>1. PICK p \in V : Precedes(p, n)
      BY <2>2
    <3>2. p.revision \in Nat /\ k \in 1 .. p.revision
      BY <2>2, <3>1 DEF Precedes
    <3>. QED  BY <3>1, <3>2 DEF Unbroken, Precedes
  <2>. QED  BY <2>1, <2>2
<1>2. ASSUME NEW p \in W, NEW n \in W, p.id = n.id, p.revision <= n.revision
      PROVE  NotBefore(p, n)
  <2>1. p.revision \in Nat /\ n.revision \in Nat
    OBVIOUS
  <2>2. CASE p = n
    BY <2>2, RanksOfStatuses DEF NotBefore
  <2>3. CASE p # n
    <3>1. p.revision < n.revision
      BY <1>2, <2>1, <2>3
    <3>2. p.revision # 0
      BY <2>1 DEF Precedes
    <3>3. PICK q \in V : Precedes(q, n) /\ NotBefore(q, n)
      BY <2>1, <3>1, <3>2
    <3>4. q.revision \in Nat /\ q.id = n.id /\ p.revision <= q.revision
      BY <2>1, <3>1, <3>3 DEF Precedes
    <3>5. p \in V
      <4>1. p.revision \in 1 .. q.revision
        BY <2>1, <3>2, <3>4
      <4>2. PICK m \in V : m.id = q.id /\ m.revision = p.revision
        BY <4>1 DEF Unbroken
      <4>. QED  BY <1>2, <3>4, <4>2
    <3>6. NotBefore(p, q)
      BY <1>2, <3>4, <3>5 DEF Ordered
    <3>. QED  BY <3>3, <3>6, RanksOfStatuses DEF NotBefore
  <2>. QED  BY <2>2, <2>3
<1>. QED  BY <1>1, <1>2 DEF Ordered

\* Histories, deadlines and ids of transitions stay in order, and audit rows record
\* transitions.
LEMMA HistoriesAreKept ==
  ASSUME LifecycleInv, [LifecycleNext]_lifecycleVars
  PROVE  /\ HistoryFollows' /\ Unbroken(Visible') /\ Ordered(Visible')
         /\ DeadlineIsFixed' /\ OneRevisionPerId' /\ AuditsRecord'
<1>1. /\ incidentRows \subseteq incidentRows' /\ Visible \subseteq Visible'
      /\ Visible' \subseteq incidentRows'
  BY SystemGrows DEF Visible, CommittedIncidents
<1>2. ASSUME NEW n \in incidentRows'
      PROVE  /\ n.revision = 1 \/ \E p \in Visible : Precedes(p, n) /\ NotBefore(p, n)
             /\ n.token \notin Inputs => \E p \in Visible : Transits(p, n)
             /\ n.deadline = IF n.status = "closed" THEN n.closedAt + Lateness
                             ELSE Deadline(Start(n.qualifying))
  <2>1. CASE n \in incidentRows
    BY <2>1 DEF LifecycleInv, HistoryFollows, DeadlineIsFixed
  <2>2. CASE n \notin incidentRows
    BY <2>2, NewRows
  <2>. QED  BY <2>1, <2>2
<1>3. HistoryFollows'
  BY <1>1, <1>2 DEF HistoryFollows
<1>4. DeadlineIsFixed'
  BY <1>2 DEF DeadlineIsFixed
<1>5. Unbroken(Visible') /\ Ordered(Visible')
  <2>1. EngineInv'
    BY EngineIsKept
  <2>2. \A n \in incidentRows' :
          n.revision \in Nat /\ n.status \in {"new", "acknowledged", "closed"}
    BY <2>1 DEF EngineInv, TypeOK, IncidentRow
  <2>3. \A n, m \in incidentRows' : n.id = m.id /\ n.revision = m.revision => n = m
    BY <2>1 DEF EngineInv, WrittenOnce
  <2>4. PICK V, W : V = Visible /\ W = Visible'
    OBVIOUS
  <2>5. Unbroken(V) /\ Ordered(V)
    BY <2>4 DEF LifecycleInv
  <2>6. Unbroken(W) /\ Ordered(W)
    BY <1>1, <1>2, <2>2, <2>3, <2>4, <2>5, HistoryIsOrdered
  <2>. QED  BY <2>4, <2>6
<1>6. OneRevisionPerId'
  <2>. SUFFICES ASSUME NEW n \in incidentRows', NEW m \in incidentRows',
                       n.id = m.id, n.token = m.token, n.token \notin Inputs
                PROVE  n = m
    BY DEF OneRevisionPerId
  <2>1. CASE n \in incidentRows /\ m \in incidentRows
    BY <2>1 DEF LifecycleInv, OneRevisionPerId
  <2>2. ASSUME NEW a \in incidentRows' \ incidentRows, NEW b \in incidentRows,
               a.id = b.id, a.token = b.token, a.token \notin Inputs
        PROVE  FALSE
    BY <2>2, NewRows DEF Rivals
  <2>3. CASE n \notin incidentRows /\ m \notin incidentRows
    BY <2>3, NewRows DEF LifecycleInv, ControlIsRight
  <2>. QED  BY <2>1, <2>2, <2>3
<1>7. AuditsRecord'
  <2>. SUFFICES ASSUME NEW a \in audits'
                PROVE  \E n \in incidentRows : n.token \notin Inputs /\ a = AuditOf(n)
    BY <1>1 DEF AuditsRecord
  <2>1. CASE a \in audits
    BY <2>1 DEF LifecycleInv, AuditsRecord
  <2>2. CASE a \notin audits
    BY <2>2, SystemGrows DEF LifecycleInv, ControlIsRight
  <2>. QED  BY <2>1, <2>2
<1>. QED  BY <1>3, <1>4, <1>5, <1>6, <1>7

\* Of an incident with a visible revision one is served, at least as late.
LEMMA SomeRevisionIsServed ==
  ASSUME EngineInv', Ordered(Visible'), NEW r \in Visible'
  PROVE  \E t \in CurrentIncidents' : t.id = r.id /\ NotBefore(r, t)
<1>1. PICK W : W = Visible'
  OBVIOUS
<1>2. IsFiniteSet(W) /\ W \subseteq incidentRows' /\ \A t \in W : t.revision \in Nat
  <2>1. W \subseteq incidentRows'
    BY <1>1 DEF Visible, CommittedIncidents
  <2>2. IsFiniteSet(incidentRows') /\ \A t \in incidentRows' : t.revision \in Nat
    BY DEF EngineInv, TablesAreFinite, TypeOK, IncidentRow
  <2>. QED  BY <2>1, <2>2, FS_Subset
<1>3. PICK t \in Latest(W) : t.id = r.id /\ r.revision <= t.revision
  BY <1>1, <1>2, LatestExists
<1>4. CurrentIncidents' = Latest(W) /\ t \in W
  BY <1>1 DEF CurrentIncidents, Latest, Visible
<1>5. NotBefore(r, t)
  BY <1>1, <1>3, <1>4 DEF Ordered
<1>. QED  BY <1>3, <1>4, <1>5

\* What was visible of a transition once stays so.
LEMMA SuccessLasts ==
  ASSUME LifecycleInv, [LifecycleNext]_lifecycleVars,
         NEW q, Succeeded(q), q.target \in {"acknowledged", "closed"}, asked'[q] = asked[q]
  PROVE  Succeeded(q)'
<1>1. PICK r \in CurrentIncidents : r.id = asked[q] /\ Rank(q.target) <= Rank(r.status)
  BY DEF Succeeded
<1>2. r \in Visible /\ r \in Visible'
  BY SystemGrows DEF CurrentIncidents, Latest, Visible
<1>3. EngineInv' /\ Ordered(Visible')
  BY EngineIsKept, HistoriesAreKept
<1>4. PICK t \in CurrentIncidents' : t.id = r.id /\ NotBefore(r, t)
  BY <1>2, <1>3, SomeRevisionIsServed
<1>5. r.status \in {"new", "acknowledged", "closed"} /\ t.status \in {"new", "acknowledged", "closed"}
  BY <1>2, <1>3 DEF CurrentIncidents, Latest, Visible, CommittedIncidents, EngineInv, TypeOK,
                    IncidentRow
<1>6. Rank(q.target) <= Rank(t.status)
  BY <1>1, <1>4, <1>5, RanksOfStatuses DEF NotBefore
<1>. QED  BY <1>1, <1>4, <1>6 DEF Succeeded

\* The revision of a transition is a row, follows the visible one and has the
\* deadline of its status.
LEMMA TransitionIsRow ==
  ASSUME LifecycleInv, NEW r \in CurrentIncidents, NEW q, NEW t \in Times,
         q.id \in Nat \ Inputs, <<r.status, q.target>> \in Allowed
  PROVE  LET n == Transition(r, q, t)
         IN  /\ n \in IncidentRow
             /\ n.id = r.id /\ n.token = q.id /\ n.status = q.target
             /\ Transits(r, n)
             /\ n.deadline = IF n.status = "closed" THEN n.closedAt + Lateness
                             ELSE Deadline(Start(n.qualifying))
<1>. DEFINE n == Transition(r, q, t)
<1>1. r \in incidentRows /\ r \in IncidentRow
  BY DEF CurrentIncidents, Latest, CommittedIncidents, LifecycleInv, EngineInv, TypeOK
<1>2. \/ r.status = "new" /\ q.target = "acknowledged"
      \/ r.status = "new" /\ q.target = "closed"
      \/ r.status = "acknowledged" /\ q.target = "closed"
  BY DEF Allowed
<1>3. r.qualifying # {} /\ r.qualifying \in SUBSET Inputs /\ Start(r.qualifying) \in Nat
  BY <1>1, SomeInputs DEF LifecycleInv, EngineInv, TablesAreFinite, IncidentRow
<1>4. r.deadline = Start(r.qualifying) + Window + Lateness
  BY <1>1, <1>2 DEF LifecycleInv, DeadlineIsFixed, Deadline
<1>5. t \in Nat /\ Window \in Nat /\ Lateness \in Nat
  BY RequestsAssumption, RuleAssumption
<1>6. t + (r.deadline - (Start(r.qualifying) + Window)) = t + Lateness
  BY <1>3, <1>4, <1>5
<1>7. r = [id |-> r.id, revision |-> r.revision, token |-> r.token, members |-> r.members,
           qualifying |-> r.qualifying, status |-> r.status, from |-> r.from,
           closedAt |-> r.closedAt, deadline |-> r.deadline]
  BY <1>1 DEF IncidentRow
<1>. DEFINE closed == q.target = "closed"
<1>8. n = [id |-> r.id, revision |-> r.revision + 1, token |-> q.id, members |-> r.members,
           qualifying |-> r.qualifying, status |-> q.target, from |-> r.status,
           closedAt |-> IF closed THEN t ELSE r.closedAt,
           deadline |-> IF closed THEN t + Lateness ELSE r.deadline]
  BY <1>1, <1>2, <1>6, <1>7 DEF Transition
<1>. HIDE DEF n
<1>9. n \in IncidentRow
  <2>1. /\ r.id \in Inputs /\ r.revision \in Nat /\ r.members \in SUBSET Inputs
        /\ r.qualifying \in SUBSET Inputs /\ r.closedAt \in Int /\ r.deadline \in Nat
    BY <1>1 DEF IncidentRow
  <2>2. /\ r.status \in {"", "new", "acknowledged"}
        /\ q.target \in {"new", "acknowledged", "closed"}
    BY <1>2
  <2>3. /\ r.revision + 1 \in Nat /\ q.id \in Nat
        /\ (IF closed THEN t ELSE r.closedAt) \in Int
        /\ (IF closed THEN t + Lateness ELSE r.deadline) \in Nat
    BY <1>5, <2>1
  <2>. HIDE DEF closed
  <2>. QED  BY <1>8, <2>1, <2>2, <2>3 DEF IncidentRow
<1>10. Transits(r, n)
  BY <1>1, <1>8 DEF Transits, Precedes
<1>11. n.deadline = IF n.status = "closed" THEN n.closedAt + Lateness
                    ELSE Deadline(Start(n.qualifying))
  BY <1>4, <1>8 DEF Deadline
<1>. QED  BY <1>8, <1>9, <1>10, <1>11 DEF n

\* The control thread and the clients keep their types.
LEMMA ControlKeepsTypes ==
  ASSUME LifecycleInv, [LifecycleNext]_lifecycleVars
  PROVE  LifecycleTypeOK'
<1>. DEFINE Rest ==
       /\ asked' \in [Requests -> {0} \cup Inputs] /\ waiting' \subseteq Requests
       /\ backlog' \in Seq(Requests)
       /\ answered' \subseteq [request : Requests, answer : {"ok", "rejected"}]
       /\ cpc' \in ControlSteps
       /\ request' \subseteq Requests /\ Cardinality(request') <= 1
       /\ revision' \subseteq IncidentRow
       /\ revision' # {} <=> cpc' \in {"insert", "audit"}
       /\ faults' \in 0 .. MaxFaults
<1>1. incidentRows' \subseteq IncidentRow
  BY EngineIsKept DEF EngineInv, TypeOK
<1>2. SUFFICES Rest
  BY <1>1 DEF LifecycleTypeOK
<1>3. /\ asked \in [Requests -> {0} \cup Inputs] /\ waiting \subseteq Requests
      /\ backlog \in Seq(Requests)
      /\ answered \subseteq [request : Requests, answer : {"ok", "rejected"}]
      /\ cpc \in ControlSteps
      /\ request \subseteq Requests /\ Cardinality(request) <= 1
      /\ revision \subseteq IncidentRow
      /\ revision # {} <=> cpc \in {"insert", "audit"}
      /\ incidentRows \subseteq IncidentRow
      /\ faults \in 0 .. MaxFaults /\ MaxFaults \in Nat
  BY RequestsAssumption DEF LifecycleInv, LifecycleTypeOK
<1>4. Cardinality({}) = 0 /\ \A q \in Requests : Cardinality({q}) = 1
  BY FS_EmptySet, FS_Singleton
<1>. USE DEF ControlSteps
<1>5. CASE EngineStep
  BY <1>3, <1>5 DEF EngineStep
<1>6. ASSUME NEW q \in Requests, Ask(q) PROVE Rest
  <2>1. \A r \in incidentRows : r.id \in Inputs
    BY <1>3 DEF IncidentRow
  <2>2. asked' \in [Requests -> {0} \cup Inputs]
    BY <1>3, <1>6, <2>1 DEF Ask
  <2>3. backlog' \in Seq(Requests)
    BY <1>3, <1>6 DEF Ask
  <2>. QED  BY <1>3, <1>6, <2>2, <2>3 DEF Ask
<1>7. ASSUME NEW q \in Requests, GiveUp(q) PROVE Rest
  BY <1>3, <1>7 DEF GiveUp
<1>8. CASE Accept
  <2>. DEFINE q == Head(backlog)
  <2>1. q \in Requests /\ Tail(backlog) \in Seq(Requests) /\ q.id \in Nat
    BY <1>3, <1>8, RequestsAssumption DEF Accept, Pending
  <2>2. /\ \/ Decides(q) /\ UNCHANGED faults
           \/ Respond("failed") /\ faults < MaxFaults /\ faults' = faults + 1
        /\ request' = {q} /\ backlog' = Tail(backlog)
        /\ UNCHANGED <<asked, waiting, answered>>
    BY <1>8 DEF Accept
  <2>3. faults' \in 0 .. MaxFaults
    BY <1>3, <2>2
  <2>4. \/ \E a : Respond(a)
        \/ \E r \in IncidentRow : Continue("audit", r) \/ Continue("insert", r)
    <3>1. CASE Respond("failed")
      BY <3>1
    <3>2. CASE Decides(q)
      <4>1. \/ \E a : Respond(a)
            \/ \E r \in incidentRows : Continue("audit", r)
            \/ \E r \in CurrentIncidents : r.id = asked[q]
                 /\ <<r.status, q.target>> \in Allowed /\ Apply(r, q)
        BY <3>2 DEF Decides, Resume, Recorded
      <4>2. ASSUME NEW r \in CurrentIncidents, <<r.status, q.target>> \in Allowed, Apply(r, q)
            PROVE  (\E a : Respond(a)) \/ \E n \in IncidentRow : Continue("insert", n)
        <5>1. q.id \in Nat \ Inputs
          BY <2>1, RequestsAssumption
        <5>2. \A t \in Times : Transition(r, q, t) \in IncidentRow
          BY <4>2, <5>1, TransitionIsRow
        <5>. QED  BY <4>2, <5>2 DEF Apply
      <4>. QED  BY <1>3, <4>1, <4>2
    <3>. QED  BY <2>2, <3>1, <3>2
  <2>. HIDE DEF q
  <2>. QED  BY SMTT(20), <1>3, <1>4, <2>1, <2>2, <2>3, <2>4 DEF Respond, Continue
<1>9. CASE InsertRevision
  BY <1>3, <1>9 DEF InsertRevision
<1>10. CASE WriteAudit
  BY <1>3, <1>10 DEF WriteAudit, Respond
<1>11. CASE Fail
  BY <1>3, <1>11 DEF Fail, Respond
<1>12. CASE Reply
  <2>1. revision = {} /\ answer \in {"ok", "rejected", "failed"}
    BY <1>3, <1>12 DEF Reply, LifecycleInv, ControlIsRight
  <2>2. answered' \subseteq [request : Requests, answer : {"ok", "rejected"}]
    <3>1. \A q \in request :
            \/ [request |-> q, answer |-> answer] \in [request : Requests, answer : {"failed"}]
            \/ [request |-> q, answer |-> answer] \in [request : Requests, answer : {"ok", "rejected"}]
      BY <1>3, <2>1
    <3>. QED  BY <1>3, <1>12, <3>1 DEF Reply
  <2>. QED  BY <1>3, <1>4, <1>12, <2>1, <2>2 DEF Reply
<1>13. CASE Stop
  BY <1>3, <1>4, <1>13 DEF Stop
<1>14. CASE UNCHANGED lifecycleVars
  BY <1>3, <1>14
<1>. QED  BY <1>5, <1>6, <1>7, <1>8, <1>9, <1>10, <1>11, <1>12, <1>13, <1>14
          DEF LifecycleNext, Client, Serve

\* What the control thread read under the lock still holds when it writes, because
\* the engine waits for the lock, and a success it reports is visible.
LEMMA ControlStaysRight ==
  ASSUME LifecycleInv, [LifecycleNext]_lifecycleVars
  PROVE  ControlIsRight'
<1>. DEFINE Reports == cpc' = "reply" => /\ answer' \in {"ok", "rejected", "failed"}
                                         /\ answer' = "ok" => \A q \in request' : Succeeded(q)'
            Idle == cpc' \notin {"insert", "audit"} /\ revision' = {}
<1>1. /\ Holds => pc = "idle"
      /\ revision # {} <=> Holds
      /\ request \subseteq Requests /\ waiting \subseteq Requests /\ backlog \in Seq(Requests)
      /\ asked \in [Requests -> {0} \cup Inputs]
      /\ \A q \in Requests : q.id \in Nat \ Inputs /\ q.target \in {"acknowledged", "closed"}
  BY RequestsAssumption DEF LifecycleInv, ControlIsRight, LifecycleTypeOK, Holds
<1>2. ASSUME Idle, Reports PROVE ControlIsRight'
  BY <1>2 DEF ControlIsRight, Holds
<1>3. ASSUME UNCHANGED control, UNCHANGED incidentRows, Holds => pc' = "idle",
             \A q \in request : asked'[q] = asked[q]
      PROVE  ControlIsRight'
  <2>1. Visible \subseteq Visible'
    BY SystemGrows
  <2>2. \A r \in revision : Rivals(incidentRows, r) = {} => Rivals(incidentRows', r) = {}
    BY <1>3
  <2>3. \A q \in request : Succeeded(q) => Succeeded(q)'
    BY <1>1, <1>3, SuccessLasts
  <2>. QED  BY <1>1, <1>3, <2>1, <2>2, <2>3 DEF LifecycleInv, ControlIsRight, Holds
<1>4. ASSUME UNCHANGED control, ~ Holds, UNCHANGED asked
      PROVE  ControlIsRight'
  <2>1. \A q \in request : Succeeded(q) => Succeeded(q)'
    BY <1>1, <1>4, SuccessLasts
  <2>2. Idle
    BY <1>1, <1>4 DEF Holds
  <2>3. Reports
    BY <1>4, <2>1 DEF LifecycleInv, ControlIsRight
  <2>. QED  BY <1>2, <2>2, <2>3
<1>5. CASE EngineStep
  <2>1. UNCHANGED control /\ UNCHANGED asked
    BY <1>5 DEF EngineStep
  <2>2. Holds => UNCHANGED <<pc, incidentRows>>
    BY <1>1, <1>5 DEF EngineStep, Arrive, Crash, Cycle, Persist, FetchCandidates,
          EvaluateCandidate, WriteIncident, WriteDetectionLinks, WriteEventLinks,
          WriteEpisodeState, PersistenceConflict, Refused, MarkEvaluated, MarkStateless,
          SaveSchedule, Goto
  <2>. QED  BY <1>1, <1>3, <1>4, <2>1, <2>2
<1>6. CASE Client
  <2>1. UNCHANGED control /\ UNCHANGED <<incidentRows, pc>>
    BY <1>6 DEF Client, Ask, GiveUp
  <2>2. \A q \in request : asked'[q] = asked[q]
    BY <1>1, <1>6 DEF Client, Ask, GiveUp
  <2>. QED  BY <1>1, <1>3, <2>1, <2>2
<1>7. CASE Accept
  <2>1. PICK q \in Requests : q = Head(backlog)
    BY <1>1, <1>7 DEF Accept, Pending
  <2>2. /\ pc = "idle" /\ UNCHANGED vars /\ UNCHANGED asked /\ request' = {q}
        /\ Decides(q) \/ Respond("failed")
    BY <1>7, <2>1 DEF Accept, Pending, LockIsFree
  <2>3. CASE \E a \in {"rejected", "failed"} : Respond(a)
    BY <1>2, <2>3 DEF Respond
  <2>4. Visible' = Visible /\ CurrentIncidents' = CurrentIncidents
    BY <2>2 DEF Visible, CommittedIncidents, CurrentIncidents, Latest
  <2>5. ASSUME NEW r \in CurrentIncidents, r.id = asked[q], r.status = q.target, Respond("ok")
        PROVE  ControlIsRight'
    <3>1. Rank(q.target) <= Rank(r.status)
      <4>1. q.target \in {"new", "acknowledged", "closed"}
        BY <1>1, <2>1
      <4>2. Rank(q.target) \in Nat /\ Rank(q.target) = Rank(r.status)
        BY <2>5, <4>1, RanksOfStatuses
      <4>. QED  BY <4>2
    <3>2. Succeeded(q)'
      BY <2>2, <2>4, <2>5, <3>1 DEF Succeeded
    <3>. QED  BY <1>2, <2>2, <2>5, <3>2 DEF Respond
  <2>6. ASSUME NEW r \in Recorded(asked[q], q), Continue("audit", r), r.status = q.target
        PROVE  ControlIsRight'
    <3>1. r \in incidentRows /\ r.id = asked[q] /\ r.token \notin Inputs
      BY <1>1, <2>1 DEF Recorded
    <3>2. cpc' = "audit" /\ revision' = {r}
      BY <2>6 DEF Continue
    <3>. QED  BY <2>2, <2>6, <3>1, <3>2 DEF ControlIsRight, Holds
  <2>7. ASSUME NEW r \in CurrentIncidents, r.id = asked[q],
               <<r.status, q.target>> \in Allowed, Apply(r, q)
        PROVE  ControlIsRight'
    <3>1. PICK t \in Times :
            IF Rivals(incidentRows, Transition(r, q, t)) # {} THEN Respond("failed")
            ELSE Continue("insert", Transition(r, q, t))
      BY <2>7 DEF Apply
    <3>2. PICK n : n = Transition(r, q, t)
      OBVIOUS
    <3>3. /\ n.id = r.id /\ n.token = q.id /\ n.status = q.target /\ Transits(r, n)
          /\ n.deadline = IF n.status = "closed" THEN n.closedAt + Lateness
                          ELSE Deadline(Start(n.qualifying))
      BY <1>1, <2>1, <2>7, <3>2, TransitionIsRow
    <3>4. CASE Respond("failed")
      BY <2>3, <3>4
    <3>5. CASE Rivals(incidentRows, n) = {} /\ Continue("insert", n)
      <4>1. cpc' = "insert" /\ revision' = {n}
        BY <3>5 DEF Continue
      <4>2. Rivals(incidentRows', n) = {}
        BY <2>2, <3>5
      <4>3. r \in Visible'
        BY <2>4 DEF CurrentIncidents, Latest, Visible
      <4>. QED  BY <1>1, <2>1, <2>2, <2>7, <3>3, <4>1, <4>2, <4>3 DEF ControlIsRight, Holds
    <3>. QED  BY <3>1, <3>2, <3>4, <3>5
  <2>. QED  BY <2>2, <2>3, <2>5, <2>6, <2>7 DEF Decides, Resume
<1>8. CASE InsertRevision
  BY <1>8 DEF InsertRevision, LifecycleInv, ControlIsRight, Holds
<1>9. CASE WriteAudit
  <2>1. /\ cpc = "audit" /\ Respond("ok") /\ UNCHANGED <<asked, request, incidentRows, ledger>>
        /\ audits' = audits \cup {AuditOf(r) : r \in {n \in revision :
                        ~\E a \in audits : a.id = n.token /\ a.incident = n.id}}
    BY <1>9 DEF WriteAudit
  <2>2. PICK r \in revision : TRUE
    BY <1>1, <2>1 DEF Holds
  <2>3. /\ r \in incidentRows /\ r.token \notin Inputs
        /\ \A q \in request : r.id = asked[q] /\ r.status = q.target
    BY <2>1 DEF LifecycleInv, ControlIsRight
  <2>4. \E a \in audits' : a.id = r.token /\ a.incident = r.id /\ a.revision = r.revision
    <3>1. CASE \E a \in audits : a.id = r.token /\ a.incident = r.id
      <4>1. PICK a \in audits : a.id = r.token /\ a.incident = r.id
        BY <3>1
      <4>2. PICK n \in incidentRows : n.token \notin Inputs /\ a = AuditOf(n)
        BY DEF LifecycleInv, AuditsRecord
      <4>3. n = r
        BY <2>3, <4>1, <4>2 DEF LifecycleInv, OneRevisionPerId, AuditOf
      <4>. QED  BY <2>1, <4>1, <4>2, <4>3 DEF AuditOf
    <3>2. CASE ~ \E a \in audits : a.id = r.token /\ a.incident = r.id
      <4>1. AuditOf(r) \in audits'
        BY <2>1, <3>2
      <4>. QED  BY <4>1 DEF AuditOf
    <3>. QED  BY <3>1, <3>2
  <2>5. r \in Visible'
    BY <2>1, <2>3, <2>4 DEF Visible, CommittedIncidents
  <2>6. EngineInv' /\ Ordered(Visible')
    BY EngineIsKept, HistoriesAreKept
  <2>7. PICK t \in CurrentIncidents' : t.id = r.id /\ NotBefore(r, t)
    BY <2>5, <2>6, SomeRevisionIsServed
  <2>8. \A q \in request : Succeeded(q)'
    BY <2>1, <2>3, <2>7 DEF Succeeded, NotBefore
  <2>. QED  BY <1>2, <2>1, <2>8 DEF Respond
<1>10. CASE Fail
  BY <1>2, <1>10 DEF Fail, Respond
<1>11. CASE Reply
  <2>1. ~ Holds
    BY <1>11 DEF Reply, Holds, LifecycleInv, ControlIsRight
  <2>. QED  BY <1>1, <1>2, <1>11, <2>1 DEF Reply
<1>12. CASE Stop
  BY <1>2, <1>12 DEF Stop
<1>13. CASE UNCHANGED lifecycleVars
  <2>1. UNCHANGED <<vars, clients, control>>
    BY <1>13
  <2>. QED  BY <1>1, <1>3, <2>1
<1>. QED  BY <1>5, <1>6, <1>7, <1>8, <1>9, <1>10, <1>11, <1>12, <1>13
          DEF LifecycleNext, Serve

\* An answer of success stays right.
LEMMA AnswersStayRight ==
  ASSUME LifecycleInv, [LifecycleNext]_lifecycleVars
  PROVE  AnswersAreRight'
<1>1. /\ answered \subseteq [request : Requests, answer : {"ok", "rejected"}]
      /\ asked \in [Requests -> {0} \cup Inputs] /\ request \subseteq Requests
      /\ \A q \in Requests : q.target \in {"acknowledged", "closed"}
  BY RequestsAssumption DEF LifecycleInv, LifecycleTypeOK
<1>2. /\ \A q \in request : asked'[q] = asked[q]
      /\ \A a \in answered : asked'[a.request] = asked[a.request]
  <2>1. UNCHANGED asked \/ \E q \in Requests : Ask(q)
    BY DEF LifecycleNext, EngineStep, Client, Serve, GiveUp, Accept, InsertRevision,
           WriteAudit, Fail, Reply, Stop
  <2>. QED  BY <1>1, <2>1 DEF Ask, Answered
<1>3. /\ \A q \in request : Succeeded(q) => Succeeded(q)'
      /\ \A a \in answered : Succeeded(a.request) => Succeeded(a.request)'
  BY <1>1, <1>2, SuccessLasts
<1>4. \A a \in answered' : a \in answered \/
        (cpc = "reply" /\ a.request \in request /\ a.answer = answer)
  BY DEF LifecycleNext, EngineStep, Client, Serve, Ask, GiveUp, Accept, InsertRevision,
         WriteAudit, Fail, Reply, Stop
<1>. QED  BY <1>3, <1>4 DEF LifecycleInv, ControlIsRight, AnswersAreRight

\* The inductive invariant holds in every state.
THEOREM LifecycleInvariant == LifecycleSpec => []LifecycleInv
<1>1. LifecycleInit => LifecycleInv
  <2>. SUFFICES ASSUME LifecycleInit PROVE LifecycleInv
    OBVIOUS
  <2>1. EngineInv
    BY InitialInvariant DEF LifecycleInit
  <2>2. LifecycleTypeOK
    BY FS_EmptySet, RequestsAssumption DEF LifecycleTypeOK, LifecycleInit, Init, ControlSteps
  <2>3. Visible = {} /\ incidentRows = {} /\ audits = {} /\ revision = {} /\ answered = {}
    BY DEF LifecycleInit, Init, Visible, CommittedIncidents
  <2>4. ControlIsRight
    BY <2>3 DEF LifecycleInit, ControlIsRight, Holds
  <2>. QED  BY <2>1, <2>2, <2>3, <2>4
            DEF LifecycleInv, HistoryFollows, Unbroken, Ordered, DeadlineIsFixed,
                OneRevisionPerId, AuditsRecord, AnswersAreRight
<1>2. LifecycleInv /\ [LifecycleNext]_lifecycleVars => LifecycleInv'
  <2>. SUFFICES ASSUME LifecycleInv, [LifecycleNext]_lifecycleVars PROVE LifecycleInv'
    OBVIOUS
  <2>1. EngineInv' /\ LifecycleTypeOK' /\ ControlIsRight' /\ AnswersAreRight'
    BY EngineIsKept, ControlKeepsTypes, ControlStaysRight, AnswersStayRight
  <2>2. /\ HistoryFollows' /\ Unbroken(Visible') /\ Ordered(Visible')
        /\ DeadlineIsFixed' /\ OneRevisionPerId' /\ AuditsRecord'
    BY HistoriesAreKept
  <2>. QED  BY <2>1, <2>2 DEF LifecycleInv
<1>. QED  BY <1>1, <1>2, PTL DEF LifecycleSpec

(***************************************************************************)
(* What follows from it                                                    *)
(***************************************************************************)
\* The engine's tables and locals keep their types next to the control thread.
THEOREM EngineTypeCorrect == LifecycleSpec => []TypeOK
<1>1. LifecycleInv => TypeOK
  BY DEF LifecycleInv, EngineInv
<1>. QED  BY <1>1, LifecycleInvariant, PTL

\* The control thread keeps its types, and holds a revision only to write it.
THEOREM LifecycleTypeCorrect == LifecycleSpec => []LifecycleTypeOK
<1>1. LifecycleInv => LifecycleTypeOK
  BY DEF LifecycleInv
<1>. QED  BY <1>1, LifecycleInvariant, PTL

\* No two writers give an incident the same revision, whatever either left behind.
THEOREM LifecycleWritesOnce == LifecycleSpec => []WrittenOnce
<1>1. LifecycleInv => WrittenOnce
  BY DEF LifecycleInv, EngineInv
<1>. QED  BY <1>1, LifecycleInvariant, PTL

\* Evidence never slides the deadline of an incident, and closing it sets the last
\* one: the lateness after its closure.
THEOREM DeadlinesAreFixed == LifecycleSpec => []DeadlineIsFixed
<1>1. LifecycleInv => DeadlineIsFixed
  BY DEF LifecycleInv
<1>. QED  BY <1>1, LifecycleInvariant, PTL

\* Each audit row is the only one of its transition, names the revision the
\* transition wrote, and the status of the visible revision before that one.
THEOREM AuditsTellTheTruth == LifecycleSpec => []AuditsTellTheHistory
<1>1. ASSUME LifecycleInv, NEW a \in audits
      PROVE  /\ \A b \in audits : a.incident = b.incident
                                  /\ (a.id = b.id \/ a.revision = b.revision) => a = b
             /\ \A r \in incidentRows : r.id = a.incident /\ r.token = a.id
                                    => r.revision = a.revision /\ r.status = a.to
             /\ \E r \in CommittedIncidents(incidentRows) :
                  /\ r.id = a.incident /\ r.revision < a.revision /\ r.status = a.from
                  /\ ~\E q \in CommittedIncidents(incidentRows) :
                        q.id = r.id /\ r.revision < q.revision /\ q.revision < a.revision
  <2>1. \A b \in audits : \E n \in incidentRows : n.token \notin Inputs /\ b = AuditOf(n)
    BY <1>1 DEF LifecycleInv, AuditsRecord
  <2>2. PICK n \in incidentRows : n.token \notin Inputs /\ a = AuditOf(n)
    BY <2>1
  <2>3. /\ \A r, q \in incidentRows : r.id = q.id /\ r.revision = q.revision => r = q
        /\ \A r, q \in incidentRows :
             r.id = q.id /\ r.token = q.token /\ r.token \notin Inputs => r = q
        /\ \A r \in incidentRows : r.revision \in Nat
    BY <1>1 DEF LifecycleInv, EngineInv, WrittenOnce, OneRevisionPerId, TypeOK, IncidentRow
  <2>4. /\ a.incident = n.id /\ a.id = n.token /\ a.revision = n.revision
        /\ a.to = n.status /\ a.from = n.from
    BY <2>2 DEF AuditOf
  <2>5. ASSUME NEW b \in audits, a.incident = b.incident, a.id = b.id \/ a.revision = b.revision
        PROVE  a = b
    <3>1. PICK m \in incidentRows : m.token \notin Inputs /\ b = AuditOf(m)
      BY <2>1
    <3>2. b.incident = m.id /\ b.id = m.token /\ b.revision = m.revision
      BY <3>1 DEF AuditOf
    <3>3. n = m
      BY <2>2, <2>3, <2>4, <2>5, <3>2
    <3>. QED  BY <2>2, <3>1, <3>3
  <2>6. \A r \in incidentRows : r.id = a.incident /\ r.token = a.id
                            => r.revision = a.revision /\ r.status = a.to
    BY <2>2, <2>3, <2>4
  <2>7. PICK p \in Visible : Transits(p, n)
    BY <1>1, <2>2 DEF LifecycleInv, HistoryFollows
  <2>8. /\ p.id = a.incident /\ a.revision = p.revision + 1 /\ p.status = a.from
        /\ p.revision \in Nat
    BY <2>3, <2>4, <2>7 DEF Transits, Precedes, Visible, CommittedIncidents
  <2>9. \A q \in Visible : q.revision \in Nat
    BY <2>3 DEF Visible, CommittedIncidents
  <2>. QED  BY <2>5, <2>6, <2>7, <2>8, <2>9 DEF Visible
<1>2. LifecycleInv => AuditsTellTheHistory
  BY <1>1 DEF AuditsTellTheHistory
<1>. QED  BY <1>2, LifecycleInvariant, PTL

\* A transition answered with success is visible, whatever failed or stopped since
\* and however often it was tried.
THEOREM SuccessesAreVisible == LifecycleSpec => []SuccessIsVisible
<1>1. ASSUME LifecycleInv, NEW a \in answered, a.answer = "ok"
      PROVE  \E r \in CurrentIncidents :
               r.id = asked[a.request] /\ Rank(r.status) >= Rank(a.request.target)
  <2>1. PICK r \in CurrentIncidents :
          r.id = asked[a.request] /\ Rank(a.request.target) <= Rank(r.status)
    BY <1>1 DEF LifecycleInv, AnswersAreRight, Succeeded
  <2>. QED  BY <2>1
<1>2. LifecycleInv => SuccessIsVisible
  BY <1>1 DEF SuccessIsVisible
<1>. QED  BY <1>2, LifecycleInvariant, PTL

\* No later revision, of the engine or of a transition, undoes a visible transition
\* or moves the instant and the deadline of a closure.
THEOREM TransitionsLast == LifecycleSpec => TransitionsAreFinal
<1>1. ASSUME LifecycleInv, LifecycleInv', [LifecycleNext]_lifecycleVars,
             NEW r \in CurrentIncidents, NEW q \in CurrentIncidents', q.id = r.id
      PROVE  /\ Rank(q.status) >= Rank(r.status)
             /\ r.status = "closed" => q.closedAt = r.closedAt /\ q.deadline = r.deadline
  <2>1. r \in Visible' /\ q \in Visible'
    BY <1>1, SystemGrows DEF CurrentIncidents, Latest, Visible
  <2>2. r.revision <= q.revision
    BY <1>1, <2>1 DEF CurrentIncidents, Latest, Visible
  <2>3. NotBefore(r, q)
    BY <1>1, <2>1, <2>2 DEF LifecycleInv, Ordered
  <2>. QED  BY <2>3 DEF NotBefore
<1>2. LifecycleInv /\ LifecycleInv' /\ [LifecycleNext]_lifecycleVars =>
        [\A r \in CurrentIncidents : \A q \in CurrentIncidents' : q.id = r.id =>
           /\ Rank(q.status) >= Rank(r.status)
           /\ r.status = "closed" => q.closedAt = r.closedAt
                                     /\ q.deadline = r.deadline]_lifecycleVars
  BY <1>1
<1>. QED  BY <1>2, LifecycleInvariant, PTL DEF LifecycleSpec, TransitionsAreFinal

(***************************************************************************)
(* The evidence invariant next to the control thread                       *)
(***************************************************************************)
\* What a transition finds: it holds the lock, no row is provisional but its own,
\* and its revision follows the one that is served unless it is served already.
LEMMA TransitionFollowsCurrent ==
  ASSUME LifecycleInv, NEW n \in incidentRows, n.token \notin Inputs, n \notin Visible
  PROVE  \E p \in CurrentIncidents : Transits(p, n)
<1>1. PICK p \in Visible : Transits(p, n)
  BY DEF LifecycleInv, HistoryFollows
<1>2. /\ \A r \in incidentRows : r.revision \in Nat
      /\ \A r, q \in incidentRows : r.id = q.id /\ r.revision = q.revision => r = q
      /\ Visible \subseteq incidentRows
  BY DEF LifecycleInv, EngineInv, WrittenOnce, TypeOK, IncidentRow, Visible, CommittedIncidents
<1>3. n.id = p.id /\ n.revision = p.revision + 1
  BY <1>1 DEF Transits, Precedes
<1>4. ASSUME NEW q \in Visible, q.id = p.id PROVE q.revision <= p.revision
  <2>1. CASE n.revision <= q.revision
    <3>1. n.revision \in 1 .. q.revision
      BY <1>1, <1>2, <1>3, <2>1
    <3>2. PICK m \in Visible : m.id = q.id /\ m.revision = n.revision
      BY <3>1 DEF LifecycleInv, Unbroken
    <3>. QED  BY <1>2, <1>3, <1>4, <3>2
  <2>. QED  BY <1>1, <1>2, <1>3, <2>1
<1>5. p \in CurrentIncidents
  BY <1>1, <1>4 DEF CurrentIncidents, Latest, Visible
<1>. QED  BY <1>1, <1>5

\* The revision a transition inserts is not served before its audit row is there.
LEMMA InsertIsInvisible ==
  ASSUME LifecycleInv, InsertRevision
  PROVE  /\ Visible' = Visible /\ pc = "idle" /\ pc' = "idle"
         /\ \A r \in revision : r.token \notin Inputs /\ r.revision # 1
<1>1. /\ pc = "idle" /\ cpc = "insert" /\ incidentRows' = incidentRows \cup revision
      /\ UNCHANGED <<pc, ledger, audits>>
  BY DEF InsertRevision, LifecycleInv, ControlIsRight, Holds
<1>2. ASSUME NEW r \in revision
      PROVE  /\ r.token \notin Inputs /\ r.revision # 1
             /\ \A a \in audits : ~ (a.id = r.token /\ a.incident = r.id)
  <2>1. r.token \notin Inputs /\ Rivals(incidentRows, r) = {}
    BY <1>1 DEF LifecycleInv, ControlIsRight
  <2>2. PICK p \in Visible : Transits(p, r)
    BY <1>1 DEF LifecycleInv, ControlIsRight
  <2>3. r.revision # 1
    <3>1. \A q \in incidentRows : q.revision \in Nat /\ q.revision # 0
      BY RowsAreServed DEF LifecycleInv, Servable
    <3>. QED  BY <2>2, <3>1 DEF Transits, Precedes, Visible, CommittedIncidents
  <2>4. ASSUME NEW a \in audits, a.id = r.token, a.incident = r.id PROVE FALSE
    <3>1. PICK q \in incidentRows : a = AuditOf(q)
      BY DEF LifecycleInv, AuditsRecord
    <3>. QED  BY <2>1, <2>4, <3>1 DEF AuditOf, Rivals
  <2>. QED  BY <2>1, <2>3, <2>4
<1>3. ledger \subseteq Inputs
  BY DEF LifecycleInv, EngineInv, TypeOK
<1>. QED  BY <1>1, <1>2, <1>3 DEF Visible, CommittedIncidents

\* An audit row makes one revision visible, or none.
LEMMA AuditShowsTransition ==
  ASSUME LifecycleInv, WriteAudit
  PROVE  /\ pc = "idle" /\ pc' = "idle" /\ \A a \in audits' : a.id \notin Inputs
         /\ UNCHANGED <<incidentRows, linkRows, episodeRows, ledger>>
         /\ \/ Visible' = Visible
            \/ \E n \in incidentRows :
                 /\ n.token \notin Inputs /\ n \notin Visible
                 /\ Visible' = Visible \cup {n}
<1>1. /\ pc = "idle" /\ cpc = "audit"
      /\ UNCHANGED <<pc, incidentRows, linkRows, episodeRows, ledger>>
  BY DEF WriteAudit, LifecycleInv, ControlIsRight, Holds
<1>2. /\ revision \subseteq incidentRows
      /\ \A r \in revision : r.token \notin Inputs /\ \A s \in revision : s = r
      /\ \A r, q \in incidentRows : r.id = q.id /\ r.revision = q.revision => r = q
  BY <1>1 DEF LifecycleInv, ControlIsRight, EngineInv, WrittenOnce
<1>3. /\ audits \subseteq audits'
      /\ \A a \in audits' \ audits : \E r \in revision : a = AuditOf(r)
  BY DEF WriteAudit
<1>4. \A a \in audits : a.id \notin Inputs
  BY DEF LifecycleInv, AuditsRecord, AuditOf
<1>5. \A a \in audits' : a.id \notin Inputs
  BY <1>2, <1>3, <1>4 DEF AuditOf
<1>6. ASSUME NEW r \in Visible', r \notin Visible
      PROVE  r \in revision /\ r \in incidentRows
  <2>1. r \in incidentRows /\ r.token \notin ledger
    BY <1>1, <1>6 DEF Visible, CommittedIncidents
  <2>2. PICK a \in audits' : a.id = r.token /\ a.incident = r.id /\ a.revision = r.revision
    BY <1>1, <1>6, <2>1 DEF Visible, CommittedIncidents
  <2>3. a \notin audits
    BY <1>6, <2>1, <2>2 DEF Visible, CommittedIncidents
  <2>4. PICK q \in revision : a = AuditOf(q)
    BY <1>3, <2>3
  <2>. QED  BY <1>2, <2>1, <2>2, <2>4 DEF AuditOf
<1>7. Visible \subseteq Visible'
  BY <1>1, <1>3 DEF Visible, CommittedIncidents
<1>8. ASSUME NEW n \in Visible', n \notin Visible
      PROVE  n \in incidentRows /\ n.token \notin Inputs /\ Visible' = Visible \cup {n}
  BY <1>2, <1>6, <1>7, <1>8
<1>. QED  BY <1>1, <1>5, <1>7, <1>8

\* The evidence invariant does not depend on what the control thread has besides
\* tables, and none of it is at stake between two cycles when the views are as before.
LEMMA IdleEvidence ==
  ASSUME LifecycleInv, EvidenceInv, pc' = "idle", pc = "idle",
         contexts' = contexts \/ contexts' = <<>>,
         UNCHANGED <<linkRows, episodeRows, ledger>>,
         \A a \in audits' : a.id \notin Inputs,
         \A r \in incidentRows' : r \in incidentRows \/ (r.token \notin Inputs /\ r.revision # 1)
  PROVE  /\ Clean' /\ ContextsAreWindows' /\ FirstIsVisible' /\ FollowsVisible'
         /\ VisibleEpisodes' = VisibleEpisodes /\ Committed(linkRows)' = Committed(linkRows)
<1>1. /\ \A r \in incidentRows : IF r.token \in Inputs THEN r.token \in ledger ELSE r.revision # 1
      /\ \A l \in linkRows : l.token \in ledger
      /\ \A e \in episodeRows : e.token \in ledger
  BY DEF EvidenceInv, Clean, Persisting
<1>2. Clean'
  BY <1>1 DEF Clean
<1>3. ContextsAreWindows'
  BY DEF EvidenceInv, ContextsAreWindows
<1>4. VisibleEpisodes' = VisibleEpisodes /\ Committed(linkRows)' = Committed(linkRows)
  BY DEF VisibleEpisodes, Committed
<1>5. FirstIsVisible'
  BY <1>4 DEF EvidenceInv, FirstIsVisible
<1>6. FollowsVisible'
  BY DEF FollowsVisible, Persisting
<1>. QED  BY <1>2, <1>3, <1>4, <1>5, <1>6

\* What is coherent stays so when the views are as before.
LEMMA CoherentAsBefore ==
  ASSUME Coherent, Visible' = Visible, VisibleEpisodes' = VisibleEpisodes,
         Committed(linkRows)' = Committed(linkRows)
  PROVE  Coherent'
<1>1. /\ CurrentIncidents' = CurrentIncidents /\ Episodes' = Episodes /\ Linked' = Linked
  BY CurrentIsKept
<1>. QED  BY <1>1 DEF Coherent, OneQualification, Owns, WellFormed

\* A transition that becomes visible is served in the place of the one it follows.
LEMMA TransitionIsServed ==
  ASSUME LifecycleInv, NEW n \in incidentRows, n.token \notin Inputs,
         n \notin Visible, Visible' = Visible \cup {n}
  PROVE  \E p \in CurrentIncidents :
           Transits(p, n) /\ CurrentIncidents' = (CurrentIncidents \ {p}) \cup {n}
<1>1. PICK p \in CurrentIncidents : Transits(p, n)
  BY TransitionFollowsCurrent
<1>2. n.id = p.id /\ n.revision = p.revision + 1
  BY <1>1 DEF Transits, Precedes
<1>3. /\ \A v \in Visible : v.revision \in Nat
      /\ \A v, w \in Visible : v.id = w.id /\ v.revision = w.revision => v = w
  BY DEF LifecycleInv, EngineInv, WrittenOnce, TypeOK, IncidentRow, Visible, CommittedIncidents
<1>4. p \in Latest(Visible)
  BY DEF CurrentIncidents, Visible
<1>5. Latest(Visible \cup {n}) = (Latest(Visible) \ {p}) \cup {n}
  BY <1>2, <1>3, <1>4, ServeNext
<1>6. CurrentIncidents' = (CurrentIncidents \ {p}) \cup {n}
  BY <1>5 DEF CurrentIncidents, Visible, Latest
<1>. QED  BY <1>1, <1>6

\* It has the same evidence, opened by the same inputs.
LEMMA TransitionKeepsCoherent ==
  ASSUME LifecycleInv, EvidenceInv, NEW n \in incidentRows, n.token \notin Inputs,
         n \notin Visible, Visible' = Visible \cup {n},
         VisibleEpisodes' = VisibleEpisodes, Committed(linkRows)' = Committed(linkRows)
  PROVE  Coherent'
<1>1. PICK p \in CurrentIncidents :
        Transits(p, n) /\ CurrentIncidents' = (CurrentIncidents \ {p}) \cup {n}
  BY TransitionIsServed
<1>2. /\ n.id = p.id /\ n.revision = p.revision + 1
      /\ n.qualifying = p.qualifying /\ n.members = p.members
  BY <1>1 DEF Transits, Precedes
<1>3. CurrentIncidents' = (CurrentIncidents \ {p}) \cup {n}
  BY <1>1
<1>4. Episodes' = Episodes /\ Linked' = Linked
  BY DEF Episodes, Owning, CurrentEpisodes, Latest, VisibleEpisodes, Linked
<1>5. \A q \in CurrentIncidents : q.id = p.id => q = p
  BY OneRowIsVisible DEF LifecycleInv, EngineInv
<1>6. /\ \A r \in CurrentIncidents :
           WellFormed(r) /\ r.members = Linked[r.id] /\ \E s \in Episodes : Owns(s, r)
      /\ \A x \in Inputs : Linked[x] # {} => \E r \in CurrentIncidents : r.id = x
      /\ \A s \in Episodes : \E r \in CurrentIncidents : r.id = s.incident
      /\ \A s, t \in Episodes : s.incident = t.incident => s = t
      /\ \A r, q \in CurrentIncidents : r # q => r.qualifying \cap q.qualifying = {}
  BY DEF EvidenceInv, Coherent, OneQualification
<1>7. WellFormed(n) /\ n.members = Linked[n.id] /\ \E s \in Episodes : Owns(s, n)
  BY <1>2, <1>6 DEF WellFormed, Owns
<1>8. /\ \A r \in CurrentIncidents' :
           WellFormed(r) /\ r.members = Linked'[r.id] /\ \E s \in Episodes' : Owns(s, r)
      /\ \A x \in Inputs : Linked'[x] # {} => \E r \in CurrentIncidents' : r.id = x
      /\ \A s \in Episodes' : \E r \in CurrentIncidents' : r.id = s.incident
      /\ \A s, t \in Episodes' : s.incident = t.incident => s = t
      /\ \A r, q \in CurrentIncidents' : r # q => r.qualifying \cap q.qualifying = {}
  BY <1>2, <1>3, <1>4, <1>6, <1>7
<1>. QED  BY <1>8 DEF Coherent, OneQualification, WellFormed, Owns

\* Every step of either thread keeps the evidence invariant.
LEMMA EvidenceSurvivesTransitions ==
  ASSUME LifecycleInv, EvidenceInv, NothingIsLeftBehind', [LifecycleNext]_lifecycleVars
  PROVE  EvidenceInv'
<1>1. CASE [Next]_vars
  BY <1>1, EvidenceIsKept DEF LifecycleInv
<1>2. CASE InsertRevision
  <2>1. /\ Visible' = Visible /\ pc = "idle" /\ pc' = "idle"
        /\ UNCHANGED <<contexts, linkRows, episodeRows, ledger, audits>>
        /\ \A r \in incidentRows' :
             r \in incidentRows \/ (r.token \notin Inputs /\ r.revision # 1)
    BY <1>2, InsertIsInvisible DEF InsertRevision
  <2>2. \A a \in audits' : a.id \notin Inputs
    BY <2>1 DEF EvidenceInv, Clean
  <2>3. /\ Clean' /\ ContextsAreWindows' /\ FirstIsVisible' /\ FollowsVisible'
        /\ VisibleEpisodes' = VisibleEpisodes /\ Committed(linkRows)' = Committed(linkRows)
    BY <2>1, <2>2, IdleEvidence
  <2>. QED  BY <2>1, <2>3, CoherentAsBefore DEF EvidenceInv
<1>3. CASE WriteAudit
  <2>1. /\ pc = "idle" /\ pc' = "idle" /\ \A a \in audits' : a.id \notin Inputs
        /\ UNCHANGED <<incidentRows, linkRows, episodeRows, ledger, contexts>>
    BY <1>3, AuditShowsTransition DEF WriteAudit
  <2>2. /\ Clean' /\ ContextsAreWindows' /\ FirstIsVisible' /\ FollowsVisible'
        /\ VisibleEpisodes' = VisibleEpisodes /\ Committed(linkRows)' = Committed(linkRows)
    BY <2>1, IdleEvidence
  <2>3. CASE Visible' = Visible
    BY <2>2, <2>3, CoherentAsBefore DEF EvidenceInv
  <2>4. ASSUME NEW n \in incidentRows, n.token \notin Inputs, n \notin Visible,
               Visible' = Visible \cup {n}
        PROVE  Coherent'
    BY <2>2, <2>4, TransitionKeepsCoherent
  <2>. QED  BY <1>3, <2>2, <2>3, <2>4, AuditShowsTransition DEF EvidenceInv
<1>4. CASE Stop
  <2>1. CASE pc # "idle"
    <3>1. Crash
      BY <1>4, <2>1 DEF Stop, Crash
    <3>. QED  BY <1>1, <3>1 DEF Next
  <2>2. CASE pc = "idle"
    <3>1. /\ pc' = "idle" /\ contexts' = <<>>
          /\ UNCHANGED <<incidentRows, linkRows, episodeRows, ledger, audits>>
      BY <1>4 DEF Stop, EndCycle
    <3>2. \A a \in audits' : a.id \notin Inputs
      BY <3>1 DEF EvidenceInv, Clean
    <3>3. /\ Clean' /\ ContextsAreWindows' /\ FirstIsVisible' /\ FollowsVisible'
          /\ VisibleEpisodes' = VisibleEpisodes /\ Committed(linkRows)' = Committed(linkRows)
      BY <2>2, <3>1, <3>2, IdleEvidence
    <3>4. Visible' = Visible
      BY <3>1 DEF Visible, CommittedIncidents
    <3>. QED  BY <3>3, <3>4, CoherentAsBefore DEF EvidenceInv
  <2>. QED  BY <2>1, <2>2
<1>. QED  BY <1>1, <1>2, <1>3, <1>4, StepsOfTheSystem

(***************************************************************************)
(* What a closed incident takes                                            *)
(***************************************************************************)
\* A step that ledgers an input links only what occurred before the closure.
LEMMA MarkRespectsClosure ==
  ASSUME LifecycleInv, EvidenceInv, NothingIsLeftBehind', MarkEvaluated,
         NEW r \in CurrentIncidents, r.status = "closed",
         NEW i \in Linked'[r.id] \ Linked[r.id]
  PROVE  Occurred[i] <= r.closedAt
<1>1. /\ r.id \in Inputs /\ r \in Visible
      /\ \A q \in CurrentIncidents : q.id = r.id => q = r
  BY OneRowIsVisible DEF LifecycleInv, EngineInv, TypeOK, IncidentRow, CurrentIncidents, Latest,
                         CommittedIncidents, Visible
<1>2. r.id = decision.anchor /\ i \in decision.links
  <2>1. Linked'[r.id] = Linked[r.id] \cup IF r.id = decision.anchor THEN decision.links ELSE {}
    BY <1>1, MarkShowsDecision DEF LifecycleInv, EvidenceInv
  <2>. QED  BY <2>1
<1>3. EnrichesOne(decision, candidate)
  <2>1. ~ Ignores(decision, candidate)
    BY <1>2 DEF Ignores
  <2>2. ~ OpensOne(decision, candidate)
    BY <1>1, <1>2 DEF OpensOne
  <2>3. pc \in Persisting
    BY DEF MarkEvaluated, Persisting
  <2>. QED  BY <2>1, <2>2, <2>3 DEF EvidenceInv, FollowsVisible
<1>. QED  BY <1>1, <1>2, <1>3 DEF EnrichesOne

\* Nothing else links anything.
LEMMA OnlyMarkLinks ==
  ASSUME LifecycleInv, EvidenceInv, [LifecycleNext]_lifecycleVars, ~ MarkEvaluated
  PROVE  Linked' = Linked
<1>1. CASE [Next]_vars
  BY <1>1, VisibleIsKept DEF LifecycleInv, EvidenceInv, Linked
<1>2. CASE InsertRevision \/ WriteAudit \/ Stop
  <2>1. UNCHANGED <<linkRows, ledger>>
    BY <1>2 DEF InsertRevision, WriteAudit, Stop
  <2>. QED  BY <2>1 DEF Linked, Committed
<1>. QED  BY <1>1, <1>2, StepsOfTheSystem

(***************************************************************************)
(* What transitions do to what is served                                   *)
(***************************************************************************)
\* A step of the control thread, or a stop, serves the same evidence: it serves the
\* same revisions, or a transition in the place of the one it follows.
LEMMA ControlServesTheSame ==
  ASSUME LifecycleInv, EvidenceInv, InsertRevision \/ WriteAudit \/ Stop
  PROVE  /\ ledger' = ledger /\ Linked' = Linked /\ condition' = condition
         /\ \/ CurrentIncidents' = CurrentIncidents
            \/ \E p \in CurrentIncidents, n \in incidentRows :
                 Transits(p, n) /\ CurrentIncidents' = (CurrentIncidents \ {p}) \cup {n}
<1>1. UNCHANGED <<linkRows, ledger, condition>>
  BY DEF InsertRevision, WriteAudit, Stop
<1>2. Linked' = Linked
  BY <1>1 DEF Linked, Committed
<1>3. CASE Visible' = Visible
  BY <1>1, <1>2, <1>3 DEF CurrentIncidents, Latest, Visible
<1>4. ASSUME NEW n \in incidentRows, n.token \notin Inputs, n \notin Visible,
             Visible' = Visible \cup {n}
      PROVE  \E p \in CurrentIncidents :
               Transits(p, n) /\ CurrentIncidents' = (CurrentIncidents \ {p}) \cup {n}
  BY <1>4, TransitionIsServed
<1>5. Stop => Visible' = Visible
  BY DEF Stop, Visible, CommittedIncidents
<1>. QED  BY <1>1, <1>2, <1>3, <1>4, <1>5, InsertIsInvisible, AuditShowsTransition

\* A visible incident stays, at the same revision or a later one, with its evidence
\* and the inputs that opened it.
LEMMA ServedOnlyGrows ==
  ASSUME LifecycleInv, EvidenceInv, NothingIsLeftBehind', [LifecycleNext]_lifecycleVars,
         NEW r \in CurrentIncidents
  PROVE  \E q \in CurrentIncidents' :
           /\ q.id = r.id /\ q.revision >= r.revision
           /\ r.members \subseteq q.members /\ q.qualifying = r.qualifying
<1>1. \E q \in CurrentIncidents' :
        q.id = r.id /\ r.members \subseteq q.members /\ q.qualifying = r.qualifying
  <2>1. CASE [Next]_vars /\ ~ MarkEvaluated
    <3>1. CurrentIncidents' = CurrentIncidents
      BY <2>1, VisibleIsKept, CurrentIsKept DEF LifecycleInv, EvidenceInv
    <3>. QED  BY <3>1
  <2>2. CASE MarkEvaluated
    <3>1. EngineInv /\ pc \in Persisting
      BY <2>2 DEF LifecycleInv, MarkEvaluated, Persisting
    <3>2. CASE Ignores(decision, candidate)
      BY <2>2, <3>1, <3>2, MarkIgnores
    <3>3. CASE OpensOne(decision, candidate)
      <4>1. PICK n : CurrentIncidents' = CurrentIncidents \cup {n}
        BY <2>2, <3>1, <3>3, MarkOpens
      <4>. QED  BY <4>1
    <3>4. CASE EnrichesOne(decision, candidate)
      <4>1. PICK p \in CurrentIncidents, n \in incidentRows :
              /\ CurrentIncidents' = (CurrentIncidents \ {p}) \cup {n}
              /\ n.id = p.id /\ n.qualifying = p.qualifying /\ p.members \subseteq n.members
        BY <2>2, <3>1, <3>4, MarkEnriches
      <4>2. CASE r = p
        BY <4>1, <4>2
      <4>3. CASE r # p
        BY <4>1, <4>3
      <4>. QED  BY <4>2, <4>3
    <3>. QED  BY <3>1, <3>2, <3>3, <3>4 DEF EvidenceInv, FollowsVisible
  <2>3. CASE InsertRevision \/ WriteAudit \/ Stop
    <3>1. CASE CurrentIncidents' = CurrentIncidents
      BY <3>1
    <3>2. ASSUME NEW p \in CurrentIncidents, NEW n \in incidentRows, Transits(p, n),
                 CurrentIncidents' = (CurrentIncidents \ {p}) \cup {n}
          PROVE  \E q \in CurrentIncidents' :
                   q.id = r.id /\ r.members \subseteq q.members /\ q.qualifying = r.qualifying
      <4>1. n.id = p.id /\ n.members = p.members /\ n.qualifying = p.qualifying
        BY <3>2 DEF Transits, Precedes
      <4>. QED  BY <3>2, <4>1
    <3>. QED  BY <2>3, <3>1, <3>2, ControlServesTheSame
  <2>. QED  BY <2>1, <2>2, <2>3, StepsOfTheSystem
<1>2. PICK q \in CurrentIncidents' :
        q.id = r.id /\ r.members \subseteq q.members /\ q.qualifying = r.qualifying
  BY <1>1
<1>3. r \in Visible'
  BY SystemGrows DEF CurrentIncidents, Latest, Visible
<1>4. r.revision <= q.revision
  BY <1>2, <1>3 DEF CurrentIncidents, Latest, Visible
<1>5. r.revision \in Nat /\ q.revision \in Nat
  <2>1. EngineInv'
    BY EngineIsKept
  <2>. QED  BY <1>3, <2>1 DEF EngineInv, TypeOK, IncidentRow, Visible, CommittedIncidents,
                              CurrentIncidents, Latest
<1>. QED  BY <1>2, <1>4, <1>5

\* A transition takes over what opened the incident.
LEMMA TransitionsKeepOpening ==
  ASSUME LifecycleInv, OpenedByRule, [LifecycleNext]_lifecycleVars
  PROVE  OpenedByRule'
<1>1. CASE [Next]_vars
  BY <1>1, OpeningIsKept DEF LifecycleInv
<1>2. CASE InsertRevision \/ WriteAudit \/ Stop
  <2>1. /\ condition' = condition /\ decision'.incident \subseteq decision.incident
        /\ incidentRows' = incidentRows \/ (incidentRows' = incidentRows \cup revision
                                            /\ cpc = "insert")
    BY <1>2 DEF InsertRevision, WriteAudit, Stop, EndCycle, Stateless
  <2>2. \A M : M \in Qualifying(Inputs) => (M \in Qualifying(Inputs))'
    BY ZenonT(40), <2>1 DEF Qualifying, Fulfils, Stages
  <2>3. ASSUME NEW n \in revision, cpc = "insert" PROVE n.qualifying \in Qualifying(Inputs)
    <3>1. PICK p \in Visible : Transits(p, n)
      BY <2>3 DEF LifecycleInv, ControlIsRight
    <3>. QED  BY <3>1 DEF Transits, Precedes, Visible, CommittedIncidents, OpenedByRule
  <2>. QED  BY <2>1, <2>2, <2>3 DEF OpenedByRule
<1>. QED  BY <1>1, <1>2, StepsOfTheSystem

\* Next to the control thread the engine still takes steps of the contract, and a
\* transition is a step that shows nothing.
LEMMA TransitionsRefine ==
  ASSUME LifecycleInv, EvidenceInv, NothingIsLeftBehind', QualifyingSatisfiesRule',
         [LifecycleNext]_lifecycleVars
  PROVE  ContractStep /\ condition' = condition
<1>1. CASE [Next]_vars
  <2>1. condition' = condition
    BY <1>1, TablesGrow
  <2>2. ContractStep
    BY <1>1, QuietStepsRefine, MarkRefines DEF LifecycleInv, EvidenceInv
  <2>. QED  BY <2>1, <2>2
<1>2. CASE InsertRevision \/ WriteAudit \/ Stop
  <2>1. ledger' = ledger \cup {} /\ Linked' = Linked /\ condition' = condition
    BY <1>2, ControlServesTheSame
  <2>2. Shown' = Shown
    <3>1. CASE CurrentIncidents' = CurrentIncidents
      BY <2>1, <3>1 DEF Shown, View
    <3>2. ASSUME NEW p \in CurrentIncidents, NEW n \in incidentRows, Transits(p, n),
                 CurrentIncidents' = (CurrentIncidents \ {p}) \cup {n}
          PROVE  Shown' = Shown
      <4>1. n.id = p.id /\ n.qualifying = p.qualifying
        BY <3>2 DEF Transits, Precedes
      <4>2. View(n) = View(p) /\ \A r : View(r)' = View(r)
        BY <2>1, <4>1 DEF View
      <4>3. Shown' = {View(r) : r \in (CurrentIncidents \ {p}) \cup {n}}
        BY <3>2, <4>2 DEF Shown
      <4>. QED  BY <3>2, <4>2, <4>3 DEF Shown
    <3>. QED  BY <1>2, <3>1, <3>2, ControlServesTheSame
  <2>3. {} \in SUBSET Inputs
    OBVIOUS
  <2>4. ContractStep
    BY <2>1, <2>2, <2>3 DEF ContractStep
  <2>. QED  BY <2>1, <2>4
<1>. QED  BY <1>1, <1>2, StepsOfTheSystem

(***************************************************************************)
(* Theorems                                                                *)
(***************************************************************************)
\* Incidents, links and episodes tell the same with acknowledgements and closures
\* between the cycles, as long as no stop and no conflict leaves rows behind.
THEOREM EvidenceNextToTransitions ==
  LifecycleSpec /\ []NothingIsLeftBehind => []EvidenceInv
<1>1. LifecycleInit => EvidenceInv
  BY InitialEvidence DEF LifecycleInit
<1>2. /\ LifecycleInv /\ EvidenceInv /\ NothingIsLeftBehind' /\ [LifecycleNext]_lifecycleVars
      => EvidenceInv'
  BY EvidenceSurvivesTransitions
<1>. QED  BY <1>1, <1>2, LifecycleInvariant, PTL DEF LifecycleSpec

\* Whatever its status, the snapshot of a visible incident agrees with the visible
\* links, exactly one visible episode owns its evidence, and no input qualifies two
\* incidents.
THEOREM TransitionsKeepEvidence ==
  LifecycleSpec /\ []NothingIsLeftBehind
    => [](SnapshotMatchesLinks /\ EpisodeMatchesIncident /\ OneQualification)
<1>1. LifecycleInv => EngineInv
  BY DEF LifecycleInv
<1>. QED  BY <1>1, EvidenceAgrees, LifecycleInvariant, EvidenceNextToTransitions, PTL

\* A closed incident takes no evidence that occurred after it was closed, whatever
\* the engine had read before the closure and whenever the evidence arrives.
THEOREM ClosuresBoundEvidence ==
  LifecycleSpec /\ []NothingIsLeftBehind => ClosureBoundsEvidence
<1>1. ASSUME LifecycleInv, EvidenceInv, NothingIsLeftBehind', [LifecycleNext]_lifecycleVars,
             NEW r \in CurrentIncidents, r.status = "closed",
             NEW i \in Linked'[r.id] \ Linked[r.id]
      PROVE  Occurred[i] <= r.closedAt
  <2>1. MarkEvaluated
    BY <1>1, OnlyMarkLinks
  <2>. QED  BY <1>1, <2>1, MarkRespectsClosure
<1>2. /\ LifecycleInv /\ EvidenceInv /\ NothingIsLeftBehind' /\ [LifecycleNext]_lifecycleVars
      => [\A r \in CurrentIncidents : r.status = "closed" =>
            \A i \in Linked'[r.id] \ Linked[r.id] : Occurred[i] <= r.closedAt]_lifecycleVars
  BY <1>1
<1>. QED  BY <1>2, LifecycleInvariant, EvidenceNextToTransitions, PTL
          DEF LifecycleSpec, ClosureBoundsEvidence

\* A visible incident never disappears, goes back to an earlier revision, loses
\* evidence or changes the inputs that opened it, through its transitions too.
THEOREM IncidentsGrowThroughTransitions ==
  LifecycleSpec /\ []NothingIsLeftBehind => IncidentsOnlyGrow
<1>1. /\ LifecycleInv /\ EvidenceInv /\ NothingIsLeftBehind' /\ [LifecycleNext]_lifecycleVars
      => [\A r \in CurrentIncidents : \E q \in CurrentIncidents' :
            /\ q.id = r.id /\ q.revision >= r.revision
            /\ r.members \subseteq q.members /\ q.qualifying = r.qualifying]_vars
  BY ServedOnlyGrows
<1>. QED  BY <1>1, LifecycleInvariant, EvidenceNextToTransitions, PTL
          DEF LifecycleSpec, IncidentsOnlyGrow

\* Whatever stops, and whatever transitions it goes through, an incident is opened
\* by inputs that satisfy the rule.
THEOREM TransitionsKeepTheRule == LifecycleSpec => []QualifyingSatisfiesRule
<1>1. LifecycleInit => OpenedByRule
  BY DEF LifecycleInit, Init, IdleLocals, OpenedByRule, Stateless
<1>2. LifecycleInv /\ OpenedByRule /\ [LifecycleNext]_lifecycleVars => OpenedByRule'
  BY TransitionsKeepOpening
<1>3. OpenedByRule => QualifyingSatisfiesRule
  BY DEF OpenedByRule, QualifyingSatisfiesRule, CurrentIncidents, Latest, CommittedIncidents
<1>. QED  BY <1>1, <1>2, <1>3, LifecycleInvariant, PTL DEF LifecycleSpec

\* The engine and the control thread together change visible incidents as the
\* contract allows: acknowledging and closing an incident shows nothing of it.
THEOREM SystemImplementsContract ==
  LifecycleSpec /\ []NothingIsLeftBehind => ImplementsIncidentContract
<1>1. LifecycleInit => IncidentContract!IncidentInit
  <2>. SUFFICES ASSUME LifecycleInit PROVE IncidentContract!IncidentInit
    OBVIOUS
  <2>1. ledger = {} /\ CurrentIncidents = {}
    BY DEF LifecycleInit, Init, CurrentIncidents, CommittedIncidents, Latest
  <2>. QED  BY <2>1 DEF IncidentContract!IncidentInit
<1>2. /\ LifecycleInv /\ EvidenceInv /\ NothingIsLeftBehind' /\ QualifyingSatisfiesRule'
      /\ [LifecycleNext]_lifecycleVars
      => [IncidentContract!IncidentNext]_(IncidentContract!incidentVars)
  <2>. SUFFICES ASSUME LifecycleInv, EvidenceInv, NothingIsLeftBehind',
                       QualifyingSatisfiesRule', [LifecycleNext]_lifecycleVars
                PROVE  IncidentContract!IncidentNext
    OBVIOUS
  <2>1. ContractStep /\ condition' = condition
    BY TransitionsRefine
  <2>. QED  BY <2>1, ContractStepIsContract DEF LifecycleInv
<1>. QED  BY <1>1, <1>2, LifecycleInvariant, EvidenceNextToTransitions,
             TransitionsKeepTheRule, PTL
          DEF LifecycleSpec, ImplementsIncidentContract, IncidentContract!IncidentSpec
===============================================================================
