---------------------- MODULE CorrelationService_proofs ----------------------
(***************************************************************************)
(* Theorems of CorrelationService, for any number of scopes and detection  *)
(* rows, any lookback and page size, and any number of faults.             *)
(***************************************************************************)
EXTENDS CorrelationService, FiniteExtrema

USE DEF serviceVars, detections, scopes, preflight, Engine

(***************************************************************************)
(* Least elements                                                          *)
(***************************************************************************)
\* The least element of a singleton is its element.
LEMMA MinOfSingleton ==
  ASSUME NEW x \in Int PROVE Min({x}) = x
  BY DEF Min

(***************************************************************************)
(* Type correctness                                                        *)
(***************************************************************************)
\* The strengthening of ServiceTypeOK: a scope has at most one cached floor; there
\* are finitely many rows of rule state, so that counting them means something;
\* and the snapshots are compared before the comparison is used.
Compared == {"activityAgain", "generationAfter", "revalidate"}
ServiceTypeInv ==
  /\ ServiceTypeOK
  /\ floors \in [Rules -> SUBSET Int]
  /\ \A r \in Rules : \A f, g \in floors[r] : f = g
  /\ IsFiniteSet(ruleState) /\ IsFiniteSet(late)
  /\ pc \in Compared => verdict # "none"

\* Some instants have a first one.
LEMMA MinOfTimes ==
  ASSUME NEW S \in SUBSET Times, S # {}
  PROVE  /\ Min(S) \in S /\ Min(S) \in Times
         /\ \A t \in S : t \in Times /\ Min(S) <= t
<1>1. IsFiniteSet(S)
  <2>1. IsFiniteSet(0 .. MaxTime)
    BY FS_Interval, ServiceAssumption
  <2>. QED  BY <2>1, FS_Subset DEF Times
<1>2. S \in SUBSET Int
  BY ServiceAssumption DEF Times
<1>. QED  BY <1>1, <1>2, MinOfFinite

\* The first observation of an input that has one is one of its observations.
LEMMA CanonicalIsFirst ==
  ASSUME history \subseteq Rows, NEW i, Observations(i) # {}
  PROVE  /\ Canonical(i) \in Observations(i) /\ Canonical(i) \in Times
         /\ \A t \in Observations(i) : t \in Times /\ Canonical(i) <= t
<1>1. Observations(i) \subseteq Times
  BY ServiceAssumption DEF Observations
<1>. QED  BY <1>1, MinOfTimes DEF Canonical

\* Rows that do not conflict are one row, or none.
LEMMA OneRow ==
  ASSUME IsFiniteSet(ruleState), NEW r, ~ Conflicted(r)
  PROVE  \A s, q \in Raw(r) : s = q
<1>. SUFFICES ASSUME NEW s \in Raw(r), NEW q \in Raw(r), s # q PROVE FALSE
  OBVIOUS
<1>1. IsFiniteSet(Raw(r))
  BY FS_Subset DEF Raw
<1>2. /\ IsFiniteSet({s}) /\ Cardinality({s}) = 1
      /\ Cardinality({s} \cup {q}) = 2
  <2>1. IsFiniteSet({s}) /\ Cardinality({s}) = 1
    BY FS_Singleton
  <2>2. Cardinality({s} \cup {q}) = IF q \in {s} THEN 1 ELSE 2
    BY SMTT(20), <2>1, FS_AddElement
  <2>. QED  BY <2>1, <2>2
<1>3. {s} \cup {q} \in SUBSET Raw(r)
  OBVIOUS
<1>4. Cardinality({s} \cup {q}) <= Cardinality(Raw(r)) /\ Cardinality(Raw(r)) \in Nat
  BY <1>1, <1>3, FS_Subset, FS_CardinalityType
<1>. QED  BY <1>2, <1>4 DEF Conflicted

\* The initial states are well typed.
LEMMA ServiceInitType == ServiceInit => ServiceTypeInv
<1>. SUFFICES ASSUME ServiceInit PROVE ServiceTypeInv
  OBVIOUS
<1>1. ServiceTypeOK
  BY ServiceAssumption, FS_EmptySet
     DEF ServiceInit, ServiceTypeOK, Visible, Times, Rules, ServiceSteps
<1>. QED  BY <1>1, FS_EmptySet DEF ServiceInit, ServiceTypeInv, Compared

\* A turn that ends, and a cycle that ends, leave locals of the right type.
LEMMA TurnEndsTyped ==
  ASSUME ServiceTypeOK, NextRule \/ Abort
  PROVE  /\ pc' \in ServiceSteps /\ rule' \in Rules /\ floor' \in -Lookback .. MaxTime
         /\ gaps' = {} /\ verdict' = "none" /\ pc' = "start"
BY ServiceAssumption
   DEF ServiceTypeOK, NextRule, Abort, ForgetSnapshots, Rules, ServiceSteps

\* What the steps of the engine share: they leave the detections alone, so these
\* keep their types whatever the engine does.
LEMMA EngineStepTyped ==
  ASSUME ServiceTypeInv, UNCHANGED detections,
         ruleState' \subseteq State, confirmations' \subseteq State, late' \subseteq State,
         IsFiniteSet(ruleState'), IsFiniteSet(late'),
         events' \subseteq [rule : Rules, kind : Kinds],
         ledger' \subseteq [rule : Rules, input : Inputs, observed : Times],
         pc' \in ServiceSteps, rule' \in Rules, floor' \in -Lookback .. MaxTime,
         floors' \in [Rules -> SUBSET Int],
         \A r \in Rules : \A f, g \in floors'[r] : f = g,
         \A r \in Rules : floors'[r] \subseteq
            {c.floor : c \in {k \in confirmations' : k.rule = r}},
         gaps' \subseteq [row : Rows, table : {"history", "witness"}],
         verdict' \in {"none", "closed", "changed", "stable"}, faults' \in 0 .. MaxFaults,
         pc' \in Compared => verdict' # "none"
  PROVE  ServiceTypeInv'
BY DEF ServiceTypeInv, ServiceTypeOK, Visible

\* Persisting an event, or passing over a scope for one turn, keeps the types.
LEMMA TurnTyped ==
  ASSUME ServiceTypeInv, UNCHANGED <<detections, scopes, ledger, floors>>,
         faults' \in 0 .. MaxFaults,
         \/ \E kind \in Kinds : Persist(kind)
         \/ Transient
  PROVE  ServiceTypeInv'
<1>1. events' \subseteq [rule : Rules, kind : Kinds]
  BY DEF ServiceTypeInv, ServiceTypeOK, Persist, Transient
<1>2. NextRule
  BY DEF Persist, Transient, ReturnBlocked
<1>. QED
  BY <1>1, <1>2, TurnEndsTyped, EngineStepTyped DEF ServiceTypeInv, ServiceTypeOK, Compared

\* The environment keeps the types.
LEMMA EnvironmentTyped == ServiceTypeInv /\ Environment => ServiceTypeInv'
<1>. SUFFICES ASSUME ServiceTypeInv, Environment PROVE ServiceTypeInv'
  OBVIOUS
<1>. USE ServiceAssumption DEF ServiceTypeInv, ServiceTypeOK, Visible, Times
<1>1. CASE Tick
  BY <1>1 DEF Tick
<1>2. ASSUME NEW v \in Rows, BeginInsert(v) PROVE ServiceTypeInv'
  <2>1. Cardinality({v}) = 1
    BY FS_Singleton
  <2>. QED  BY <1>2, <2>1 DEF BeginInsert
<1>3. CASE Publish
  BY <1>3 DEF Publish
<1>4. CASE EndInsert
  <2>1. Cardinality({}) = 0
    BY FS_EmptySet
  <2>. QED  BY <1>4, <2>1 DEF EndInsert, Fault
<1>5. CASE Operate
  <2>1. attached' \in BOOLEAN
    BY <1>5 DEF Operate, Detach, Attach
  <2>2. faults' \in 0 .. MaxFaults
    BY <1>5 DEF Operate, Detach, Attach, Fault
  <2>. QED  BY <1>5, <2>1, <2>2 DEF Operate
<1>6. CASE LateStateLands
  BY <1>6, FS_Union, FS_EmptySet DEF LateStateLands
<1>7. ASSUME NEW r \in Rules, MergeState(r) PROVE ServiceTypeInv'
  <2>1. PICK s \in LastWritten(r) : ruleState' = (ruleState \ Raw(r)) \cup {s}
    BY <1>7 DEF MergeState
  <2>2. ruleState' \subseteq ruleState
    BY <2>1 DEF LastWritten, Raw
  <2>3. IsFiniteSet(ruleState')
    BY <2>2, FS_Subset
  <2>. QED  BY <1>7, <2>2, <2>3 DEF MergeState
<1>. QED
  BY <1>1, <1>2, <1>3, <1>4, <1>5, <1>6, <1>7 DEF Environment

\* The preflight keeps the types.
LEMMA PreflightTyped ==
  ASSUME ServiceTypeInv, Preflight, UNCHANGED <<detections, faults>>
  PROVE  ServiceTypeInv'
<1>. USE ServiceAssumption DEF ServiceTypeInv, ServiceTypeOK, ServiceSteps, Compared
<1>1. CASE StartRule
  <2>1. CASE Transient \/ Persist("contract")
    BY <1>1, <2>1, TurnTyped DEF StartRule, Kinds
  <2>2. CASE /\ Continue("gaps")
             /\ floor' = IF floors[rule] = {} THEN now - Lookback ELSE Min(floors[rule])
    <3>1. ASSUME NEW f \in floors[rule] PROVE Min(floors[rule]) = f /\ f \in -Lookback .. MaxTime
      <4>1. floors[rule] = {f} /\ f \in Int
        OBVIOUS
      <4>2. f \in -Lookback .. MaxTime
        BY DEF State
      <4>. QED  BY <4>1, <4>2, MinOfSingleton
    <3>2. floor' \in -Lookback .. MaxTime
      BY <2>2, <3>1 DEF Times
    <3>. QED  BY <1>1, <2>2, <3>2, EngineStepTyped DEF StartRule, Continue
  <2>. QED  BY <1>1, <2>1, <2>2 DEF StartRule
<1>2. CASE FindGaps
  <2>1. gaps' \subseteq [row : Rows, table : {"history", "witness"}]
    BY <1>2 DEF FindGaps, Gaps, Visible
  <2>2. pc' \in ServiceSteps
    BY <1>2 DEF FindGaps
  <2>. QED  BY <1>2, <2>1, <2>2, EngineStepTyped DEF FindGaps, Here
<1>3. CASE GenerationBefore
  BY <1>3, EngineStepTyped DEF GenerationBefore, Goto, Here
<1>4. ASSUME NEW from, NEW to, Activity(from, to),
             \/ from = "activity" /\ to = "again"
             \/ from = "activityAgain" /\ to = "generationAfter"
      PROVE  ServiceTypeInv'
  <2>1. CASE Transient
    BY <1>4, <2>1, TurnTyped DEF Activity
  <2>2. CASE Continue(to) /\ Here
    BY <1>4, <2>2, EngineStepTyped DEF Activity, Continue, Here
  <2>. QED  BY <1>4, <2>1, <2>2 DEF Activity
<1>5. CASE FindGapsAgain
  <2>1. verdict' \in {"none", "closed", "changed", "stable"}
    BY <1>5 DEF FindGapsAgain
  <2>. QED  BY <1>5, <2>1, EngineStepTyped DEF FindGapsAgain, Goto, Here
<1>6. CASE GenerationAfter
  <2>1. CASE Transient
    BY <1>6, <2>1, TurnTyped DEF GenerationAfter
  <2>2. CASE Continue("revalidate") /\ Here
    BY <1>6, <2>2, EngineStepTyped DEF GenerationAfter, Continue, Here
  <2>. QED  BY <1>6, <2>1, <2>2 DEF GenerationAfter
<1>7. CASE Revalidate
  <2>1. CASE Transient \/ Persist("contract") \/ Persist("gap")
    BY <1>7, <2>1, TurnTyped DEF Revalidate, Kinds
  <2>2. CASE Continue("mismatch") /\ Here
    BY <1>7, <2>2, EngineStepTyped DEF Revalidate, Continue, Here
  <2>3. \/ Transient \/ Persist("contract") \/ Persist("gap")
        \/ Continue("mismatch") /\ Here
    BY <1>7 DEF Revalidate
  <2>. QED  BY <2>1, <2>2, <2>3
<1>8. CASE FindMismatches
  <2>1. CASE Persist("mismatch")
    BY <1>8, <2>1, TurnTyped DEF FindMismatches, Kinds
  <2>2. CASE /\ pc' = IF floors[rule] = {} THEN "readState" ELSE "fetch"
             /\ ForgetSnapshots /\ Here /\ UNCHANGED events
    <3>1. pc' \in ServiceSteps /\ gaps' = {} /\ verdict' = "none"
      BY <2>2 DEF ForgetSnapshots
    <3>. QED  BY <1>8, <2>2, <3>1, EngineStepTyped DEF FindMismatches, Here
  <2>. QED  BY <1>8, <2>1, <2>2 DEF FindMismatches
<1>. QED
  BY <1>1, <1>2, <1>3, <1>4, <1>5, <1>6, <1>7, <1>8 DEF Preflight

\* The enrollment of a scope keeps the types: what is cached is confirmed.
LEMMA EnrollmentTyped ==
  ASSUME ServiceTypeInv, EnsureScope, UNCHANGED <<detections, faults>>
  PROVE  ServiceTypeInv'
<1>. USE ServiceAssumption DEF ServiceTypeInv, ServiceTypeOK, ServiceSteps, Compared
<1>1. CASE ReadState
  <2>1. CASE Raw(rule) = {} /\ pc' = "insertState" /\ UNCHANGED <<floor, floors>>
    BY <1>1, <2>1, EngineStepTyped DEF ReadState
  <2>2. ASSUME NEW s \in Raw(rule),
               IF CurrentFloor(rule) # {} THEN Enrolled(s.floor)
               ELSE pc' = "confirm" /\ floor' = s.floor /\ UNCHANGED floors
        PROVE  ServiceTypeInv'
    <3>1. s \in ruleState /\ s.rule = rule /\ s.floor \in -Lookback .. MaxTime
      BY DEF Raw, State
    <3>2. CASE CurrentFloor(rule) # {}
      <4>1. PICK k \in ruleState \cap confirmations : k.rule = rule
        BY <3>2 DEF CurrentFloor
      <4>2. s \in confirmations
        BY <1>1, <4>1, OneRow DEF ReadState, Raw
      <4>3. /\ floors' = [floors EXCEPT ![rule] = {s.floor}] /\ floor' = s.floor
            /\ pc' = "start"
        BY <2>2, <3>2 DEF Enrolled
      <4>4. floors' \in [Rules -> SUBSET Int]
        BY <3>1, <4>3
      <4>5. \A r \in Rules : floors'[r] = IF r = rule THEN {s.floor} ELSE floors[r]
        BY <4>3
      <4>6. \A r \in Rules : floors'[r] \subseteq
               {c.floor : c \in {k2 \in confirmations' : k2.rule = r}}
        BY <1>1, <3>1, <4>2, <4>5 DEF ReadState
      <4>. QED
        BY <1>1, <3>1, <4>3, <4>4, <4>5, <4>6, EngineStepTyped DEF ReadState
    <3>3. CASE CurrentFloor(rule) = {}
      BY <1>1, <2>2, <3>1, <3>3, EngineStepTyped DEF ReadState
    <3>. QED  BY <3>2, <3>3
  <2>. QED  BY <1>1, <2>1, <2>2 DEF ReadState
<1>2. CASE InsertState
  <2>1. ruleState' \subseteq State
    BY <1>2 DEF InsertState, State
  <2>2. IsFiniteSet(ruleState')
    BY <1>2, FS_AddElement DEF InsertState
  <2>. QED  BY <1>2, <2>1, <2>2, EngineStepTyped DEF InsertState, Goto, Here
<1>3. CASE Confirm
  <2>1. confirmations' \subseteq State
    BY <1>3 DEF Confirm, State
  <2>2. floors' \in [Rules -> SUBSET Int]
    BY <1>3 DEF Confirm, Enrolled
  <2>3. \A r \in Rules : floors'[r] = IF r = rule THEN {floor} ELSE floors[r]
    BY <1>3 DEF Confirm, Enrolled
  <2>4. ASSUME NEW r \in Rules, NEW f \in floors'[r]
        PROVE  \E c \in confirmations' : c.rule = r /\ f = c.floor
    <3>1. CASE r = rule
      BY <1>3, <2>3, <2>4, <3>1 DEF Confirm
    <3>2. CASE r # rule
      <4>1. PICK c \in confirmations : c.rule = r /\ f = c.floor
        BY <2>3, <2>4, <3>2
      <4>. QED  BY <1>3, <3>2, <4>1 DEF Confirm
    <3>. QED  BY <3>1, <3>2
  <2>. QED
    BY <1>3, <2>1, <2>2, <2>3, <2>4, EngineStepTyped DEF Confirm, Enrolled
<1>. QED  BY <1>1, <1>2, <1>3 DEF EnsureScope

\* Whatever page is evaluated, its ledger rows carry first observations.
LEMMA EvaluationTyped ==
  ASSUME ServiceTypeInv, EvaluatePage, UNCHANGED <<detections, faults>>
  PROVE  ServiceTypeInv'
<1>. USE ServiceAssumption DEF ServiceTypeInv, ServiceTypeOK
<1>1. PICK P \in SUBSET Eligible(rule, floor) :
         ledger' = ledger \cup {[rule |-> rule, input |-> i, observed |-> Canonical(i)] : i \in P}
  BY DEF EvaluatePage
<1>2. \A i \in P : i \in Inputs /\ Canonical(i) \in Times
  BY CanonicalIsFirst DEF Eligible, Visible
<1>3. ledger' \subseteq [rule : Rules, input : Inputs, observed : Times]
  BY <1>1, <1>2
<1>4. UNCHANGED <<scopes, events, floors>> /\ NextRule
  BY DEF EvaluatePage
<1>. QED  BY <1>3, <1>4, TurnEndsTyped, EngineStepTyped DEF Compared

\* Every step keeps the types.
LEMMA ServiceStepType == ServiceTypeInv /\ [ServiceNext]_serviceVars => ServiceTypeInv'
<1>. SUFFICES ASSUME ServiceTypeInv, [ServiceNext]_serviceVars PROVE ServiceTypeInv'
  OBVIOUS
<1>. USE ServiceAssumption DEF ServiceTypeInv, ServiceTypeOK
<1>1. CASE Environment
  BY <1>1, EnvironmentTyped
<1>2. CASE Advance
  <2>1. CASE RaiseConflict
    BY <1>2, <2>1, TurnEndsTyped, EngineStepTyped DEF Advance, RaiseConflict, Compared
  <2>. QED
    BY <1>2, <2>1, PreflightTyped, EnrollmentTyped, EvaluationTyped DEF Advance
<1>3. CASE QueryFails
  <2>1. Uncertainty \in Kinds
    BY DEF Uncertainty, Kinds
  <2>. QED  BY <1>3, <2>1, TurnTyped DEF QueryFails, Fault
<1>4. CASE CallFails
  <2>1. late' \subseteq State
    BY <1>4 DEF CallFails, State
  <2>2. IsFiniteSet(late')
    <3>1. \A x : IsFiniteSet({x})
      BY FS_Singleton
    <3>2. late' = late \/ late' = {[rule |-> rule, floor |-> floor]}
      BY <1>4 DEF CallFails
    <3>3. IsFiniteSet(late)
      OBVIOUS
    <3>. HIDE DEF ServiceTypeInv
    <3>. QED  BY <3>1, <3>2, <3>3, Zenon
  <2>. QED
    BY <1>4, <2>1, <2>2, TurnEndsTyped, EngineStepTyped DEF CallFails, Fault, Compared
<1>5. CASE Restart
  <2>1. 1 \in Rules /\ 0 \in -Lookback .. MaxTime
    BY DEF Rules
  <2>2. floors' \in [Rules -> SUBSET Int] /\ \A r \in Rules : floors'[r] = {}
    BY <1>5 DEF Restart
  <2>3. pc' = "start" /\ gaps' = {} /\ verdict' = "none" /\ faults' \in 0 .. MaxFaults
    BY <1>5 DEF Restart, ForgetSnapshots, Fault
  <2>. QED
    BY <1>5, <2>1, <2>2, <2>3, EngineStepTyped DEF Restart, Compared, ServiceSteps
<1>6. CASE UNCHANGED serviceVars
  BY <1>6 DEF Visible
<1>. QED  BY <1>1, <1>2, <1>3, <1>4, <1>5, <1>6 DEF ServiceNext

\* The strengthened type invariant, which the other proofs start from.
LEMMA ServiceTyped == ServiceSpec => []ServiceTypeInv
  BY ServiceInitType, ServiceStepType, PTL DEF ServiceSpec

\* The tables, the locals and the bounds keep their types, and a cached floor is
\* one that has been confirmed, however the process stops and whatever lands late.
THEOREM ServiceTypeCorrect == ServiceSpec => []ServiceTypeOK
<1>1. ServiceTypeInv => ServiceTypeOK
  BY DEF ServiceTypeInv
<1>. QED  BY <1>1, ServiceTyped, PTL

(***************************************************************************)
(* A block is for good                                                     *)
(***************************************************************************)
\* A scope with an event never gets past the start of its turn. Neither half of
\* the theorem below follows from what a single step reads: a page is evaluated,
\* and a floor confirmed, many calls after the events were looked at.
BlockedAtStart == Blocked(rule) => pc = "start"

\* At the start of the engine there is no event.
LEMMA BlockedInit == ServiceInit => BlockedAtStart
  BY DEF ServiceInit, BlockedAtStart

\* Events are written at the end of a turn, and a turn starts with a look at them.
LEMMA BlockedStep ==
  ServiceTypeInv /\ BlockedAtStart /\ [ServiceNext]_serviceVars => BlockedAtStart'
<1>. SUFFICES ASSUME ServiceTypeInv, BlockedAtStart, [ServiceNext]_serviceVars
              PROVE  BlockedAtStart'
  OBVIOUS
<1>1. CASE pc' = "start"
  BY <1>1 DEF BlockedAtStart
<1>2. CASE UNCHANGED <<events, rule, pc>>
  BY <1>2 DEF BlockedAtStart, Blocked
<1>3. CASE pc # "start" /\ UNCHANGED <<events, rule>>
  BY <1>3 DEF BlockedAtStart, Blocked
<1>4. CASE StartRule
  BY <1>1, <1>4 DEF StartRule, Transient, Persist, Continue, ReturnBlocked, NextRule,
     BlockedAtStart, Blocked
<1>5. CASE Preflight /\ ~ StartRule
  <2>1. pc # "start" /\ (pc' = "start" \/ UNCHANGED <<events, rule>>)
    BY <1>5 DEF Preflight, FindGaps, GenerationBefore, Activity, FindGapsAgain,
       GenerationAfter, Revalidate, FindMismatches, Here, Goto, Transient, Persist,
       Continue, ReturnBlocked, NextRule, ServiceTypeInv, ServiceTypeOK, Compared
  <2>. QED  BY <1>1, <1>3, <2>1
<1>6. CASE EnsureScope
  BY <1>1, <1>3, <1>6 DEF EnsureScope, ReadState, InsertState, Confirm, Here, Goto, Enrolled
<1>7. CASE EvaluatePage \/ RaiseConflict \/ QueryFails \/ CallFails \/ Restart
  BY <1>1, <1>7 DEF EvaluatePage, RaiseConflict, QueryFails, CallFails, Restart, Abort,
     Persist, ReturnBlocked, NextRule
<1>8. CASE Environment
  BY <1>2, <1>8 DEF Environment, Tick, BeginInsert, Publish, EndInsert, Operate,
     LateStateLands, MergeState
<1>9. CASE UNCHANGED serviceVars
  BY <1>2, <1>9
<1>. QED
  BY <1>4, <1>5, <1>6, <1>7, <1>8, <1>9 DEF ServiceNext, Advance

\* Only a page adds to the ledger, of its own scope.
LEMMA LedgerChange ==
  ASSUME [ServiceNext]_serviceVars
  PROVE  \/ UNCHANGED ledger
         \/ /\ pc = "fetch"
            /\ \A r \in Rules \ {rule} : Ledgered(r)' = Ledgered(r)
<1>1. CASE EvaluatePage
  <2>1. PICK P \in SUBSET Eligible(rule, floor) :
           ledger' = ledger \cup {[rule |-> rule, input |-> i, observed |-> Canonical(i)] : i \in P}
    BY <1>1 DEF EvaluatePage
  <2>2. \A l \in ledger' \ ledger : l.rule = rule
    BY <2>1
  <2>3. \A r \in Rules \ {rule} : {k \in ledger' : k.rule = r} = {k \in ledger : k.rule = r}
    BY <2>1, <2>2
  <2>. QED  BY <1>1, <2>3 DEF EvaluatePage, Ledgered
<1>2. CASE [Environment \/ Preflight \/ EnsureScope \/ RaiseConflict \/ QueryFails
              \/ CallFails \/ Restart]_serviceVars
  BY <1>2 DEF Environment, Tick, BeginInsert, Publish, EndInsert, Operate, LateStateLands,
     MergeState, Preflight, StartRule, FindGaps, GenerationBefore, Activity, FindGapsAgain,
     GenerationAfter, Revalidate, FindMismatches, EnsureScope, ReadState, InsertState,
     Confirm, RaiseConflict, QueryFails, CallFails, Restart
<1>. QED  BY <1>1, <1>2 DEF ServiceNext, Advance

\* Only ensure_scope confirms a floor, of its own scope.
LEMMA ConfirmationChange ==
  ASSUME [ServiceNext]_serviceVars
  PROVE  UNCHANGED confirmations \/ Confirm
BY DEF ServiceNext, Advance, Environment, Tick, BeginInsert, Publish, EndInsert, Operate,
   LateStateLands, MergeState, Preflight, StartRule, FindGaps, GenerationBefore, Activity,
   FindGapsAgain, GenerationAfter, Revalidate, FindMismatches, EnsureScope, ReadState,
   InsertState, EvaluatePage, RaiseConflict, QueryFails, CallFails, Restart

\* A blocked scope is frozen by every step.
LEMMA FrozenStep ==
  ASSUME BlockedAtStart, [ServiceNext]_serviceVars, NEW r \in Rules, Blocked(r)
  PROVE  /\ Ledgered(r)' = Ledgered(r)
         /\ {c \in confirmations' : c.rule = r} = {c \in confirmations : c.rule = r}
<1>1. pc # "start" => r # rule
  BY DEF BlockedAtStart
<1>2. Ledgered(r)' = Ledgered(r)
  BY <1>1, LedgerChange DEF Ledgered
<1>3. {c \in confirmations' : c.rule = r} = {c \in confirmations : c.rule = r}
  BY <1>1, ConfirmationChange DEF Confirm
<1>. QED  BY <1>2, <1>3

\* Once an event is persisted for a scope, nothing is evaluated or enrolled for it
\* again: not by a turn that had started before, not after a restart, and not when
\* the cause has been repaired.
THEOREM BlockedForGood == ServiceSpec => BlockedScopeIsFrozen
<1>1. ServiceSpec => []BlockedAtStart
  BY BlockedInit, BlockedStep, ServiceTyped, PTL DEF ServiceSpec
<1>2. BlockedAtStart /\ [ServiceNext]_serviceVars =>
        [\A r \in Rules : Blocked(r) =>
           /\ Ledgered(r)' = Ledgered(r)
           /\ {c \in confirmations' : c.rule = r} = {c \in confirmations : c.rule = r}]_serviceVars
  BY FrozenStep
<1>. QED  BY <1>1, <1>2, PTL DEF ServiceSpec, BlockedScopeIsFrozen

(***************************************************************************)
(* A block is justified                                                    *)
(***************************************************************************)
\* What the preflight has established by the time it persists a gap. The event is
\* written five calls after the first snapshot, and the two snapshots alone do not
\* tell a torn row from one whose INSERT is slow: the generation before shows that
\* the row was not added in between, the activity after that its INSERT had ended.
SnapshotIsPast ==
  pc \in {"activity", "again"} \cup Compared =>
    parts.history \subseteq history /\ parts.witness \subseteq witness
GapsWereFound ==
  pc \in {"generation", "activity", "again"} \cup Compared => gaps # {}
StableGapsAreTorn ==
  verdict = "stable" =>
    /\ pc \in {"activityAgain", "generationAfter"} =>
         \A g \in gaps : g.row \in Visible /\ g.row \notin parts[g.table]
    /\ pc = "generationAfter" => \A g \in gaps : g.row \in ended
    /\ pc = "revalidate" => Torn # {}

\* The ledger has no observation before the first one; a first observation moves
\* in one direction only, so that a mismatch is there to stay.
LedgerAtOrAfterFirst ==
  \A l \in ledger : Observations(l.input) # {} /\ Canonical(l.input) <= l.observed

\* The inductive invariant of BlockIsJustified.
JustifiedInv ==
  SnapshotIsPast /\ GapsWereFound /\ StableGapsAreTorn /\ LedgerAtOrAfterFirst
  /\ BlockIsJustified

LEMMA JustifiedInit == ServiceInit => JustifiedInv
  BY DEF ServiceInit, JustifiedInv, SnapshotIsPast, GapsWereFound, StableGapsAreTorn,
     LedgerAtOrAfterFirst, BlockIsJustified, Compared

\* No row ever leaves a table, and a row whose INSERT has ended enters none.
LEMMA TablesGrow ==
  ASSUME ServiceTypeInv, [ServiceNext]_serviceVars
  PROVE  /\ source \subseteq source' /\ history \subseteq history' /\ witness \subseteq witness'
         /\ ended \subseteq ended'
         /\ history' \cap ended = history \cap ended
         /\ witness' \cap ended = witness \cap ended
<1>1. CASE Environment
  BY <1>1 DEF Environment, Tick, BeginInsert, Publish, EndInsert, Operate, LateStateLands,
     MergeState, ServiceTypeInv, ServiceTypeOK
<1>2. CASE UNCHANGED detections
  BY <1>2
<1>. QED
  BY <1>1, <1>2 DEF ServiceNext, Advance, QueryFails, CallFails, Restart

\* What is torn stays torn.
LEMMA TornStays ==
  ASSUME ServiceTypeInv, [ServiceNext]_serviceVars PROVE Torn \subseteq Torn'
BY TablesGrow DEF Torn, Visible

\* The first observation of an input only moves back.
LEMMA FirstMovesBack ==
  ASSUME ServiceTypeInv, ServiceTypeInv', [ServiceNext]_serviceVars,
         NEW i, Observations(i) # {}
  PROVE  /\ Observations(i)' # {}
         /\ Canonical(i) \in Times /\ Canonical(i)' \in Times
         /\ Canonical(i)' <= Canonical(i)
<1>1. Observations(i) \subseteq Observations(i)'
  BY TablesGrow DEF Observations
<1>2. Observations(i)' \in SUBSET Times
  BY ServiceAssumption DEF Observations, ServiceTypeInv, ServiceTypeOK, Visible
<1>3. /\ Canonical(i)' \in Times
      /\ \A t \in Observations(i)' : Canonical(i)' <= t
  BY <1>1, <1>2, MinOfTimes DEF Canonical
<1>4. Canonical(i) \in Observations(i) /\ Canonical(i) \in Times
  BY CanonicalIsFirst DEF ServiceTypeInv, ServiceTypeOK, Visible
<1>. QED  BY <1>1, <1>3, <1>4

\* So a mismatch stays one.
LEMMA MismatchStays ==
  ASSUME ServiceTypeInv, ServiceTypeInv', LedgerAtOrAfterFirst, [ServiceNext]_serviceVars,
         ledger \subseteq ledger', NEW r, Mismatches(r) # {}
  PROVE  Mismatches(r)' # {}
<1>1. PICK l \in ledger : /\ l.rule = r /\ Observations(l.input) # {}
                          /\ l.observed # Canonical(l.input)
  BY DEF Mismatches
<1>2. l.observed \in Times
  BY DEF ServiceTypeInv, ServiceTypeOK
<1>3. /\ Observations(l.input)' # {} /\ Canonical(l.input) \in Times
      /\ Canonical(l.input)' \in Times /\ Canonical(l.input)' <= Canonical(l.input)
  BY <1>1, FirstMovesBack
<1>4. Canonical(l.input) <= l.observed
  BY DEF LedgerAtOrAfterFirst
<1>5. l.observed # Canonical(l.input)'
  BY <1>1, <1>2, <1>3, <1>4, ServiceAssumption DEF Times
<1>6. l \in ledger'
  OBVIOUS
<1>. QED  BY <1>1, <1>3, <1>5, <1>6 DEF Mismatches

\* The ledger only grows, by rows with the first observation of their input.
LEMMA LedgerGrows ==
  ASSUME [ServiceNext]_serviceVars
  PROVE  /\ ledger \subseteq ledger'
         /\ \A l \in ledger' \ ledger :
               /\ UNCHANGED history /\ Observations(l.input) # {}
               /\ l.observed = Canonical(l.input)
<1>1. CASE EvaluatePage /\ UNCHANGED detections
  <2>1. PICK P \in SUBSET Eligible(rule, floor) :
           ledger' = ledger \cup {[rule |-> rule, input |-> i, observed |-> Canonical(i)] : i \in P}
    BY <1>1 DEF EvaluatePage
  <2>. QED  BY <1>1, <2>1 DEF Eligible
<1>2. CASE UNCHANGED ledger
  BY <1>2
<1>3. (EvaluatePage /\ UNCHANGED detections) \/ UNCHANGED ledger
  BY DEF ServiceNext, Advance, Environment, Tick, BeginInsert, Publish, EndInsert, Operate,
     LateStateLands, MergeState, Preflight, StartRule, FindGaps, GenerationBefore, Activity,
     FindGapsAgain, GenerationAfter, Revalidate, FindMismatches, EnsureScope, ReadState,
     InsertState, Confirm, RaiseConflict, QueryFails, CallFails, Restart
<1>. QED  BY <1>1, <1>2, <1>3

\* The ledger keeps to first observations.
LEMMA LedgerStep ==
  ASSUME ServiceTypeInv, ServiceTypeInv', LedgerAtOrAfterFirst, [ServiceNext]_serviceVars
  PROVE  LedgerAtOrAfterFirst'
<1>. SUFFICES ASSUME NEW l \in ledger'
              PROVE  Observations(l.input)' # {} /\ Canonical(l.input)' <= l.observed
  BY DEF LedgerAtOrAfterFirst
<1>1. l.observed \in Times
  BY DEF ServiceTypeInv, ServiceTypeOK
<1>2. Observations(l.input) # {} /\ Canonical(l.input) \in Times
        /\ Canonical(l.input) <= l.observed
  <2>1. Observations(l.input) # {}
    BY LedgerGrows DEF LedgerAtOrAfterFirst
  <2>2. Canonical(l.input) \in Times
    BY <2>1, FirstMovesBack
  <2>. QED
    BY <2>1, <2>2, LedgerGrows, ServiceAssumption DEF LedgerAtOrAfterFirst, Times
<1>3. /\ Observations(l.input)' # {}
      /\ Canonical(l.input)' \in Times /\ Canonical(l.input)' <= Canonical(l.input)
  BY <1>2, FirstMovesBack
<1>. QED  BY <1>1, <1>2, <1>3, ServiceAssumption DEF Times

\* The steps that keep what the snapshots show: they leave the locals of the
\* preflight alone, or leave the preflight.
LEMMA SnapshotsKept ==
  ASSUME ServiceTypeInv, JustifiedInv, [ServiceNext]_serviceVars,
         UNCHANGED <<pc, preflight>> \/ pc' \notin {"generation", "activity", "again"} \cup Compared
  PROVE  SnapshotIsPast' /\ GapsWereFound' /\ StableGapsAreTorn'
<1>. USE DEF JustifiedInv, SnapshotIsPast, GapsWereFound, StableGapsAreTorn
<1>1. CASE pc' \notin {"generation", "activity", "again"} \cup Compared
  BY <1>1 DEF Compared
<1>2. CASE UNCHANGED <<pc, preflight>>
  <2>1. Visible \subseteq Visible'
    BY TablesGrow DEF Visible
  <2>. QED  BY <1>2, <2>1, TablesGrow, TornStays
<1>. QED  BY <1>1, <1>2

\* The steps of the preflight establish it, call by call.
LEMMA SnapshotsStep ==
  ASSUME ServiceTypeInv, JustifiedInv, Preflight, UNCHANGED <<detections, faults>>
  PROVE  SnapshotIsPast' /\ GapsWereFound' /\ StableGapsAreTorn'
<1>. USE DEF JustifiedInv, SnapshotIsPast, GapsWereFound, StableGapsAreTorn, Compared
<1>0. ServiceNext
  BY DEF ServiceNext, Advance
<1>1. CASE StartRule
  BY <1>0, <1>1, SnapshotsKept DEF StartRule, Transient, Persist, Continue, ReturnBlocked, NextRule
<1>2. CASE FindGaps
  BY <1>2 DEF FindGaps
<1>3. CASE GenerationBefore
  BY <1>3 DEF GenerationBefore, Goto, Parts
<1>4. CASE Activity("activity", "again")
  BY <1>4 DEF Activity, Transient, Continue, ReturnBlocked, NextRule
<1>5. CASE FindGapsAgain
  <2>1. verdict' = "stable" => gaps = Gaps(rule, floor)
    BY <1>5 DEF FindGapsAgain
  <2>2. \A g \in Gaps(rule, floor) : g.row \in Visible /\ g.row \notin parts[g.table]
    BY <1>5 DEF Gaps, FindGapsAgain, Goto
  <2>. QED
    BY <1>5, <2>1, <2>2 DEF FindGapsAgain, Goto, Here, Visible
<1>6. CASE Activity("activityAgain", "generationAfter")
  <2>1. CASE inserting = {}
    <3>1. Visible \subseteq ended
      BY <2>1 DEF ServiceTypeInv, ServiceTypeOK
    <3>. QED
      BY <1>6, <2>1, <3>1 DEF Activity, InsertInProgress, Transient, Continue, ReturnBlocked,
         NextRule, Visible
  <2>2. CASE inserting # {}
    BY <1>6, <2>2 DEF Activity, InsertInProgress, Transient, ReturnBlocked, NextRule
  <2>. QED  BY <2>1, <2>2
<1>7. CASE GenerationAfter
  <2>1. CASE Transient
    BY <1>7, <2>1 DEF Transient, ReturnBlocked, NextRule
  <2>2. CASE parts = Parts /\ Continue("revalidate")
    <3>1. ASSUME verdict = "stable" PROVE Torn # {}
      <4>1. PICK g \in gaps : g.row \in Visible \cap ended /\ g.row \notin parts[g.table]
        BY <1>7, <3>1 DEF GenerationAfter
      <4>2. g.table \in {"history", "witness"}
        BY DEF ServiceTypeInv, ServiceTypeOK
      <4>3. g.row \notin history \cap witness
        BY <2>2, <4>1, <4>2 DEF Parts
      <4>. QED  BY <4>1, <4>3 DEF Torn
    <3>. QED
      BY <1>7, <2>2, <3>1 DEF GenerationAfter, Continue, Torn, Visible
  <2>. QED  BY <1>7, <2>1, <2>2 DEF GenerationAfter
<1>8. CASE Revalidate \/ FindMismatches
  <2>1. pc' \notin {"generation", "activity", "again"} \cup Compared
    BY <1>8 DEF Revalidate, FindMismatches, Transient, Persist, Continue, ReturnBlocked, NextRule,
       ServiceTypeInv, ServiceTypeOK
  <2>. QED  BY <1>0, <2>1, SnapshotsKept
<1>. QED
  BY <1>1, <1>2, <1>3, <1>4, <1>5, <1>6, <1>7, <1>8 DEF Preflight

\* A step that leaves the events as they are keeps them justified.
LEMMA JustifiedKept ==
  ASSUME ServiceTypeInv, ServiceTypeInv', JustifiedInv, [ServiceNext]_serviceVars,
         \A e \in events' \ events :
            /\ e.kind = "gap" => Torn # {}
            /\ e.kind = "mismatch" => Mismatches(e.rule) # {}
  PROVE  BlockIsJustified'
<1>. SUFFICES ASSUME NEW e \in events'
              PROVE  /\ e.kind = "gap" => Torn' # {}
                     /\ e.kind = "mismatch" => Mismatches(e.rule)' # {}
  BY DEF BlockIsJustified
<1>1. e.kind = "gap" => Torn # {}
  BY DEF JustifiedInv, BlockIsJustified
<1>2. e.kind = "mismatch" => Mismatches(e.rule) # {}
  BY DEF JustifiedInv, BlockIsJustified
<1>. QED
  BY <1>1, <1>2, TornStays, MismatchStays, LedgerGrows DEF JustifiedInv

\* Which events a step persists, and of what.
LEMMA EventsStep ==
  ASSUME ServiceTypeInv, JustifiedInv, [ServiceNext]_serviceVars,
         NEW e \in events' \ events
  PROVE  /\ e.kind = "gap" => Torn # {}
         /\ e.kind = "mismatch" => Mismatches(e.rule) # {}
<1>1. CASE StartRule
  BY <1>1 DEF StartRule, Persist, Transient, Continue
<1>2. CASE Revalidate
  <2>1. CASE Persist("contract")
    BY <2>1 DEF Persist
  <2>2. CASE verdict = "stable" /\ Persist("gap")
    BY <1>2, <2>2 DEF Revalidate, Persist, JustifiedInv, StableGapsAreTorn
  <2>3. CASE UNCHANGED events
    BY <2>3
  <2>4. verdict \in {"closed", "changed", "stable"}
    BY <1>2 DEF Revalidate, ServiceTypeInv, ServiceTypeOK, Compared
  <2>. QED
    BY <1>2, <2>1, <2>2, <2>3, <2>4 DEF Revalidate, Transient, Continue
<1>3. CASE FindMismatches
  BY <1>3 DEF FindMismatches, Persist
<1>4. CASE QueryFails
  <2>1. Uncertainty \in {"contract", "mismatch uncertain", "coverage uncertain"}
    BY DEF Uncertainty
  <2>2. e.kind = Uncertainty
    BY <1>4 DEF QueryFails, Persist
  <2>. QED  BY <2>1, <2>2
<1>5. StartRule \/ Revalidate \/ FindMismatches \/ QueryFails \/ UNCHANGED events
  BY DEF ServiceNext, Advance, Environment, Tick, BeginInsert, Publish, EndInsert, Operate,
     LateStateLands, MergeState, Preflight, FindGaps, GenerationBefore, Activity,
     FindGapsAgain, GenerationAfter, EnsureScope, ReadState, InsertState, Confirm,
     EvaluatePage, RaiseConflict, CallFails, Restart, Transient, Continue
<1>. QED  BY <1>1, <1>2, <1>3, <1>4, <1>5

LEMMA JustifiedStep ==
  ServiceTypeInv /\ ServiceTypeInv' /\ JustifiedInv /\ [ServiceNext]_serviceVars => JustifiedInv'
<1>. SUFFICES ASSUME ServiceTypeInv, ServiceTypeInv', JustifiedInv, [ServiceNext]_serviceVars
              PROVE  JustifiedInv'
  OBVIOUS
<1>1. LedgerAtOrAfterFirst'
  BY LedgerStep DEF JustifiedInv
<1>2. BlockIsJustified'
  BY EventsStep, JustifiedKept
<1>3. SnapshotIsPast' /\ GapsWereFound' /\ StableGapsAreTorn'
  <2>1. CASE Preflight /\ UNCHANGED <<detections, faults>>
    BY <2>1, SnapshotsStep
  <2>2. CASE Environment \/ UNCHANGED serviceVars
    <3>1. UNCHANGED <<pc, preflight>>
      BY <2>2 DEF Environment, Tick, BeginInsert, Publish, EndInsert, Operate, LateStateLands,
         MergeState
    <3>. QED  BY <3>1, SnapshotsKept
  <2>3. CASE EnsureScope \/ EvaluatePage \/ RaiseConflict \/ QueryFails \/ CallFails \/ Restart
    <3>1. pc' \notin {"generation", "activity", "again"} \cup Compared
      BY <2>3 DEF EnsureScope, ReadState, InsertState, Confirm, Goto, Enrolled, EvaluatePage,
         RaiseConflict, QueryFails, CallFails, Restart, Abort, Persist, ReturnBlocked, NextRule,
         Compared
    <3>. QED  BY <3>1, SnapshotsKept
  <2>. QED  BY <2>1, <2>2, <2>3 DEF ServiceNext, Advance
<1>. QED  BY <1>1, <1>2, <1>3 DEF JustifiedInv

\* Whenever a scope is blocked for a gap there is a row that lacks a projection for
\* good, and whenever for a mismatch there is an observation that moved: an INSERT
\* that is still becoming visible never blocks, whatever else fails meanwhile.
THEOREM BlocksAreJustified == ServiceSpec => []BlockIsJustified
<1>1. ServiceSpec => []JustifiedInv
  BY JustifiedInit, JustifiedStep, ServiceTyped, PTL DEF ServiceSpec
<1>2. JustifiedInv => BlockIsJustified
  BY DEF JustifiedInv
<1>. QED  BY <1>1, <1>2, PTL

(***************************************************************************)
(* Floors are confirmed first, and fixed                                   *)
(***************************************************************************)
\* No insert of rule state that may still land asks for a later floor than a row
\* that is there. Two inserts given up one after the other, the first of which
\* lands in between, break it: a merge then keeps the row of the second.
LostIsOldest == \A s \in late, q \in ruleState : q.rule = s.rule => s.floor <= q.floor

\* A floor that is asked for is no earlier than those asked for before: it is read
\* from a clock that only goes on, by a process that asks for one at a time.
Asking == {"gaps", "generation", "activity", "again", "activityAgain", "generationAfter",
           "revalidate", "mismatch", "readState", "insertState"}
AskedInOrder ==
  /\ \A s \in ruleState \cup late : s.floor <= now - Lookback
  /\ pc \in Asking /\ floors[rule] = {} =>
       /\ floor <= now - Lookback
       /\ \A s \in ruleState \cup late : s.rule = rule => s.floor <= floor

\* The cached floor is what a scope is checked and polled with.
CachedIsUsed ==
  /\ pc \in Asking \cup {"fetch"} => floors[rule] \subseteq {floor}
  /\ pc \in {"readState", "insertState", "confirm"} => floors[rule] = {}
  /\ pc = "fetch" => floors[rule] # {}

\* Confirmed is the last written of the rows of a scope, and no other row is
\* confirmed while one is.
Last(s) == s \in ruleState /\ \A q \in ruleState : q.rule = s.rule => q.floor <= s.floor
ConfirmedIsLast ==
  /\ \A c \in confirmations : Last(c)
  /\ \A c, d \in confirmations : c.rule = d.rule => c = d
  /\ pc = "confirm" => Last([rule |-> rule, floor |-> floor])
  /\ pc \in {"insertState", "confirm"} => \A c \in confirmations : c.rule # rule

\* The inductive invariant of NoPollingBeforeConfirmation and FloorIsFixed.
FloorInv ==
  AskedInOrder /\ CachedIsUsed /\ ConfirmedIsLast /\ NoPollingBeforeConfirmation

\* With one fault there is one insert to land late, and no row before it.
OneLoss ==
  /\ LostIsOldest
  /\ faults = 0 => late = {} /\ (pc = "insertState" => Raw(rule) = {})

LEMMA FloorInit == ServiceInit => FloorInv
  BY DEF ServiceInit, FloorInv, AskedInOrder, Asking, CachedIsUsed, ConfirmedIsLast,
     NoPollingBeforeConfirmation

\* The parts of FloorInv that are about rows and locals. A turn or a cycle that ends
\* keeps them, and leaves at most the row it was about to write.
LEMMA TurnEndKeepsFloors ==
  ASSUME ServiceTypeInv, AskedInOrder, CachedIsUsed, ConfirmedIsLast,
         pc' = "start", UNCHANGED <<now, ruleState, confirmations>>,
         late' = late \/ (pc = "insertState" /\ late' = {[rule |-> rule, floor |-> floor]})
  PROVE  AskedInOrder' /\ CachedIsUsed' /\ ConfirmedIsLast'
<1>1. pc = "insertState" => floor <= now - Lookback
  BY DEF AskedInOrder, CachedIsUsed, Asking
<1>2. AskedInOrder'
  BY <1>1 DEF AskedInOrder, Asking
<1>3. CachedIsUsed'
  BY DEF CachedIsUsed, Asking
<1>4. ConfirmedIsLast'
  BY DEF ConfirmedIsLast, Last
<1>. QED  BY <1>2, <1>3, <1>4

\* A floor that lies in the past stays there.
LEMMA LaterReach ==
  \A a, b, l, x \in Int : a <= b /\ x <= a - l => x <= b - l
  OBVIOUS

\* The environment keeps them, as long as what lands late was asked for first.
LEMMA EnvironmentKeepsFloors ==
  ASSUME ServiceTypeInv, LostIsOldest, AskedInOrder, CachedIsUsed, ConfirmedIsLast, Environment
  PROVE  AskedInOrder' /\ CachedIsUsed' /\ ConfirmedIsLast'
<1>1. CASE UNCHANGED <<ruleState, late, confirmations, pc, rule, floor, floors>>
  <2>1. now' >= now /\ now \in Nat /\ now' \in Nat
    BY ServiceAssumption DEF Environment, Tick, BeginInsert, Publish, EndInsert, Operate, LateStateLands,
       MergeState, ServiceTypeInv, ServiceTypeOK, Times
  <2>2. \A s \in ruleState \cup late : s.floor \in Int
    BY ServiceAssumption DEF ServiceTypeInv, ServiceTypeOK, State
  <2>3. floor \in Int
    BY ServiceAssumption DEF ServiceTypeInv, ServiceTypeOK
  <2>4. \A x \in Int : x <= now - Lookback => x <= now' - Lookback
    <3>1. Lookback \in Int
      BY ServiceAssumption
    <3>2. now \in Int
      BY <2>1
    <3>3. now' \in Int
      BY <2>1
    <3>4. now <= now'
      BY <2>1
    <3>. QED  BY <3>1, <3>2, <3>3, <3>4, LaterReach
  <2>5. AskedInOrder'
    <3>1. \A s \in ruleState \cup late : s.floor <= now' - Lookback
      BY <2>2, <2>4 DEF AskedInOrder
    <3>2. pc \in Asking /\ floors[rule] = {} => floor <= now' - Lookback
      BY <2>3, <2>4 DEF AskedInOrder
    <3>. QED  BY <1>1, <3>1, <3>2 DEF AskedInOrder
  <2>. QED  BY <1>1, <2>5 DEF CachedIsUsed, ConfirmedIsLast, Last
<1>2. CASE LateStateLands
  <2>1. AskedInOrder' /\ CachedIsUsed'
    BY <1>2 DEF LateStateLands, AskedInOrder, CachedIsUsed
  <2>2. ASSUME NEW s, Last(s) PROVE Last(s)'
    BY <1>2, <2>2 DEF LateStateLands, Last, LostIsOldest
  <2>. QED  BY <1>2, <2>1, <2>2 DEF LateStateLands, ConfirmedIsLast
<1>3. ASSUME NEW r \in Rules, MergeState(r) PROVE AskedInOrder' /\ CachedIsUsed' /\ ConfirmedIsLast'
  <2>1. PICK m \in LastWritten(r) : ruleState' = (ruleState \ Raw(r)) \cup {m}
    BY <1>3 DEF MergeState
  <2>2. m \in ruleState /\ m.rule = r /\ \A q \in ruleState : q.rule = r => q.floor <= m.floor
    BY <2>1 DEF LastWritten, Raw
  <2>3. ASSUME NEW s, Last(s) PROVE Last(s)'
    <3>1. CASE s.rule # r
      BY <2>1, <2>2, <2>3, <3>1 DEF Last, Raw
    <3>2. CASE s.rule = r
      <4>1. s \in State /\ m \in State
        BY <2>2, <2>3 DEF Last, ServiceTypeInv, ServiceTypeOK
      <4>2. s.floor <= m.floor /\ m.floor <= s.floor
        BY <2>2, <2>3, <3>2 DEF Last
      <4>3. s = m
        BY <2>2, <3>2, <4>1, <4>2, ServiceAssumption DEF State
      <4>. QED  BY <2>1, <2>2, <2>3, <4>3 DEF Last, Raw
    <3>. QED  BY <3>1, <3>2
  <2>4. ruleState' \subseteq ruleState
    BY <2>1, <2>2
  <2>5. AskedInOrder' /\ CachedIsUsed'
    BY <1>3, <2>4 DEF MergeState, AskedInOrder, CachedIsUsed
  <2>. QED  BY <1>3, <2>3, <2>5 DEF MergeState, ConfirmedIsLast
<1>4. \/ UNCHANGED <<ruleState, late, confirmations, pc, rule, floor, floors>>
      \/ LateStateLands
      \/ \E r \in Rules : MergeState(r)
  BY DEF Environment, Tick, BeginInsert, Publish, EndInsert, Operate
<1>. QED  BY <1>1, <1>2, <1>3, <1>4

\* The preflight keeps them: what it goes on with is what it started its turn with.
LEMMA PreflightKeepsFloors ==
  ASSUME ServiceTypeInv, AskedInOrder, CachedIsUsed, ConfirmedIsLast,
         Preflight, UNCHANGED <<detections, faults>>
  PROVE  AskedInOrder' /\ CachedIsUsed' /\ ConfirmedIsLast'
<1>0. UNCHANGED <<now, scopes, floors>>
  BY DEF Preflight, StartRule, FindGaps, GenerationBefore, Activity, FindGapsAgain,
     GenerationAfter, Revalidate, FindMismatches
<1>1. CASE pc' = "start"
  BY <1>0, <1>1, TurnEndKeepsFloors
<1>2. CASE StartRule /\ pc' # "start"
  <2>1. /\ pc' = "gaps" /\ rule' = rule
        /\ floor' = IF floors[rule] = {} THEN now - Lookback ELSE Min(floors[rule])
    BY <1>2 DEF StartRule, Transient, Persist, Continue, ReturnBlocked, NextRule
  <2>2. ASSUME NEW f \in floors[rule] PROVE floors[rule] = {f} /\ Min(floors[rule]) = f
    <3>1. floors[rule] = {f} /\ f \in Int
      BY DEF ServiceTypeInv, ServiceTypeOK
    <3>. QED  BY <3>1, MinOfSingleton
  <2>3. floors[rule] \subseteq {floor'}
    BY <2>1, <2>2
  <2>4. now - Lookback <= now - Lookback
    BY ServiceAssumption DEF ServiceTypeInv, ServiceTypeOK, Times
  <2>. QED
    BY <1>0, <2>1, <2>3, <2>4 DEF AskedInOrder, CachedIsUsed, ConfirmedIsLast, Last, Asking
<1>3. CASE ~ StartRule /\ pc' # "start"
  <2>1. UNCHANGED <<rule, floor>>
    BY <1>3 DEF Preflight, FindGaps, GenerationBefore, Activity, FindGapsAgain, GenerationAfter,
       Revalidate, FindMismatches, Here, Transient, Persist, ReturnBlocked, NextRule,
       ServiceTypeInv, ServiceTypeOK, Compared
  <2>2. pc \in Asking /\ pc' \in (Asking \ {"insertState"}) \cup {"fetch"}
    BY <1>3 DEF Preflight, FindGaps, GenerationBefore, Activity, FindGapsAgain, GenerationAfter,
       Revalidate, FindMismatches, Transient, Persist, Continue, Goto, ReturnBlocked, NextRule, Asking,
       ServiceTypeInv, ServiceTypeOK, Compared
  <2>3. /\ pc' = "readState" => floors[rule] = {}
        /\ pc' = "fetch" => floors[rule] # {}
    BY <1>3 DEF Preflight, FindGaps, GenerationBefore, Activity, FindGapsAgain, GenerationAfter,
       Revalidate, FindMismatches, Transient, Persist, Continue, Goto, ReturnBlocked, NextRule,
       ServiceTypeInv, ServiceTypeOK, Compared
  <2>. QED
    BY <1>0, <2>1, <2>2, <2>3 DEF AskedInOrder, CachedIsUsed, ConfirmedIsLast, Last, Asking
<1>. QED  BY <1>1, <1>2, <1>3

\* The enrollment keeps them: it confirms the last row of a scope without one.
LEMMA EnrollmentKeepsFloors ==
  ASSUME ServiceTypeInv, AskedInOrder, CachedIsUsed, ConfirmedIsLast,
         EnsureScope, UNCHANGED <<detections, faults>>
  PROVE  AskedInOrder' /\ CachedIsUsed' /\ ConfirmedIsLast'
<1>1. CASE ReadState /\ pc' = "start"
  BY <1>1, TurnEndKeepsFloors DEF ReadState
<1>2. CASE ReadState /\ pc' # "start"
  <2>1. UNCHANGED <<now, scopes, rule, floors>> /\ pc = "readState"
    BY <1>2 DEF ReadState, Enrolled
  <2>2. CASE Raw(rule) = {} /\ pc' = "insertState" /\ floor' = floor
    <3>1. \A c \in confirmations : c.rule # rule
      BY <2>2 DEF ConfirmedIsLast, Last, Raw
    <3>. QED
      BY <2>1, <2>2, <3>1 DEF AskedInOrder, CachedIsUsed, ConfirmedIsLast, Last, Asking
  <2>3. ASSUME NEW s \in Raw(rule), CurrentFloor(rule) = {}, pc' = "confirm", floor' = s.floor
        PROVE  AskedInOrder' /\ CachedIsUsed' /\ ConfirmedIsLast'
    <3>1. s \in ruleState /\ s = [rule |-> rule, floor |-> s.floor]
      BY DEF Raw, State, ServiceTypeInv, ServiceTypeOK
    <3>2. \A q \in ruleState : q.rule = rule => q = s
      BY <1>2, OneRow DEF ReadState, Raw, ServiceTypeInv
    <3>3. s.floor <= s.floor
      BY <3>1, ServiceAssumption DEF State, ServiceTypeInv, ServiceTypeOK
    <3>4. Last(s)
      BY <3>1, <3>2, <3>3 DEF Last
    <3>5. \A c \in confirmations : c.rule # rule
      BY <2>3 DEF ConfirmedIsLast, Last, CurrentFloor
    <3>6. ConfirmedIsLast'
      BY <2>1, <2>3, <3>1, <3>4, <3>5 DEF ConfirmedIsLast, Last
    <3>. QED
      BY <2>1, <2>3, <3>6 DEF AskedInOrder, CachedIsUsed, Asking
  <2>4. \/ Raw(rule) = {} /\ pc' = "insertState" /\ floor' = floor
        \/ \E s \in Raw(rule) : CurrentFloor(rule) = {} /\ pc' = "confirm" /\ floor' = s.floor
    BY <1>2 DEF ReadState, Enrolled
  <2>. QED  BY <2>2, <2>3, <2>4
<1>3. CASE InsertState
  <2>. DEFINE new == [rule |-> rule, floor |-> floor]
  <2>1. /\ pc = "insertState" /\ pc' = "confirm" /\ ruleState' = ruleState \cup {new}
        /\ UNCHANGED <<now, rule, floor, floors, confirmations, late>>
    BY <1>3 DEF InsertState, Goto, Here
  <2>2. floors[rule] = {} /\ floor <= now - Lookback
    BY <2>1 DEF CachedIsUsed, AskedInOrder, Asking
  <2>3. \A s \in ruleState \cup late : s.rule = rule => s.floor <= floor
    BY <2>1, <2>2 DEF AskedInOrder, Asking
  <2>4. floor <= floor
    BY ServiceAssumption DEF ServiceTypeInv, ServiceTypeOK
  <2>5. Last(new)'
    BY <2>1, <2>3, <2>4 DEF Last
  <2>6. \A c \in confirmations : c.rule # rule
    BY <2>1 DEF ConfirmedIsLast
  <2>7. \A c \in confirmations : Last(c)'
    BY <2>1, <2>6 DEF ConfirmedIsLast, Last
  <2>8. ConfirmedIsLast'
    BY <2>1, <2>5, <2>6, <2>7 DEF ConfirmedIsLast
  <2>. QED  BY <2>1, <2>2, <2>8 DEF AskedInOrder, CachedIsUsed, Asking
<1>4. CASE Confirm
  <2>. DEFINE new == [rule |-> rule, floor |-> floor]
  <2>1. /\ pc = "confirm" /\ pc' = "start" /\ rule' = rule
        /\ UNCHANGED <<now, ruleState, late>>
        /\ confirmations' = {c \in confirmations : c.rule # rule} \cup {new}
    BY <1>4 DEF Confirm, Enrolled
  <2>2. Last(new)
    BY <2>1 DEF ConfirmedIsLast
  <2>3. ConfirmedIsLast'
    BY <2>1, <2>2 DEF ConfirmedIsLast, Last
  <2>. QED  BY <2>1, <2>3 DEF AskedInOrder, CachedIsUsed, Asking
<1>. QED  BY <1>1, <1>2, <1>3, <1>4 DEF EnsureScope

\* All steps keep them, as long as what lands late was asked for first.
LEMMA FloorsKept ==
  ASSUME ServiceTypeInv, LostIsOldest, AskedInOrder, CachedIsUsed, ConfirmedIsLast,
         [ServiceNext]_serviceVars
  PROVE  AskedInOrder' /\ CachedIsUsed' /\ ConfirmedIsLast'
<1>1. CASE \/ (EvaluatePage \/ RaiseConflict) /\ UNCHANGED <<detections, faults>>
           \/ QueryFails \/ CallFails \/ Restart
  <2>1. /\ pc' = "start" /\ UNCHANGED <<now, ruleState, confirmations>>
        /\ late' = late \/ (pc = "insertState" /\ late' = {[rule |-> rule, floor |-> floor]})
    BY <1>1 DEF EvaluatePage, RaiseConflict, QueryFails, CallFails, Restart, Abort, Persist,
       ReturnBlocked, NextRule
  <2>. QED  BY <2>1, TurnEndKeepsFloors
<1>2. CASE UNCHANGED serviceVars
  BY <1>2 DEF AskedInOrder, CachedIsUsed, ConfirmedIsLast, Last
<1>. QED
  BY <1>1, <1>2, EnvironmentKeepsFloors, PreflightKeepsFloors, EnrollmentKeepsFloors
     DEF ServiceNext, Advance

\* A confirmed floor is the visible one.
LEMMA ConfirmedIsCurrent ==
  ASSUME ConfirmedIsLast, NEW r, NEW f
  PROVE  f \in CurrentFloor(r) <=> \E c \in confirmations : c.rule = r /\ c.floor = f
BY DEF ConfirmedIsLast, Last, CurrentFloor

\* A confirmation stays, and no other one is added to it.
LEMMA ConfirmationStays ==
  ASSUME ConfirmedIsLast, [ServiceNext]_serviceVars, NEW c \in confirmations
  PROVE  c \in confirmations' /\ \A d \in confirmations' : d.rule = c.rule => d = c
<1>1. CASE UNCHANGED confirmations
  BY <1>1 DEF ConfirmedIsLast
<1>2. CASE Confirm
  BY <1>2 DEF Confirm, ConfirmedIsLast
<1>. QED  BY <1>1, <1>2, ConfirmationChange

\* So the visible floor of a scope does not change.
LEMMA FloorStays ==
  ASSUME ServiceTypeInv, LostIsOldest, FloorInv, [ServiceNext]_serviceVars,
         NEW r, CurrentFloor(r) # {}
  PROVE  CurrentFloor(r)' = CurrentFloor(r)
<1>1. ConfirmedIsLast /\ ConfirmedIsLast'
  BY FloorsKept DEF FloorInv
<1>2. PICK c \in confirmations : c.rule = r
  BY <1>1, ConfirmedIsCurrent
<1>3. c \in confirmations' /\ \A d \in confirmations' : d.rule = r => d = c
  BY <1>1, <1>2, ConfirmationStays
<1>4. CurrentFloor(r) = {c.floor}
  BY <1>1, <1>2 DEF ConfirmedIsLast, Last, CurrentFloor
<1>5. CurrentFloor(r)' = {c.floor}
  BY <1>1, <1>2, <1>3 DEF ConfirmedIsLast, Last, CurrentFloor
<1>. QED  BY <1>4, <1>5

\* What is polled with is confirmed: it is the cached floor.
LEMMA PolledIsConfirmed ==
  ASSUME ServiceTypeOK, CachedIsUsed, ConfirmedIsLast, pc = "fetch"
  PROVE  floor \in CurrentFloor(rule)
<1>1. floor \in floors[rule]
  BY DEF CachedIsUsed
<1>2. \E c \in confirmations : c.rule = rule /\ c.floor = floor
  BY <1>1 DEF ServiceTypeOK
<1>. QED  BY <1>2 DEF ConfirmedIsLast, Last, CurrentFloor

\* Every step keeps FloorInv.
LEMMA FloorStep ==
  ASSUME ServiceTypeInv, ServiceTypeInv', LostIsOldest, FloorInv, [ServiceNext]_serviceVars
  PROVE  FloorInv'
<1>1. AskedInOrder' /\ CachedIsUsed' /\ ConfirmedIsLast'
  BY FloorsKept DEF FloorInv
<1>2. pc' = "fetch" => (floor \in CurrentFloor(rule))'
  <2>1. SUFFICES ASSUME pc' = "fetch" PROVE (floor \in CurrentFloor(rule))'
    OBVIOUS
  <2>2. floor' \in (floors[rule])'
    BY <1>1, <2>1 DEF CachedIsUsed
  <2>3. \E c \in confirmations' : c.rule = rule' /\ c.floor = floor'
    BY <2>2 DEF ServiceTypeInv, ServiceTypeOK
  <2>. QED  BY <1>1, <2>3 DEF ConfirmedIsLast, Last, CurrentFloor
<1>3. ASSUME NEW l \in ledger' PROVE \E f \in CurrentFloor(l.rule)' : l.observed >= f
  <2>1. \E f \in CurrentFloor(l.rule) : l.observed >= f
    <3>1. CASE l \in ledger
      BY <3>1 DEF FloorInv, NoPollingBeforeConfirmation
    <3>2. CASE l \notin ledger
      <4>1. EvaluatePage
        BY <3>2 DEF ServiceNext, Advance, Environment, Tick, BeginInsert, Publish, EndInsert,
           Operate, LateStateLands, MergeState, Preflight, StartRule, FindGaps,
           GenerationBefore, Activity, FindGapsAgain, GenerationAfter, Revalidate,
           FindMismatches, EnsureScope, ReadState, InsertState, Confirm, RaiseConflict,
           QueryFails, CallFails, Restart
      <4>2. l.rule = rule /\ l.observed >= floor
        BY <3>2, <4>1 DEF EvaluatePage, Eligible
      <4>3. floor \in CurrentFloor(rule)
        BY <4>1 DEF EvaluatePage, FloorInv, NoPollingBeforeConfirmation
      <4>. QED  BY <4>2, <4>3
    <3>. QED  BY <3>1, <3>2
  <2>. QED  BY <2>1, FloorStays
<1>. QED  BY <1>1, <1>2, <1>3 DEF FloorInv, NoPollingBeforeConfirmation

\* As long as no insert that was given up asks for a later floor than a row that is
\* there, every scope is polled with its confirmed floor only, and nothing before it
\* is evaluated: through any number of late rows, merges, restarts and failed calls.
THEOREM PollingIsConfirmed ==
  ServiceSpec /\ []LostIsOldest => []NoPollingBeforeConfirmation
<1>1. FloorInv => NoPollingBeforeConfirmation
  BY DEF FloorInv
<1>. QED  BY <1>1, FloorInit, FloorStep, ServiceTyped, PTL DEF ServiceSpec

\* Under the same condition the visible floor of a scope never changes, whoever
\* enrolls it and whatever lands late.
THEOREM FloorNeverChanges ==
  ServiceSpec /\ []LostIsOldest => FloorIsFixed
<1>1. ServiceTypeInv /\ LostIsOldest /\ FloorInv /\ [ServiceNext]_serviceVars =>
        [\A r \in Rules : CurrentFloor(r) # {} => CurrentFloor(r)' = CurrentFloor(r)]_serviceVars
  BY FloorStays
<1>. QED
  BY <1>1, FloorInit, FloorStep, ServiceTyped, PTL DEF ServiceSpec, FloorIsFixed

\* One insert can be lost with one fault, and no row of its scope is there then.
LEMMA OneLossStep ==
  ASSUME MaxFaults <= 1, ServiceTypeInv, OneLoss, FloorInv, [ServiceNext]_serviceVars
  PROVE  OneLoss'
<1>0. faults \in Nat /\ (faults' = faults \/ Fault)
  BY DEF ServiceNext, Advance, Environment, Tick, BeginInsert, Publish, EndInsert, Operate,
     Detach, Attach, LateStateLands, MergeState, QueryFails, CallFails, Restart, ServiceTypeInv,
     ServiceTypeOK
<1>1. faults' = 0 => faults = 0
  BY <1>0 DEF Fault
<1>2. CASE CallFails
  <2>1. faults = 0 /\ faults' # 0
    BY <1>0, <1>2, ServiceAssumption DEF CallFails, Fault
  <2>2. LostIsOldest'
    BY <1>2, <2>1 DEF CallFails, OneLoss, LostIsOldest, Raw
  <2>. QED  BY <2>1, <2>2 DEF OneLoss
<1>3. CASE LateStateLands
  <2>1. late # {} /\ late' = {}
    BY <1>3 DEF LateStateLands
  <2>. QED  BY <1>1, <2>1 DEF OneLoss, LostIsOldest
<1>4. CASE InsertState
  <2>1. \A s \in late : s.rule = rule => s.floor <= floor
    BY <1>4 DEF InsertState, Goto, FloorInv, AskedInOrder, CachedIsUsed, Asking
  <2>2. LostIsOldest'
    BY <1>4, <2>1 DEF InsertState, OneLoss, LostIsOldest
  <2>. QED  BY <1>1, <1>4, <2>2 DEF InsertState, Goto, OneLoss
<1>5. ASSUME NEW r \in Rules, MergeState(r) PROVE OneLoss'
  <2>1. ruleState' \subseteq ruleState
    BY <1>5 DEF MergeState, LastWritten, Raw
  <2>. QED  BY <1>1, <1>5, <2>1 DEF MergeState, OneLoss, LostIsOldest, Raw
<1>6. CASE UNCHANGED <<ruleState, late>> /\ (pc' = "insertState" => pc = "insertState" /\ rule' = rule)
  BY <1>1, <1>6 DEF OneLoss, LostIsOldest, Raw
<1>7. CASE ReadState /\ UNCHANGED faults
  BY <1>7 DEF ReadState, Enrolled, OneLoss, LostIsOldest, Raw
<1>8. CASE Preflight
  <2>1. UNCHANGED <<ruleState, late>> /\ pc' # "insertState"
    BY <1>8 DEF Preflight, StartRule, FindGaps, GenerationBefore, Activity, FindGapsAgain,
       GenerationAfter, Revalidate, FindMismatches, Transient, Persist, Continue, Goto,
       ReturnBlocked, NextRule, ServiceTypeInv, ServiceTypeOK, Compared
  <2>. QED  BY <1>6, <2>1
<1>9. CASE Confirm \/ EvaluatePage \/ RaiseConflict \/ QueryFails \/ Restart
  <2>1. UNCHANGED <<ruleState, late>> /\ pc' # "insertState"
    BY <1>9 DEF Confirm, Enrolled, EvaluatePage, RaiseConflict, QueryFails, Restart, Abort,
       Persist, ReturnBlocked, NextRule
  <2>. QED  BY <1>6, <2>1
<1>10. CASE Tick \/ (\E v \in Rows : BeginInsert(v)) \/ Publish \/ EndInsert \/ Operate
            \/ UNCHANGED serviceVars
  BY <1>6, <1>10 DEF Tick, BeginInsert, Publish, EndInsert, Operate
<1>. QED
  BY <1>2, <1>3, <1>4, <1>5, <1>7, <1>8, <1>9, <1>10
     DEF ServiceNext, Advance, Environment, EnsureScope

\* With at most one fault the condition holds by itself: one lost insert, landing at
\* any time, neither moves a floor nor lets anything be polled without one.
THEOREM OneFaultMovesNoFloor ==
  ASSUME MaxFaults <= 1
  PROVE  ServiceSpec => []NoPollingBeforeConfirmation /\ FloorIsFixed
<1>1. ServiceInit => OneLoss
  BY DEF ServiceInit, OneLoss, LostIsOldest
<1>2. OneLoss => LostIsOldest
  BY DEF OneLoss
<1>3. ServiceTypeInv /\ ServiceTypeInv' /\ FloorInv /\ OneLoss /\ [ServiceNext]_serviceVars =>
        FloorInv' /\ OneLoss'
  BY <1>2, FloorStep, OneLossStep
<1>4. ServiceSpec => []LostIsOldest
  BY <1>1, <1>2, <1>3, FloorInit, ServiceTyped, PTL DEF ServiceSpec
<1>. QED  BY <1>4, PollingIsConfirmed, FloorNeverChanges, PTL
=============================================================================
