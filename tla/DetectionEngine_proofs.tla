----------------------- MODULE DetectionEngine_proofs -----------------------
(***************************************************************************)
(* Theorems of DetectionEngine, for every set of events, rulesets and      *)
(* rules, every page size and lookback, and any number of crashes, replays *)
(* and ruleset changes.                                                    *)
(***************************************************************************)
EXTENDS DetectionEngine, TLAPS

USE DEF vars, tables, late, locals, bounds

(***************************************************************************)
(* Type correctness                                                        *)
(***************************************************************************)
\* A position of an event is a position.
LEMMA PosType == \A e \in Events : Pos(e) \in Position
  BY EventsAssumption DEF Pos, Position

\* A page is drawn from the pending events it is given.
LEMMA PageSubset == \A S, c : Page(S, c) \subseteq S
  BY DEF Page

\* Candidates are detection ids, of the events they are asked for.
LEMMA CandidatesType ==
  \A r \in Rulesets : \A S \in SUBSET Events : Candidates(r, S) \subseteq DetectionIds
  BY DEF Candidates, DetectionIds

\* Inserting rows keeps the row counts counts and loses no published id.
LEMMA InsertFacts ==
  ASSUME detectionRows \in [DetectionIds -> Nat],
         NEW D \in SUBSET DetectionIds, Insert(D)
  PROVE  /\ detectionRows' \in [DetectionIds -> Nat]
         /\ Published' = Published \cup D
<1>1. \A d \in DetectionIds :
         detectionRows'[d] = detectionRows[d] + (IF d \in D THEN 1 ELSE 0)
  BY DEF Insert
<1>2. detectionRows' \in [DetectionIds -> Nat]
  BY DEF Insert
<1>3. \A d \in DetectionIds : detectionRows'[d] > 0 <=> detectionRows[d] > 0 \/ d \in D
  BY <1>1
<1>. QED  BY <1>2, <1>3 DEF Published

\* The initial states are well typed.
LEMMA InitType == Init => TypeOK
<1>. SUFFICES ASSUME Init PROVE TypeOK
  OBVIOUS
<1>1. checkpointRow \subseteq LegacyRow
  BY LegacyAssumption DEF Init
<1>2. detectionRows \in [DetectionIds -> Nat]
  BY DEF Init
<1>3. scope \in [Rulesets -> SUBSET ScopeRow]
  BY DEF Init
<1>4. rows \in [Events -> SUBSET Nat]
  BY DEF Init
<1>. QED
  BY <1>1, <1>2, <1>3, <1>4 DEF Init, TypeOK, IdleLocals, Origin, Position, Steps

\* A cycle that ends leaves locals of the right type.
LEMMA EndCycleType ==
  EndCycle => /\ pc' \in Steps
              /\ checkpoint' \in Position /\ floor' \in Int
              /\ cursor' \subseteq Position /\ page' \subseteq Events
              /\ passed' \subseteq Events /\ fresh' \subseteq DetectionIds
  BY DEF EndCycle, Origin, Position, Steps

\* Storing a scope or checkpoint row, on time or late, keeps the tables' types.
LEMMA StoreScopeType ==
  ASSUME TypeOK, NEW row \in ScopeRow, StoreScope(row)
  PROVE  scope' \in [Rulesets -> SUBSET ScopeRow] /\ lateScopes' \subseteq LateScope
  BY DEF TypeOK, StoreScope

LEMMA CheckpointType ==
  ASSUME TypeOK, NEW p \in Position PROVE CheckpointOf(p) \in LegacyRow
  BY DEF TypeOK, CheckpointOf, LegacyRow, Position

\* What a cycle has reached is a set of positions.
LEMMA ReachedType == TypeOK => Reached \subseteq Position
  BY PosType DEF TypeOK, Reached

\* An insert that is abandoned is one of six.
LEMMA AbandonType == TypeOK /\ AbandonInsert => late' \in (SUBSET DetectionIds)
    \X (SUBSET LedgerKeys) \X (SUBSET LateScope) \X (SUBSET LateCheckpoint)
<1>. SUFFICES ASSUME TypeOK, AbandonInsert
              PROVE  /\ lateDetections' \subseteq DetectionIds
                     /\ lateMarks' \subseteq LedgerKeys
                     /\ lateScopes' \subseteq LateScope
                     /\ lateCheckpoints' \subseteq LateCheckpoint
  OBVIOUS
<1>1. ASSUME NEW position \in SUBSET Position, AbandonScope(position)
      PROVE  /\ lateScopes' \subseteq LateScope
             /\ UNCHANGED <<lateDetections, lateMarks, lateCheckpoints>>
  BY <1>1 DEF AbandonScope, LateScope, ScopeRow, TypeOK
<1>2. ASSUME NEW p \in Position, AbandonCheckpoint(p)
      PROVE  /\ lateCheckpoints' \subseteq LateCheckpoint
             /\ UNCHANGED <<lateDetections, lateMarks, lateScopes>>
  BY <1>2, CheckpointType DEF AbandonCheckpoint, LateCheckpoint, TypeOK
<1>3. CASE pc = "insertScope" /\ AbandonScope({})
  BY <1>1, <1>3 DEF TypeOK
<1>4. CASE pc = "insertCheckpoint" /\ AbandonCheckpoint(checkpoint)
  BY <1>2, <1>4 DEF TypeOK
<1>5. ASSUME NEW e \in page, AbandonScope({Pos(e)})
      PROVE  lateScopes' \subseteq LateScope
             /\ UNCHANGED <<lateDetections, lateMarks, lateCheckpoints>>
  BY <1>1, <1>5, PosType DEF TypeOK
<1>6. ASSUME NEW p \in Reached, AbandonCheckpoint(p)
      PROVE  lateCheckpoints' \subseteq LateCheckpoint
             /\ UNCHANGED <<lateDetections, lateMarks, lateScopes>>
  BY <1>2, <1>6, ReachedType
<1>. QED
  BY <1>3, <1>4, <1>5, <1>6 DEF AbandonInsert, TypeOK, LedgerKeys

\* Every step keeps the types, one case per action.
LEMMA StepType == TypeOK /\ [Next]_vars => TypeOK'
<1>. SUFFICES ASSUME TypeOK, [Next]_vars PROVE TypeOK'
  OBVIOUS
<1>. USE DEF TypeOK
<1>1. CASE Tick
  BY <1>1, BoundsAssumption DEF Tick
<1>2. ASSUME NEW e \in Events, Ingest(e) PROVE TypeOK'
  BY <1>2 DEF Ingest
<1>3. ASSUME NEW r \in Rulesets, SwitchRuleset(r) PROVE TypeOK'
  BY <1>3 DEF SwitchRuleset
<1>4. CASE LoadCheckpoint
  <2>1. \A row \in checkpointRow : [time |-> row.time, uid |-> row.uid] \in Position
    BY DEF LegacyRow, Position
  <2>2. [time |-> clock - Lookback, uid |-> 0] \in Position
    BY SettingsAssumption DEF Position
  <2>3. checkpoint' \in Position
    BY <1>4, <2>1, <2>2, PosType DEF LoadCheckpoint
  <2>. QED  BY <1>4, <2>3 DEF LoadCheckpoint, Goto, Steps
<1>5. CASE LoadEvaluationScope
  <2>1. scope[ruleset] \subseteq ScopeRow
    OBVIOUS
  <2>2. floor' \in Int /\ cursor' \subseteq Position /\ pc' \in Steps
    BY <1>5, <2>1 DEF LoadEvaluationScope, ScopeRow, Steps
  <2>. QED  BY <1>5, <2>2 DEF LoadEvaluationScope
<1>6. CASE LoadLegacyFloor
  <2>1. floor' \in Int
    BY <1>6, SettingsAssumption DEF LoadLegacyFloor, LegacyRow, Position
  <2>. QED  BY <1>6, <2>1 DEF LoadLegacyFloor, Goto, Steps
<1>7. CASE InsertScope
  <2>1. [floor |-> floor, cursor |-> {}] \in ScopeRow
    BY DEF ScopeRow
  <2>2. scope' \in [Rulesets -> SUBSET ScopeRow] /\ lateScopes' \subseteq LateScope
    BY <1>7, <2>1, StoreScopeType DEF InsertScope
  <2>. QED  BY <1>7, <2>2 DEF InsertScope, Goto, Steps
<1>8. CASE InsertCheckpoint
  <2>1. checkpointRow' \subseteq LegacyRow /\ lateCheckpoints' \subseteq LateCheckpoint
    BY <1>8, CheckpointType DEF InsertCheckpoint, StoreCheckpoint
  <2>. QED  BY <1>8, <2>1 DEF InsertCheckpoint, Goto, Steps
<1>9. CASE FetchUnevaluated
  <2>1. page' \subseteq Events
    BY <1>9, PageSubset DEF FetchUnevaluated, Unevaluated
  <2>. QED  BY <1>9, <2>1 DEF FetchUnevaluated, Goto, Steps
<1>10. CASE EvaluatePage
  <2>1. passed' \subseteq Events
    BY <1>10 DEF EvaluatePage
  <2>2. fresh' \subseteq DetectionIds
    BY <1>10, <2>1, CandidatesType DEF EvaluatePage
  <2>. QED  BY <1>10, <2>1, <2>2 DEF EvaluatePage, Goto, Steps
<1>11. CASE InsertDetections
  <2>1. detectionRows' \in [DetectionIds -> Nat]
    BY <1>11, InsertFacts DEF InsertDetections
  <2>. QED  BY <1>11, <2>1 DEF InsertDetections, Goto, Steps
<1>12. CASE MarkEvaluated
  <2>1. ledger' \subseteq LedgerKeys
    BY <1>12 DEF MarkEvaluated, LedgerKeys
  <2>. QED  BY <1>12, <2>1 DEF MarkEvaluated, Goto, Steps
<1>13. CASE SaveCandidateCursor
  <2>1. ASSUME NEW e \in page, SaveCursorAs(e, floor)
        PROVE  /\ cursor' \subseteq Position /\ scope' \in [Rulesets -> SUBSET ScopeRow]
               /\ lateScopes' \subseteq LateScope
    <3>1. Pos(e) \in Position
      BY PosType
    <3>2. [floor |-> floor, cursor |-> {Pos(e)}] \in ScopeRow
      BY <3>1 DEF ScopeRow
    <3>. QED  BY <2>1, <3>1, <3>2, StoreScopeType DEF SaveCursorAs
  <2>2. /\ cursor' \subseteq Position /\ scope' \in [Rulesets -> SUBSET ScopeRow]
        /\ lateScopes' \subseteq LateScope
    BY <1>13, <2>1 DEF SaveCandidateCursor
  <2>. QED  BY <1>13, <2>2 DEF SaveCandidateCursor, Goto, Steps
<1>14. CASE SaveCheckpoint
  <2>2. checkpointRow' \subseteq LegacyRow /\ lateCheckpoints' \subseteq LateCheckpoint
    BY <1>14, ReachedType, CheckpointType DEF SaveCheckpoint, StoreCheckpoint
  <2>. QED  BY <1>14, <2>2, EndCycleType DEF SaveCheckpoint
<1>15. CASE Abort
  BY <1>15, EndCycleType DEF Abort
<1>16. CASE AbandonInsert
  <2>1. /\ lateDetections' \subseteq DetectionIds /\ lateMarks' \subseteq LedgerKeys
        /\ lateScopes' \subseteq LateScope /\ lateCheckpoints' \subseteq LateCheckpoint
    BY <1>16, AbandonType
  <2>. QED  BY <1>16, <2>1, EndCycleType DEF AbandonInsert
<1>17. CASE LandDetections
  <2>1. detectionRows' \in [DetectionIds -> Nat]
    BY <1>17, InsertFacts DEF LandDetections
  <2>. QED  BY <1>17, <2>1 DEF LandDetections
<1>18. CASE LandMarks
  BY <1>18 DEF LandMarks
<1>19. CASE LandScope
  <2>1. PICK w \in lateScopes : /\ scope' = [scope EXCEPT ![w.ruleset] = {w.row}]
                               /\ lateScopes' \subseteq lateScopes
    BY <1>19 DEF LandScope
  <2>2. w.ruleset \in Rulesets /\ w.row \in ScopeRow
    BY DEF LateScope
  <2>3. scope' \in [Rulesets -> SUBSET ScopeRow]
    BY <2>1, <2>2
  <2>. QED  BY <1>19, <2>1, <2>3 DEF LandScope
<1>20. CASE LandCheckpoint
  <2>1. PICK w \in lateCheckpoints : /\ checkpointRow' = {w.row}
                                    /\ lateCheckpoints' \subseteq lateCheckpoints
    BY <1>20 DEF LandCheckpoint
  <2>2. w.row \in LegacyRow
    BY DEF LateCheckpoint
  <2>. QED  BY <1>20, <2>1, <2>2 DEF LandCheckpoint
<1>21. CASE UNCHANGED vars
  BY <1>21 DEF DetectionIds
<1>. QED
  BY <1>1, <1>2, <1>3, <1>4, <1>5, <1>6, <1>7, <1>8, <1>9, <1>10, <1>11, <1>12,
     <1>13, <1>14, <1>15, <1>16, <1>17, <1>18, <1>19, <1>20, <1>21
     DEF Next, Cycle, Environment, Failure, Land

\* Type correctness of every table and of the locals of run_cycle.
THEOREM TypeCorrect == Spec => []TypeOK
  BY InitType, StepType, PTL DEF Spec

(***************************************************************************)
(* Detections before the ledger                                            *)
(***************************************************************************)
\* Some ruleset that can evaluate the event of d matches the rule of d on it.
Justified(d) == \E r \in Rulesets : d \in Candidates(r, Events \ Failing[r])

\* The inductive strengthening of LedgerImpliesDetections: what is still in
\* flight (locals of the cycle, abandoned inserts) already keeps the order.
ContractInv ==
  /\ \A k \in ledger \cup lateMarks :
        k[2] \notin Failing[k[1]] /\ Candidates(k[1], {k[2]}) \subseteq Published
  /\ \A d \in fresh \cup lateDetections : Justified(d)
  /\ pc = "idle" => passed = {}
  /\ \A e \in passed : e \notin Failing[ruleset]
  /\ pc = "insertDetections" => Candidates(ruleset, passed) \subseteq Published \cup fresh
  /\ pc = "markEvaluated" => Candidates(ruleset, passed) \subseteq Published

\* The candidates of a set of events include those of each of its events.
LEMMA CandidatesMonotone ==
  \A r \in Rulesets : \A S \in SUBSET Events : \A e \in S :
     Candidates(r, {e}) \subseteq Candidates(r, S)
  BY DEF Candidates

\* Marking events whose candidates are published keeps the first conjunct.
LEMMA MarksSafe ==
  ASSUME NEW r \in Rulesets, NEW S \in SUBSET Events,
         \A e \in S : e \notin Failing[r], Candidates(r, S) \subseteq Published,
         NEW k \in {r} \X S
  PROVE  k[2] \notin Failing[k[1]] /\ Candidates(k[1], {k[2]}) \subseteq Published
  BY CandidatesMonotone

\* The ledger is empty at first.
LEMMA ContractInit0 == Init => ContractInv
  BY DEF Init, ContractInv, IdleLocals

\* Every step keeps the strengthening of crash consistency.
LEMMA ContractStep == TypeOK /\ ContractInv /\ [Next]_vars => ContractInv'
<1>. SUFFICES ASSUME TypeOK, ContractInv, [Next]_vars PROVE ContractInv'
  OBVIOUS
<1>. USE DEF ContractInv
<1>a. ASSUME UNCHANGED <<detectionRows, ledger, lateDetections, lateMarks, ruleset>>, EndCycle
      PROVE  ContractInv'
  BY <1>a DEF EndCycle, Published, Justified
<1>b. ASSUME UNCHANGED <<detectionRows, ledger, lateDetections, lateMarks, ruleset, passed, fresh>>,
             pc' \notin {"idle", "insertDetections", "markEvaluated"}
      PROVE  ContractInv'
  BY <1>b DEF Published, Justified
<1>1. CASE Tick
  BY <1>1 DEF Tick, Published, Justified
<1>2. ASSUME NEW e \in Events, Ingest(e) PROVE ContractInv'
  BY <1>2 DEF Ingest, Published, Justified
<1>3. ASSUME NEW r \in Rulesets, SwitchRuleset(r) PROVE ContractInv'
  BY <1>3 DEF SwitchRuleset, Published, Justified
<1>4. CASE LoadCheckpoint \/ LoadLegacyFloor \/ InsertScope \/ InsertCheckpoint
           \/ FetchUnevaluated \/ SaveCandidateCursor
  BY <1>4, <1>b DEF LoadCheckpoint, LoadLegacyFloor, InsertScope, InsertCheckpoint,
     FetchUnevaluated, SaveCandidateCursor, Goto
<1>5. CASE LoadEvaluationScope
  BY <1>5, <1>b DEF LoadEvaluationScope
<1>6. CASE EvaluatePage
  <2>1. passed' = page \ Failing[ruleset] /\ passed' \subseteq Events \ Failing[ruleset]
    BY <1>6 DEF EvaluatePage, TypeOK
  <2>2. \A d \in fresh' : Justified(d)
    BY <1>6, <2>1 DEF EvaluatePage, Justified, Candidates, TypeOK
  <2>3. Candidates(ruleset, passed') \subseteq Published \cup fresh'
    BY <1>6 DEF EvaluatePage
  <2>4. UNCHANGED <<detectionRows, ledger, late, ruleset>> /\ pc' = "insertDetections"
    BY <1>6 DEF EvaluatePage, Goto
  <2>5. Published' = Published
    BY <2>4 DEF Published
  <2>. QED  BY <2>1, <2>2, <2>3, <2>4, <2>5 DEF Justified
<1>7. CASE InsertDetections
  <2>1. Published' = Published \cup fresh
    BY <1>7, InsertFacts DEF InsertDetections, TypeOK
  <2>2. pc = "insertDetections" /\ pc' = "markEvaluated"
        /\ UNCHANGED <<ledger, late, ruleset, locals>>
    BY <1>7 DEF InsertDetections, Goto
  <2>. QED  BY <2>1, <2>2 DEF Justified
<1>8. CASE MarkEvaluated
  <2>1. pc = "markEvaluated" /\ pc' = "saveCursor" /\ ledger' = ledger \cup ({ruleset} \X passed)
        /\ UNCHANGED <<detectionRows, late, ruleset, locals>>
    BY <1>8 DEF MarkEvaluated, Goto
  <2>2. \A k \in {ruleset} \X passed :
          k[2] \notin Failing[k[1]] /\ Candidates(k[1], {k[2]}) \subseteq Published
    BY <2>1, MarksSafe DEF TypeOK
  <2>. QED  BY <2>1, <2>2 DEF Published, Justified
<1>9. CASE SaveCheckpoint
  BY <1>9, <1>a DEF SaveCheckpoint
<1>10. CASE Abort
  BY <1>10, <1>a DEF Abort
<1>11. CASE AbandonInsert
  <2>0. UNCHANGED <<detectionRows, ledger, ruleset>> /\ pc' = "idle" /\ passed' = {}
        /\ fresh' = {}
    BY <1>11 DEF AbandonInsert, EndCycle
  <2>1. CASE lateDetections' = lateDetections \cup fresh /\ UNCHANGED lateMarks
    BY <2>0, <2>1 DEF Published, Justified
  <2>2. CASE /\ pc = "markEvaluated"
             /\ lateMarks' = lateMarks \cup ({ruleset} \X passed)
             /\ UNCHANGED lateDetections
    <3>1. \A k \in {ruleset} \X passed :
            k[2] \notin Failing[k[1]] /\ Candidates(k[1], {k[2]}) \subseteq Published
      BY <2>2, MarksSafe DEF TypeOK
    <3>. QED  BY <2>0, <2>2, <3>1 DEF Published, Justified
  <2>3. CASE UNCHANGED <<lateDetections, lateMarks>>
    BY <1>11, <1>a, <2>0, <2>3 DEF AbandonInsert
  <2>. QED  BY <1>11, <2>1, <2>2, <2>3 DEF AbandonInsert, AbandonScope, AbandonCheckpoint
<1>12. CASE LandDetections
  <2>1. Published' = Published \cup lateDetections
    BY <1>12, InsertFacts DEF LandDetections, TypeOK
  <2>. QED  BY <1>12, <2>1 DEF LandDetections, Justified
<1>13. CASE LandMarks
  BY <1>13 DEF LandMarks, Published, Justified
<1>14. CASE LandScope \/ LandCheckpoint \/ UNCHANGED vars
  BY <1>14 DEF LandScope, LandCheckpoint, Published, Justified
<1>. QED
  BY <1>1, <1>2, <1>3, <1>4, <1>5, <1>6, <1>7, <1>8, <1>9, <1>10, <1>11, <1>12,
     <1>13, <1>14 DEF Next, Cycle, Environment, Failure, Land

\* The strengthening of crash consistency holds in every state.
LEMMA ContractInvariant == Spec => []ContractInv
<1>1. Spec => []TypeOK
  BY TypeCorrect
<1>. QED  BY <1>1, ContractInit0, ContractStep, PTL DEF Spec

\* An event in the ledger has all its detections published, in every state:
\* run_cycle's crash consistency, also with inserts that land late.
THEOREM LedgerSafe == Spec => []LedgerImpliesDetections
<1>1. ContractInv => LedgerImpliesDetections
  <2>. SUFFICES ASSUME ContractInv, NEW r \in Rulesets, NEW e \in Events,
                       <<r, e>> \in ledger
                PROVE  Candidates(r, {e}) \subseteq Published
    BY DEF LedgerImpliesDetections
  <2>1. Candidates(<<r, e>>[1], {<<r, e>>[2]}) \subseteq Published
    BY DEF ContractInv
  <2>. QED  BY <2>1
<1>. QED  BY <1>1, ContractInvariant, PTL

(***************************************************************************)
(* Refinement of the evaluation contract                                   *)
(***************************************************************************)
\* Publishing justified detections, or none, is a step of the contract.
LEMMA PublishStep ==
  ASSUME NEW D, \A d \in D : Justified(d), Published' = Published \cup D,
         UNCHANGED ledger
  PROVE  [Abstract!ContractNext]_(Abstract!contractVars)
<1>1. \A d \in D : \E k \in Abstract!Evaluable : d \in Abstract!Owed(k)
  <2>. SUFFICES ASSUME NEW d \in D
                PROVE  \E k \in Abstract!Evaluable : d \in Abstract!Owed(k)
    OBVIOUS
  <2>1. PICK r \in Rulesets : d \in Candidates(r, Events \ Failing[r])
    BY DEF Justified
  <2>2. <<r, d[2]>> \in Abstract!Evaluable /\ d \in Abstract!Owed(<<r, d[2]>>)
    BY <2>1 DEF Candidates, Abstract!Evaluable, Abstract!Owed
  <2>. QED  BY <2>2
<1>2. D \in SUBSET UNION {Abstract!Owed(k) : k \in Abstract!Evaluable}
  BY <1>1
<1>. QED  BY <1>2 DEF Abstract!ContractNext, Abstract!Publish

\* Marking pairs whose candidates are published is a step of the contract.
LEMMA CompleteStep ==
  ASSUME NEW K \in SUBSET (Rulesets \X Events),
         \A k \in K : /\ k[2] \notin Failing[k[1]]
                      /\ Candidates(k[1], {k[2]}) \subseteq Published,
         ledger' = ledger \cup K, UNCHANGED detectionRows
  PROVE  [Abstract!ContractNext]_(Abstract!contractVars)
<1>1. K \in SUBSET {k \in Abstract!Evaluable : Abstract!Owed(k) \subseteq Published}
  BY DEF Abstract!Evaluable, Abstract!Owed, Candidates
<1>2. UNCHANGED Published
  BY DEF Published
<1>. QED  BY <1>1, <1>2 DEF Abstract!ContractNext, Abstract!Complete

\* The initial tables are the contract's initial state.
LEMMA ContractInitRefined == Init => Abstract!ContractInit
<1>. SUFFICES ASSUME Init PROVE Published = {} /\ ledger = {}
  BY DEF Abstract!ContractInit
<1>1. \A d \in DetectionIds : detectionRows[d] = 0
  BY DEF Init
<1>. QED  BY <1>1 DEF Init, Published

\* Every step of the engine is a step of the contract or leaves it alone.
LEMMA ContractStepRefined ==
  TypeOK /\ ContractInv /\ [Next]_vars => [Abstract!ContractNext]_(Abstract!contractVars)
<1>. SUFFICES ASSUME TypeOK, ContractInv, [Next]_vars
              PROVE  [Abstract!ContractNext]_(Abstract!contractVars)
  OBVIOUS
<1>1. CASE InsertDetections
  <2>1. Published' = Published \cup fresh /\ UNCHANGED ledger
    BY <1>1, InsertFacts DEF InsertDetections, TypeOK
  <2>. QED  BY <2>1, PublishStep DEF ContractInv
<1>2. CASE LandDetections
  <2>1. Published' = Published \cup lateDetections /\ UNCHANGED ledger
    BY <1>2, InsertFacts DEF LandDetections, TypeOK
  <2>. QED  BY <2>1, PublishStep DEF ContractInv
<1>3. CASE MarkEvaluated
  <2>1. ledger' = ledger \cup ({ruleset} \X passed) /\ UNCHANGED detectionRows
        /\ pc = "markEvaluated"
    BY <1>3 DEF MarkEvaluated, Goto
  <2>2. \A k \in {ruleset} \X passed :
          k[2] \notin Failing[k[1]] /\ Candidates(k[1], {k[2]}) \subseteq Published
    BY <2>1, MarksSafe DEF TypeOK, ContractInv
  <2>3. {ruleset} \X passed \in SUBSET (Rulesets \X Events)
    BY DEF TypeOK
  <2>. QED  BY <2>1, <2>2, <2>3, CompleteStep
<1>4. CASE LandMarks
  <2>1. ledger' = ledger \cup lateMarks /\ UNCHANGED detectionRows
    BY <1>4 DEF LandMarks
  <2>2. lateMarks \in SUBSET (Rulesets \X Events)
    BY DEF TypeOK, LedgerKeys
  <2>. QED  BY <2>1, <2>2, CompleteStep DEF ContractInv
<1>5. ASSUME UNCHANGED <<detectionRows, ledger>>
      PROVE  [Abstract!ContractNext]_(Abstract!contractVars)
  BY <1>5 DEF Abstract!contractVars, Published
<1>6. CASE UNCHANGED vars
  BY <1>5, <1>6
<1>7. CASE Environment
  BY <1>5, <1>7 DEF Environment, Tick, Ingest, SwitchRuleset
<1>8. CASE Abort \/ AbandonInsert \/ LandScope \/ LandCheckpoint
  BY <1>5, <1>8 DEF Abort, AbandonInsert, LandScope, LandCheckpoint
<1>9. CASE LoadCheckpoint \/ LoadEvaluationScope \/ LoadLegacyFloor \/ InsertScope
           \/ InsertCheckpoint \/ FetchUnevaluated \/ EvaluatePage
           \/ SaveCandidateCursor \/ SaveCheckpoint
  BY <1>5, <1>9 DEF LoadCheckpoint, LoadEvaluationScope, LoadLegacyFloor, InsertScope,
     InsertCheckpoint, FetchUnevaluated, EvaluatePage, SaveCandidateCursor, SaveCheckpoint
<1>. QED
  BY <1>1, <1>2, <1>3, <1>4, <1>6, <1>7, <1>8, <1>9 DEF Next, Cycle, Failure, Land

\* The engine implements the contract: whatever crashes, replays and late
\* inserts do, a reader of the two tables sees publish-then-complete steps.
THEOREM ContractImplemented == Spec => ImplementsContract
<1>1. Spec => []TypeOK
  BY TypeCorrect
<1>. QED
  BY <1>1, ContractInvariant, ContractInitRefined, ContractStepRefined, PTL
  DEF Spec, ImplementsContract, Abstract!Contract

(***************************************************************************)
(* The enrollment floor                                                    *)
(***************************************************************************)
\* No insert has been abandoned.
NothingLate ==
  lateDetections = {} /\ lateMarks = {} /\ lateScopes = {} /\ lateCheckpoints = {}

\* Without late writes every insert lands in its call.
LEMMA NothingLateStep == ~ LateWrites /\ NothingLate /\ [Next]_vars => NothingLate'
  BY DEF Next, Cycle, Environment, Failure, Land, Tick, Ingest, SwitchRuleset, LoadCheckpoint,
     LoadEvaluationScope, LoadLegacyFloor, InsertScope, InsertCheckpoint, FetchUnevaluated,
     EvaluatePage, InsertDetections, MarkEvaluated, SaveCandidateCursor, SaveCursorAs,
     SaveCheckpoint, StoreScope, StoreCheckpoint, Abort, AbandonInsert, LandDetections,
     LandMarks, LandScope, LandCheckpoint, NothingLate

LEMMA NothingLateInvariant == ~ LateWrites => (Spec => []NothingLate)
<1>. SUFFICES ASSUME ~ LateWrites PROVE Spec => []NothingLate
  OBVIOUS
<1>1. Init => NothingLate
  BY DEF Init, NothingLate
<1>. QED  BY <1>1, NothingLateStep, PTL DEF Spec

\* The floor a cycle works with is the stored one, from the moment its scope
\* row is known; before that there is no row to disagree with.
FloorInv ==
  /\ \A r \in Rulesets : \A s, t \in scope[r] : s.floor = t.floor
  /\ pc \in {"loadLegacy", "insertScope"} => scope[ruleset] = {}
  /\ pc \in Steps \ {"idle", "loadScope", "loadLegacy", "insertScope"} =>
        \A s \in scope[ruleset] : s.floor = floor

\* No scope is enrolled at first.
LEMMA FloorInit == Init => FloorInv
  BY DEF Init, FloorInv

\* Every step keeps the floor invariant and moves no enrolled floor.
LEMMA FloorStep ==
  TypeOK /\ NothingLate /\ FloorInv /\ [Next]_vars =>
    /\ FloorInv'
    /\ \A r \in Rulesets : \A old \in scope[r] :
         scope'[r] # {} /\ \A new \in scope'[r] : new.floor = old.floor
<1>. DEFINE Kept == \A r \in Rulesets : \A old \in scope[r] :
              scope'[r] # {} /\ \A new \in scope'[r] : new.floor = old.floor
<1>. SUFFICES ASSUME TypeOK, NothingLate, FloorInv, [Next]_vars PROVE FloorInv' /\ Kept
  OBVIOUS
<1>. USE DEF FloorInv, Steps
<1>1. CASE Tick
  BY <1>1 DEF Tick
<1>2. ASSUME NEW e \in Events, Ingest(e) PROVE FloorInv' /\ Kept
  BY <1>2 DEF Ingest
<1>3. ASSUME NEW r \in Rulesets, SwitchRuleset(r) PROVE FloorInv' /\ Kept
  BY <1>3 DEF SwitchRuleset
<1>4. CASE LoadCheckpoint
  BY <1>4 DEF LoadCheckpoint, Goto
<1>5. CASE LoadEvaluationScope
  BY <1>5 DEF LoadEvaluationScope, TypeOK
<1>6. CASE LoadLegacyFloor
  BY <1>6 DEF LoadLegacyFloor, Goto
<1>7. CASE InsertScope
  <2>1. scope[ruleset] = {} /\ pc' = "insertCheckpoint" /\ UNCHANGED <<ruleset, floor>>
    BY <1>7 DEF InsertScope, Goto
  <2>2. \A r \in Rulesets : scope'[r] =
          IF r = ruleset THEN {[floor |-> floor, cursor |-> {}]} ELSE scope[r]
    BY <1>7 DEF InsertScope, StoreScope, TypeOK
  <2>. QED  BY <2>1, <2>2 DEF TypeOK
<1>8. CASE InsertCheckpoint \/ FetchUnevaluated \/ EvaluatePage \/ InsertDetections
           \/ MarkEvaluated
  BY <1>8 DEF InsertCheckpoint, FetchUnevaluated, EvaluatePage, InsertDetections,
     MarkEvaluated, Goto
<1>9. CASE SaveCandidateCursor
  <2>1. pc = "saveCursor" /\ pc' = "saveCheckpoint" /\ UNCHANGED <<ruleset, floor>>
    BY <1>9 DEF SaveCandidateCursor, Goto
  <2>2. CASE UNCHANGED scope
    BY <2>1, <2>2
  <2>3. ASSUME NEW e \in page, SaveCursorAs(e, floor) PROVE FloorInv' /\ Kept
    <3>1. \A r \in Rulesets : scope'[r] =
            IF r = ruleset THEN {[floor |-> floor, cursor |-> {Pos(e)}]} ELSE scope[r]
      BY <2>3 DEF SaveCursorAs, StoreScope, TypeOK
    <3>2. \A old \in scope[ruleset] : old.floor = floor
      BY <2>1
    <3>a. scope'[ruleset] = {[floor |-> floor, cursor |-> {Pos(e)}]}
      BY <3>1 DEF TypeOK
    <3>3. scope'[ruleset] # {} /\ \A new \in scope'[ruleset] : new.floor = floor
      BY <3>a
    <3>4. \A r \in Rulesets : r # ruleset => scope'[r] = scope[r]
      BY <3>1
    <3>5. Kept
      BY <3>2, <3>3, <3>4
    <3>6. FloorInv'
      BY <2>1, <3>3, <3>4
    <3>. QED  BY <3>5, <3>6
  <2>. QED  BY <1>9, <2>2, <2>3 DEF SaveCandidateCursor
<1>10. CASE SaveCheckpoint \/ Abort \/ AbandonInsert
  BY <1>10 DEF SaveCheckpoint, Abort, AbandonInsert, EndCycle
<1>11. CASE Land
  BY <1>11 DEF Land, LandDetections, LandMarks, LandScope, LandCheckpoint, NothingLate
<1>12. CASE UNCHANGED vars
  BY <1>12
<1>. QED
  BY <1>1, <1>2, <1>3, <1>4, <1>5, <1>6, <1>7, <1>8, <1>9, <1>10, <1>11, <1>12
  DEF Next, Cycle, Environment, Failure

\* Without late writes, a scope's floor is written once and for all: no crash
\* between its two inserts, cursor write or change of ruleset moves it. With
\* them it may move: see the comment of FloorFixed.
THEOREM FloorNeverMoves == ~ LateWrites => (Spec => FloorFixed)
<1>. SUFFICES ASSUME ~ LateWrites PROVE Spec => FloorFixed
  OBVIOUS
<1>1. Spec => []TypeOK /\ []NothingLate
  BY TypeCorrect, NothingLateInvariant
<1>2. Spec => []FloorInv
  BY <1>1, FloorInit, FloorStep, PTL DEF Spec
<1>. QED  BY <1>1, <1>2, FloorStep, PTL DEF Spec, FloorFixed

(***************************************************************************)
(* The watermark                                                           *)
(***************************************************************************)
\* The order of positions is transitive.
LEMMA LeqTransitive ==
  ASSUME NEW p, NEW q, NEW s, p.time \in Int, q.time \in Int, s.time \in Int,
         p.uid \in Nat, q.uid \in Nat, s.uid \in Nat, Leq(p, q), Leq(q, s)
  PROVE  Leq(p, s)
  BY DEF Leq

\* There is one checkpoint row at most, and once a cycle has loaded its
\* checkpoint the row does not lie beyond it.
WatermarkInv ==
  /\ \A a, b \in checkpointRow : a = b
  /\ pc # "idle" => \A row \in checkpointRow : Leq(row, checkpoint)

\* No cycle has loaded a checkpoint at first.
LEMMA WatermarkInit == Init => WatermarkInv
  BY DEF Init, WatermarkInv

\* Storing a position at or above the loaded checkpoint moves no row back.
LEMMA StoreForward ==
  ASSUME TypeOK, WatermarkInv, pc # "idle", NEW p \in Position,
         Leq(checkpoint, p), StoreCheckpoint(p)
  PROVE  /\ \A old \in checkpointRow : \A new \in checkpointRow' : Leq(old, new)
         /\ \A a, b \in checkpointRow' : a = b
         /\ \A new \in checkpointRow' : new.time = p.time /\ new.uid = p.uid
<1>1. \A new \in checkpointRow' : new.time = p.time /\ new.uid = p.uid
  BY DEF StoreCheckpoint, CheckpointOf
<1>2. \A a, b \in checkpointRow' : a = b
  BY DEF StoreCheckpoint
<1>3. ASSUME NEW old \in checkpointRow, NEW new \in checkpointRow'
      PROVE  Leq(old, new)
  <2>1. Leq(old, checkpoint)
    BY DEF WatermarkInv
  <2>2. /\ old.time \in Int /\ old.uid \in Nat
        /\ p.time \in Int /\ p.uid \in Nat
        /\ checkpoint.time \in Int /\ checkpoint.uid \in Nat
    BY DEF TypeOK, Position, LegacyRow
  <2>3. Leq(old, p)
    BY <2>1, <2>2, LeqTransitive
  <2>. QED  BY <1>1, <2>3 DEF Leq
<1>. QED  BY <1>1, <1>2, <1>3

\* Every step keeps the watermark invariant and moves no watermark back.
LEMMA WatermarkStep ==
  TypeOK /\ NothingLate /\ WatermarkInv /\ [Next]_vars =>
    /\ WatermarkInv'
    /\ \A old \in checkpointRow : \A new \in checkpointRow' : Leq(old, new)
<1>. DEFINE Forward == \A old \in checkpointRow : \A new \in checkpointRow' : Leq(old, new)
<1>. SUFFICES ASSUME TypeOK, NothingLate, WatermarkInv, [Next]_vars
              PROVE  WatermarkInv' /\ Forward
  OBVIOUS
<1>r. \A p \in Position : Leq(p, p)
  BY DEF Position, Leq
<1>a. ASSUME UNCHANGED checkpointRow PROVE Forward
  <2>1. \A row \in checkpointRow : row.time \in Int /\ row.uid \in Nat
    BY DEF TypeOK, LegacyRow
  <2>2. \A row \in checkpointRow : Leq(row, row)
    BY <2>1 DEF Leq
  <2>. QED  BY <1>a, <2>2 DEF WatermarkInv
<1>b. ASSUME UNCHANGED <<checkpointRow, checkpoint>>, pc # "idle" \/ pc' = "idle"
      PROVE  WatermarkInv' /\ Forward
  BY <1>a, <1>b DEF WatermarkInv, Leq
<1>c. ASSUME UNCHANGED checkpointRow, pc' = "idle" PROVE WatermarkInv' /\ Forward
  BY <1>a, <1>c DEF WatermarkInv
<1>1. CASE LoadCheckpoint
  <2>1. UNCHANGED checkpointRow
    BY <1>1 DEF LoadCheckpoint
  <2>2. \A row \in checkpointRow : Leq(row, checkpoint')
    <3>. DEFINE stored == {[time |-> row.time, uid |-> row.uid] : row \in checkpointRow}
                known == stored \cup {Pos(e) : e \in {x \in Events : <<ruleset, x>> \in ledger}}
    <3>1. known = {} \/ IsLast(checkpoint', known)
      BY <1>1 DEF LoadCheckpoint
    <3>2. ASSUME NEW row \in checkpointRow PROVE Leq(row, checkpoint')
      <4>1. [time |-> row.time, uid |-> row.uid] \in known
        OBVIOUS
      <4>2. Leq([time |-> row.time, uid |-> row.uid], checkpoint')
        BY <3>1, <4>1 DEF IsLast
      <4>. QED  BY <4>2 DEF Leq
    <3>. QED  BY <3>2
  <2>. QED  BY <1>a, <2>1, <2>2 DEF WatermarkInv, Leq
<1>2. CASE InsertCheckpoint
  <2>1. pc = "insertCheckpoint" /\ StoreCheckpoint(checkpoint) /\ UNCHANGED checkpoint
    BY <1>2 DEF InsertCheckpoint, Goto
  <2>2. checkpoint \in Position /\ Leq(checkpoint, checkpoint)
    BY <1>r DEF TypeOK
  <2>3. Forward /\ \A a, b \in checkpointRow' : a = b
    BY <2>1, <2>2, StoreForward
  <2>4. \A new \in checkpointRow' : Leq(new, checkpoint')
    BY <2>1, <2>2, StoreForward DEF Leq
  <2>. QED  BY <2>3, <2>4 DEF WatermarkInv
<1>3. CASE SaveCheckpoint
  <2>1. PICK p \in Reached : IsLast(p, Reached) /\ StoreCheckpoint(p)
    BY <1>3 DEF SaveCheckpoint
  <2>2. p \in Position /\ Leq(checkpoint, p)
    BY <2>1, ReachedType DEF IsLast, Reached
  <2>3. pc = "saveCheckpoint" /\ pc' = "idle"
    BY <1>3 DEF SaveCheckpoint, EndCycle
  <2>4. Forward /\ \A a, b \in checkpointRow' : a = b
    BY <2>1, <2>2, <2>3, StoreForward
  <2>. QED  BY <2>3, <2>4 DEF WatermarkInv
<1>4. CASE Environment
  BY <1>4, <1>b, <1>c DEF Environment, Tick, Ingest, SwitchRuleset
<1>5. CASE Abort \/ AbandonInsert
  BY <1>5, <1>c DEF Abort, AbandonInsert, EndCycle
<1>6. CASE Land
  BY <1>6, <1>b DEF Land, LandDetections, LandMarks, LandScope, LandCheckpoint, NothingLate
<1>7. CASE LoadEvaluationScope
  BY <1>7, <1>b DEF LoadEvaluationScope
<1>8. CASE LoadLegacyFloor \/ InsertScope \/ FetchUnevaluated \/ EvaluatePage
           \/ InsertDetections \/ MarkEvaluated \/ SaveCandidateCursor
  BY <1>8, <1>b DEF LoadLegacyFloor, InsertScope, FetchUnevaluated, EvaluatePage,
     InsertDetections, MarkEvaluated, SaveCandidateCursor, Goto
<1>9. CASE UNCHANGED vars
  BY <1>9, <1>b
<1>. QED
  BY <1>1, <1>2, <1>3, <1>4, <1>5, <1>6, <1>7, <1>8, <1>9 DEF Next, Cycle, Failure

\* Without late writes no cycle, and no change of ruleset, moves the stored
\* watermark back. With them one may: see CheckpointNeverRegresses.
THEOREM WatermarkForward == ~ LateWrites => (Spec => CheckpointNeverRegresses)
<1>. SUFFICES ASSUME ~ LateWrites PROVE Spec => CheckpointNeverRegresses
  OBVIOUS
<1>1. Spec => []TypeOK /\ []NothingLate
  BY TypeCorrect, NothingLateInvariant
<1>2. Spec => []WatermarkInv
  BY <1>1, WatermarkInit, WatermarkStep, PTL DEF Spec
<1>. QED  BY <1>1, <1>2, WatermarkStep, PTL DEF Spec, CheckpointNeverRegresses

(***************************************************************************)
(* Enrollment under bounded clock skew                                     *)
(***************************************************************************)
\* No event is stamped further ahead than the lookback window, and a row kept
\* from an older version does not lie in the future.
SkewWithinLookback ==
  /\ MaxSkew <= Lookback
  /\ \A row \in LegacyRows : row.time <= MaxSkew /\ \A f \in row.floor : f <= 0

\* No watermark runs ahead of the clock by more than the skew, so no floor,
\* stored or about to be, lies in the future.
PastInv ==
  /\ \A e \in Events : rows[e] # {} => EventTime[e] <= clock + MaxSkew
  /\ \A row \in checkpointRow :
        row.time <= clock + MaxSkew /\ \A f \in row.floor : f <= clock
  /\ \A k \in ledger \cup lateMarks : rows[k[2]] # {}
  /\ \A e \in page \cup passed : rows[e] # {}
  /\ checkpoint.time <= clock + MaxSkew
  /\ floor <= clock
  /\ \A r \in Rulesets : \A s \in scope[r] : s.floor <= clock
  /\ \A w \in lateScopes : w.row.floor <= clock
  /\ \A w \in lateCheckpoints :
        w.row.time <= clock + MaxSkew /\ \A f \in w.row.floor : f <= clock

\* With the source clock within the lookback, no position is ahead at first.
LEMMA PastInit == SkewWithinLookback /\ Init => PastInv
<1>. SUFFICES ASSUME SkewWithinLookback, Init PROVE PastInv
  OBVIOUS
<1>1. \A row \in checkpointRow : row \in LegacyRows
  BY DEF Init
<1>2. clock = 0 /\ checkpoint.time = 0 /\ floor = 0 /\ MaxSkew \in Nat
  BY BoundsAssumption DEF Init, IdleLocals, Origin
<1>. QED  BY <1>1, <1>2 DEF Init, IdleLocals, PastInv, SkewWithinLookback

\* Nothing but ingestion, the clock and the cycle's own writes bears on it.
LEMMA PastStep ==
  SkewWithinLookback /\ TypeOK /\ PastInv /\ [Next]_vars => PastInv'
<1>. SUFFICES ASSUME SkewWithinLookback, TypeOK, PastInv, [Next]_vars PROVE PastInv'
  OBVIOUS
<1>. USE DEF PastInv
<1>t. /\ clock \in Nat /\ MaxSkew \in Nat /\ Lookback \in Nat /\ floor \in Int
      /\ checkpoint.time \in Int /\ \A e \in Events : EventTime[e] \in Int
  BY EventsAssumption, SettingsAssumption, BoundsAssumption DEF TypeOK, Position
<1>e. ASSUME EndCycle, UNCHANGED <<clock, rows, ledger, lateMarks, lateScopes, lateCheckpoints,
                                   scope, checkpointRow>>
      PROVE  PastInv'
  BY <1>e, <1>t DEF EndCycle, Origin
<1>p. \A p \in Reached : p.time <= clock + MaxSkew
  <2>1. ASSUME NEW e \in passed PROVE Pos(e).time <= clock + MaxSkew
    <3>1. e \in Events /\ rows[e] # {} /\ Pos(e).time = EventTime[e]
      BY <2>1 DEF Pos, TypeOK
    <3>. QED  BY <3>1
  <2>. QED  BY <2>1 DEF Reached
<1>1. CASE Tick
  <2>1. clock' = clock + 1 /\ UNCHANGED <<tables, late, locals>>
    BY <1>1 DEF Tick
  <2>2. \A row \in checkpointRow : row.time \in Int /\ row.floor \subseteq Int
    BY DEF TypeOK, LegacyRow
  <2>3. \A r \in Rulesets : \A s \in scope[r] : s.floor \in Int
    BY DEF TypeOK, ScopeRow
  <2>4. \A w \in lateScopes : w.row.floor \in Int
    BY DEF TypeOK, LateScope, ScopeRow
  <2>5. \A w \in lateCheckpoints : w.row.time \in Int /\ w.row.floor \subseteq Int
    BY DEF TypeOK, LateCheckpoint, LegacyRow
  <2>. QED  BY <2>1, <2>2, <2>3, <2>4, <2>5, <1>t
<1>2. ASSUME NEW e \in Events, Ingest(e) PROVE PastInv'
  <2>1. /\ rows' = [rows EXCEPT ![e] = @ \cup {clock}] /\ EventTime[e] <= clock + MaxSkew
        /\ UNCHANGED <<clock, ledger, scope, checkpointRow, late, locals>>
    BY <1>2 DEF Ingest
  <2>2. \A d \in Events : rows'[d] # {} => rows[d] # {} \/ d = e
    BY <2>1 DEF TypeOK
  <2>3. \A d \in Events : rows[d] # {} => rows'[d] # {}
    BY <2>1 DEF TypeOK
  <2>. QED  BY <2>1, <2>2, <2>3 DEF TypeOK, LedgerKeys
<1>3. ASSUME NEW r \in Rulesets, SwitchRuleset(r) PROVE PastInv'
  BY <1>3 DEF SwitchRuleset
<1>4. CASE LoadCheckpoint
  <2>1. checkpoint'.time <= clock + MaxSkew
    <3>. DEFINE stored == {[time |-> row.time, uid |-> row.uid] : row \in checkpointRow}
                marked == {Pos(e) : e \in {x \in Events : <<ruleset, x>> \in ledger}}
    <3>1. checkpoint' = [time |-> clock - Lookback, uid |-> 0]
          \/ checkpoint' \in stored \cup marked
      BY <1>4 DEF LoadCheckpoint
    <3>2. \A p \in stored : p.time <= clock + MaxSkew
      OBVIOUS
    <3>3. \A e \in Events : <<ruleset, e>> \in ledger => rows[<<ruleset, e>>[2]] # {}
      OBVIOUS
    <3>4. \A p \in marked : p.time <= clock + MaxSkew
      <4>. SUFFICES ASSUME NEW e \in Events, <<ruleset, e>> \in ledger
                    PROVE  Pos(e).time <= clock + MaxSkew
        OBVIOUS
      <4>1. rows[e] # {}
        BY <3>3
      <4>. QED  BY <4>1 DEF Pos
    <3>5. CASE checkpoint' = [time |-> clock - Lookback, uid |-> 0]
      <4>1. checkpoint'.time = clock - Lookback
        BY <3>5
      <4>. QED  BY <4>1, <1>t
    <3>6. CASE checkpoint' \in stored \cup marked
      <4>. HIDE DEF stored, marked
      <4>. QED  BY <3>2, <3>4, <3>6
    <3>. QED  BY <3>1, <3>5, <3>6
  <2>. QED  BY <1>4, <2>1 DEF LoadCheckpoint
<1>5. CASE LoadEvaluationScope
  <2>1. floor' <= clock
    BY <1>5 DEF LoadEvaluationScope, TypeOK
  <2>. QED  BY <1>5, <2>1 DEF LoadEvaluationScope
<1>6. CASE LoadLegacyFloor
  <2>1. floor' <= clock
    <3>1. checkpoint.time - Lookback <= clock
      BY <1>t DEF SkewWithinLookback
    <3>. QED  BY <1>6, <3>1 DEF LoadLegacyFloor
  <2>. QED  BY <1>6, <2>1 DEF LoadLegacyFloor
<1>7. CASE InsertScope
  <2>1. \A r \in Rulesets : \A s \in scope'[r] : s.floor = floor \/ s \in scope[r]
    BY <1>7 DEF InsertScope, StoreScope, TypeOK
  <2>2. /\ UNCHANGED <<clock, rows, ledger, checkpointRow, lateMarks, lateCheckpoints, locals>>
        /\ lateScopes' \subseteq lateScopes
    BY <1>7 DEF InsertScope, StoreScope
  <2>. QED  BY <2>1, <2>2
<1>8. CASE InsertCheckpoint
  BY <1>8 DEF InsertCheckpoint, StoreCheckpoint, CheckpointOf
<1>9. CASE FetchUnevaluated
  <2>1. \A e \in page' : rows[e] # {}
    BY <1>9, PageSubset DEF FetchUnevaluated, Unevaluated, EligibleFrom
  <2>. QED  BY <1>9, <2>1 DEF FetchUnevaluated
<1>10. CASE EvaluatePage
  BY <1>10 DEF EvaluatePage
<1>11. CASE InsertDetections \/ LandDetections
  BY <1>11 DEF InsertDetections, LandDetections
<1>12. CASE MarkEvaluated
  BY <1>12 DEF MarkEvaluated
<1>13. CASE SaveCandidateCursor
  <2>1. ASSUME NEW e \in page, SaveCursorAs(e, floor)
        PROVE  \A r \in Rulesets : \A s \in scope'[r] : s.floor = floor \/ s \in scope[r]
    BY <2>1 DEF SaveCursorAs, StoreScope, TypeOK
  <2>2. \A r \in Rulesets : \A s \in scope'[r] : s.floor = floor \/ s \in scope[r]
    BY <1>13, <2>1 DEF SaveCandidateCursor
  <2>3. /\ UNCHANGED <<clock, rows, ledger, checkpointRow, lateMarks, lateCheckpoints,
                       checkpoint, floor, page, passed>>
        /\ lateScopes' \subseteq lateScopes
    BY <1>13 DEF SaveCandidateCursor, SaveCursorAs, StoreScope
  <2>. QED  BY <2>2, <2>3
<1>14. CASE SaveCheckpoint
  <2>1. PICK p \in Reached : StoreCheckpoint(p)
    BY <1>14 DEF SaveCheckpoint
  <2>2. p.time <= clock + MaxSkew
    BY <1>p
  <2>3. UNCHANGED <<clock, rows, ledger, scope, lateMarks, lateScopes>> /\ EndCycle
    BY <1>14 DEF SaveCheckpoint
  <2>. QED  BY <2>1, <2>2, <2>3, <1>t DEF StoreCheckpoint, CheckpointOf, EndCycle, Origin
<1>15. CASE Abort
  BY <1>15, <1>e DEF Abort
<1>16. CASE AbandonInsert
  <2>1. \A k \in lateMarks' : rows[k[2]] # {}
    BY <1>16 DEF AbandonInsert, AbandonScope, AbandonCheckpoint
  <2>2. UNCHANGED <<clock, rows, ledger, scope, checkpointRow>> /\ EndCycle
    BY <1>16 DEF AbandonInsert
  <2>3. \A w \in lateScopes' : w \in lateScopes \/ w.row.floor = floor
    BY <1>16 DEF AbandonInsert, AbandonScope, AbandonCheckpoint
  <2>4. \A w \in lateCheckpoints' :
           w \in lateCheckpoints \/ \E p \in Reached : w.row = CheckpointOf(p)
    <3>1. checkpoint \in Reached
      BY DEF Reached
    <3>2. UNCHANGED lateCheckpoints \/ \E p \in Reached : AbandonCheckpoint(p)
      BY <1>16, <3>1 DEF AbandonInsert, AbandonScope
    <3>. QED  BY <3>2 DEF AbandonCheckpoint
  <2>5. \A p \in Reached : CheckpointOf(p).time <= clock + MaxSkew
                         /\ \A f \in CheckpointOf(p).floor : f <= clock
    BY <1>p DEF CheckpointOf
  <2>6. \A w \in lateCheckpoints' :
           w.row.time <= clock + MaxSkew /\ \A f \in w.row.floor : f <= clock
    BY <2>4, <2>5
  <2>. QED  BY <2>1, <2>2, <2>3, <2>6, <1>t DEF EndCycle, Origin
<1>17. CASE LandMarks \/ LandCheckpoint
  BY <1>17 DEF LandMarks, LandCheckpoint
<1>18. CASE LandScope
  <2>1. PICK w \in lateScopes : scope' = [scope EXCEPT ![w.ruleset] = {w.row}]
    BY <1>18 DEF LandScope
  <2>2. \A r \in Rulesets : \A s \in scope'[r] : s = w.row \/ s \in scope[r]
    BY <2>1 DEF TypeOK
  <2>3. /\ UNCHANGED <<clock, rows, ledger, checkpointRow, lateMarks, lateCheckpoints, locals>>
        /\ lateScopes' \subseteq lateScopes
    BY <1>18 DEF LandScope
  <2>. QED  BY <2>2, <2>3
<1>19. CASE UNCHANGED vars
  BY <1>19
<1>. QED
  BY <1>1, <1>2, <1>3, <1>4, <1>5, <1>6, <1>7, <1>8, <1>9, <1>10, <1>11, <1>12,
     <1>13, <1>14, <1>15, <1>16, <1>17, <1>18, <1>19 DEF Next, Cycle, Environment, Failure, Land

\* A row that becomes visible after a scope was enrolled is eligible under it,
\* provided no source clock is ahead by more than the lookback window. Without
\* the proviso the floor of a new ruleset may lie in the future and lose the row.
THEOREM LaterRowsStayEligible ==
  SkewWithinLookback => (Spec => LaterRowsEligible)
<1>. SUFFICES ASSUME SkewWithinLookback PROVE Spec => LaterRowsEligible
  OBVIOUS
<1>1. Spec => []TypeOK
  BY TypeCorrect
<1>2. PastInv /\ TypeOK /\ [Next]_vars =>
        \A r \in Rulesets : \A s \in scope[r] : \A e \in Events :
          rows'[e] # rows[e] => EligibleFrom(e, s.floor)'
  <2>. SUFFICES ASSUME PastInv, TypeOK, [Next]_vars, NEW r \in Rulesets,
                       NEW s \in scope[r], NEW e \in Events, rows'[e] # rows[e]
                PROVE  EligibleFrom(e, s.floor)'
    OBVIOUS
  <2>1. PICK d \in Events : Ingest(d)
    BY DEF Next, Cycle, Environment, Failure, Land, Tick, SwitchRuleset, LoadCheckpoint,
       LoadEvaluationScope, LoadLegacyFloor, InsertScope, InsertCheckpoint,
       FetchUnevaluated, EvaluatePage, InsertDetections, MarkEvaluated,
       SaveCandidateCursor, SaveCheckpoint, Abort, AbandonInsert, LandDetections, LandMarks,
       LandScope, LandCheckpoint
  <2>2. clock \in rows'[e]
    BY <2>1 DEF Ingest, TypeOK
  <2>3. s.floor <= clock
    BY DEF PastInv
  <2>. QED  BY <2>2, <2>3 DEF EligibleFrom
<1>3. Spec => []PastInv
  BY <1>1, PastInit, PastStep, PTL DEF Spec
<1>. QED  BY <1>1, <1>2, <1>3, PTL DEF Spec, LaterRowsEligible

(***************************************************************************)
(* Writes that are not late                                                *)
(***************************************************************************)
\* Every insert lands in its call: what is fresh is not published yet.
OnTimeInv ==
  /\ NothingLate
  /\ SingleDetectionRow
  /\ pc = "insertDetections" => fresh \cap Published = {}

\* What the ledger holds of the running ruleset is at or below the checkpoint of
\* the cycle, or has passed in this cycle.
MarkedInv ==
  pc # "idle" => \A e \in Events : <<ruleset, e>> \in ledger =>
    \/ Leq(Pos(e), checkpoint)
    \/ pc \in {"saveCursor", "saveCheckpoint"} /\ e \in passed

\* Without late writes nothing is abandoned, and the rest keeps one row per id.
LEMMA OnTimeStep ==
  ~ LateWrites /\ TypeOK /\ OnTimeInv /\ [Next]_vars => OnTimeInv'
<1>. SUFFICES ASSUME ~ LateWrites, TypeOK, OnTimeInv, [Next]_vars PROVE OnTimeInv'
  OBVIOUS
<1>1. NothingLate'
  BY NothingLateStep DEF OnTimeInv
<1>2. CASE InsertDetections
  <2>1. pc = "insertDetections" /\ pc' = "markEvaluated" /\ Insert(fresh)
    BY <1>2 DEF InsertDetections, Goto
  <2>2. \A d \in DetectionIds :
          /\ detectionRows[d] \in Nat /\ detectionRows[d] <= 1
          /\ d \in fresh => ~ (detectionRows[d] > 0)
    BY <2>1 DEF OnTimeInv, SingleDetectionRow, Published, TypeOK
  <2>3. \A d \in DetectionIds : detectionRows'[d] = detectionRows[d] + (IF d \in fresh THEN 1 ELSE 0)
    BY <2>1 DEF Insert
  <2>4. SingleDetectionRow'
    BY <2>2, <2>3 DEF SingleDetectionRow
  <2>. QED  BY <1>1, <2>1, <2>4 DEF OnTimeInv
<1>3. CASE ~ InsertDetections
  <2>1. UNCHANGED detectionRows /\ (pc' # "insertDetections" \/ UNCHANGED <<pc, fresh>> \/ EvaluatePage)
    BY <1>3 DEF Next, Cycle, Environment, Failure, Tick, Ingest, SwitchRuleset, LoadCheckpoint,
       LoadEvaluationScope, LoadLegacyFloor, InsertScope, InsertCheckpoint, FetchUnevaluated,
       EvaluatePage, MarkEvaluated, SaveCandidateCursor, SaveCheckpoint, Goto, EndCycle,
       Abort, AbandonInsert, Land, LandDetections, LandMarks, LandScope, LandCheckpoint,
       NothingLate, OnTimeInv
  <2>2. Published' = Published /\ SingleDetectionRow'
    BY <2>1 DEF Published, OnTimeInv, SingleDetectionRow
  <2>3. EvaluatePage => fresh' \cap Published = {}
    BY DEF EvaluatePage
  <2>. QED  BY <1>1, <2>1, <2>2, <2>3 DEF OnTimeInv
<1>. QED  BY <1>2, <1>3

\* A page that is replayed after a crash between the insert of its detections and
\* that of its ledger rows writes no second row under a detection id. A write that
\* lands after the page was replayed could (LateWrites).
THEOREM OneRowPerDetection == ~ LateWrites => (Spec => []SingleDetectionRow)
<1>. SUFFICES ASSUME ~ LateWrites PROVE Spec => []SingleDetectionRow
  OBVIOUS
<1>1. Init => OnTimeInv
  BY DEF Init, OnTimeInv, NothingLate, SingleDetectionRow, Published, IdleLocals
<1>2. TypeOK /\ OnTimeInv /\ [Next]_vars => OnTimeInv'
  BY OnTimeStep
<1>3. OnTimeInv => SingleDetectionRow
  BY DEF OnTimeInv
<1>. QED  BY <1>1, <1>2, <1>3, TypeCorrect, PTL DEF Spec

\* Each step of a cycle keeps what is marked within its reach.
LEMMA MarkedStep ==
  ~ LateWrites /\ TypeOK /\ OnTimeInv /\ MarkedInv /\ [Next]_vars => MarkedInv'
<1>. SUFFICES ASSUME ~ LateWrites, TypeOK, OnTimeInv, MarkedInv, [Next]_vars PROVE MarkedInv'
  OBVIOUS
<1>1. CASE LoadCheckpoint
  <2>. DEFINE stored == {[time |-> row.time, uid |-> row.uid] : row \in checkpointRow}
              marked == {Pos(e) : e \in {x \in Events : <<ruleset, x>> \in ledger}}
              known  == stored \cup marked
  <2>1. known = {} \/ IsLast(checkpoint', known)
    BY <1>1 DEF LoadCheckpoint
  <2>2. \A e \in Events : <<ruleset, e>> \in ledger => Pos(e) \in known
    OBVIOUS
  <2>. HIDE DEF known
  <2>3. \A e \in Events : <<ruleset, e>> \in ledger => Leq(Pos(e), checkpoint')
    BY <2>1, <2>2 DEF IsLast
  <2>4. UNCHANGED <<ledger, ruleset>>
    BY <1>1 DEF LoadCheckpoint
  <2>5. \A e \in Events : Leq(Pos(e), checkpoint)' <=> Leq(Pos(e), checkpoint')
    BY DEF Pos, Leq
  <2>. QED  BY <2>3, <2>4, <2>5 DEF MarkedInv
<1>2. CASE MarkEvaluated
  <2>1. /\ pc = "markEvaluated" /\ pc' = "saveCursor" /\ UNCHANGED <<ruleset, checkpoint, passed>>
        /\ ledger' = ledger \cup ({ruleset} \X passed)
    BY <1>2 DEF MarkEvaluated, Goto
  <2>2. \A e \in Events : <<ruleset, e>> \in ledger => Leq(Pos(e), checkpoint)
    BY <2>1 DEF MarkedInv
  <2>3. \A e \in Events : <<ruleset, e>> \in ledger' => <<ruleset, e>> \in ledger \/ e \in passed
    BY <2>1
  <2>. QED  BY <2>1, <2>2, <2>3 DEF MarkedInv, Leq, Pos
<1>3. CASE ~ LoadCheckpoint /\ ~ MarkEvaluated
  <2>1. \/ pc' = "idle"
        \/ /\ pc # "idle" /\ UNCHANGED <<ruleset, ledger, checkpoint>>
           /\ pc \in {"saveCursor", "saveCheckpoint"} =>
                pc' \in {"saveCursor", "saveCheckpoint"} /\ UNCHANGED passed
    BY <1>3 DEF Next, Cycle, Environment, Failure, Tick, Ingest, SwitchRuleset,
       LoadEvaluationScope, LoadLegacyFloor, InsertScope, InsertCheckpoint, FetchUnevaluated,
       EvaluatePage, InsertDetections, SaveCandidateCursor, SaveCheckpoint, Goto, EndCycle,
       Abort, AbandonInsert, Land, LandDetections, LandMarks, LandScope, LandCheckpoint,
       NothingLate, OnTimeInv
  <2>. QED  BY <2>1 DEF MarkedInv, Leq, Pos
<1>. QED  BY <1>1, <1>2, <1>3

\* A cycle that completes stores a watermark at or above everything the ledger
\* holds for the ruleset: also what a crashed cycle marked without storing it.
THEOREM WatermarkIsHealed == ~ LateWrites => (Spec => CheckpointHealed)
<1>. SUFFICES ASSUME ~ LateWrites PROVE Spec => CheckpointHealed
  OBVIOUS
<1>1. Init => OnTimeInv /\ MarkedInv
  BY DEF Init, OnTimeInv, NothingLate, SingleDetectionRow, Published, IdleLocals, MarkedInv
<1>2. TypeOK /\ OnTimeInv /\ MarkedInv /\ [Next]_vars => OnTimeInv' /\ MarkedInv'
  BY OnTimeStep, MarkedStep
<1>3. ASSUME TypeOK, MarkedInv, [Next]_vars,
             pc = "saveCheckpoint", pc' = "idle", UNCHANGED aborts,
             NEW e \in Events, <<ruleset, e>> \in ledger
      PROVE  \E row \in checkpointRow' : Leq(Pos(e), row)
  <2>1. SaveCheckpoint
    BY <1>3 DEF Next, Cycle, Environment, Failure, Tick, Ingest, SwitchRuleset, LoadCheckpoint,
       LoadEvaluationScope, LoadLegacyFloor, InsertScope, InsertCheckpoint, FetchUnevaluated,
       EvaluatePage, InsertDetections, MarkEvaluated, SaveCandidateCursor, Goto, EndCycle,
       Abort, AbandonInsert, Land, LandDetections, LandMarks, LandScope, LandCheckpoint, TypeOK
  <2>2. PICK p \in Reached : IsLast(p, Reached) /\ StoreCheckpoint(p)
    BY <2>1 DEF SaveCheckpoint
  <2>3. Leq(Pos(e), p)
    <3>1. CASE e \in passed
      BY <2>2, <3>1 DEF IsLast, Reached
    <3>2. CASE Leq(Pos(e), checkpoint)
      <4>1. Leq(checkpoint, p) /\ p \in Position /\ checkpoint \in Position /\ Pos(e) \in Position
        BY <1>3, <2>2, PosType, ReachedType DEF IsLast, Reached, TypeOK
      <4>. QED  BY <3>2, <4>1, LeqTransitive DEF Position
    <3>. QED  BY <1>3, <3>1, <3>2 DEF MarkedInv
  <2>4. \E row \in checkpointRow' : row.time = p.time /\ row.uid = p.uid
    BY <2>2 DEF StoreCheckpoint, CheckpointOf
  <2>. QED  BY <2>3, <2>4 DEF Leq
<1>4. TypeOK /\ MarkedInv /\ [Next]_vars =>
        [(pc = "saveCheckpoint" /\ pc' = "idle" /\ UNCHANGED aborts) =>
           \A e \in Events : <<ruleset, e>> \in ledger =>
              \E row \in checkpointRow' : Leq(Pos(e), row)]_vars
  BY <1>3
<1>. QED  BY <1>1, <1>2, <1>4, TypeCorrect, PTL DEF Spec, CheckpointHealed
=============================================================================
