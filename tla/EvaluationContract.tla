------------------------- MODULE EvaluationContract -------------------------
(***************************************************************************)
(* What the Fusion detection engine promises to its readers, with every    *)
(* table, cursor and crash left out: detections are published, events are  *)
(* recorded as evaluated under a ruleset, and the second never happens     *)
(* before everything the ruleset owes for the event has been published.    *)
(***************************************************************************)
EXTENDS FiniteSets

CONSTANTS
  Events,     \* logical source events (event_uid)
  Rulesets,   \* ruleset fingerprints
  Rules,      \* rule ids
  Matches,    \* Matches[r][e]: the rule ids ruleset r matches on event e
  Failing     \* Failing[r]: the events whose evaluation raises under r

VARIABLES
  published,  \* detection ids a reader of fusion.detections sees
  completed   \* <<ruleset, event>> pairs recorded as evaluated

contractVars == <<published, completed>>

\* The pairs whose evaluation can succeed, and the detection ids a ruleset owes
\* for an event. An id is a function of rule and event, whichever the ruleset.
Evaluable == {k \in Rulesets \X Events : k[2] \notin Failing[k[1]]}
Owed(k) == {d \in Rules \X {k[2]} : d[1] \in Matches[k[1]][k[2]]}

ContractInit == published = {} /\ completed = {}

\* Some detections that are owed become visible. None is ever withdrawn.
Publish ==
  /\ \E D \in SUBSET UNION {Owed(k) : k \in Evaluable} :
        published' = published \cup D
  /\ UNCHANGED completed

\* Pairs are recorded as evaluated, all of whose detections are visible.
Complete ==
  /\ \E K \in SUBSET {k \in Evaluable : Owed(k) \subseteq published} :
        completed' = completed \cup K
  /\ UNCHANGED published

ContractNext == Publish \/ Complete

Contract == ContractInit /\ [][ContractNext]_contractVars
=============================================================================
