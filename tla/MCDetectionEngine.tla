------------------------- MODULE MCDetectionEngine -------------------------
(***************************************************************************)
(* Instances of DetectionEngine for TLC. Ruleset "A" fails on event 1 and  *)
(* matches rule "x" on every event it can evaluate; ruleset "B" carries    *)
(* the correction, still matches "x" and adds rule "y" on event 2.         *)
(***************************************************************************)
EXTENDS DetectionEngine

MCRulesets == {"A", "B"}
MCRules == {"x", "y"}
MCTwoEvents == 1 .. 2

\* Event 1 is older, or event 2 is stamped ahead of the clock that first sees it.
MCPlainTime == <<0, 1>>
MCSkewedTime == <<0, 2>>

MCMatches ==
  [r \in MCRulesets |-> [e \in Events |->
     {"x"} \cup (IF r = "B" /\ e = 2 THEN {"y"} ELSE {})]]

MCFailing == [A |-> {1}, B |-> {}]

MCNoLegacy == {}
MCLegacy == {[time |-> 0, uid |-> 0, ruleset |-> "A", floor |-> {}],
             [time |-> 0, uid |-> 0, ruleset |-> "A", floor |-> {-1}]}
=============================================================================
