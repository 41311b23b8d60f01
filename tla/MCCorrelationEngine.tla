------------------------ MODULE MCCorrelationEngine ------------------------
(***************************************************************************)
(* Instances of CorrelationEngine for TLC. A threshold of two inputs,       *)
(* sequences of two and of three stages, and an ownership join.            *)
(***************************************************************************)
EXTENDS CorrelationEngine

MCThree == 1 .. 3
MCFour == 1 .. 4
MCFive == 1 .. 5
MCEvents == {2}
MCTwoEvents == {4, 5}
MCNone == {}

\* Orders of identities: by time, and two that prefer later inputs. The tags of
\* events come last: of input 2, or of inputs 4 and 5.
MCByTime == [tags |-> [i \in Inputs |-> <<1, 5, 2, 3, 4>>[i]], ids |-> [i \in Inputs |-> i]]
MCByHash == [tags |-> [i \in Inputs |-> <<3, 5, 1, 2, 4>>[i]],
             ids |-> [i \in Inputs |-> <<3, 1, 5, 4, 2>>[i]]]
MCByKind == [MCByHash EXCEPT !.tags = [i \in Inputs |-> <<3, 2, 1, 4, 5>>[i]]]
MCRule(kind, derived, stages, order) ==
  [kind |-> kind, derived |-> derived, stages |-> stages,
   tags |-> order.tags, incidents |-> order.ids, episodes |-> order.ids]
MCThreshold(order) == MCRule("threshold", FALSE, <<[select |-> Inputs, count |-> 2]>>, order)
MCSequence(order) ==
  MCRule("sequence", FALSE, <<[select |-> Inputs \ {4}, count |-> 1],
                              [select |-> Inputs \ {1}, count |-> 1]>>, order)
MCThreeStages ==
  MCRule("sequence", FALSE, <<[select |-> {1, 2, 3}, count |-> 1], [select |-> {2, 3, 4}, count |-> 1],
                              [select |-> {3, 4, 5}, count |-> 1]>>, MCByKind)
\* Inputs 4 and 5 are ownership events of the same address as the alert 3.
MCOwnership ==
  MCRule("join", TRUE, <<[select |-> {3}, count |-> 1], [select |-> {4, 5}, count |-> 1]>>,
         MCByKind)
MCThresholdOnly == {MCThreshold(MCByTime)}
MCOrdered == {MCThreshold(MCByHash), MCSequence(MCByHash)}
MCStaged == {MCThreshold(MCByKind), MCThreeStages, MCOwnership}
MCJoined == {{3, 4}, {3, 5}}
\* An incident needs a detection.
MCNoDetection == SUBSET MCTwoEvents

\* Two intervals can overlap, and every input is observed when it occurs.
MCOccurred == <<0, 1, 2, 3>>
MCOccurred3 == <<0, 1, 2>>
\* The rows of the last of five inputs conflict.
MCOccurred5 == <<0, 1, 2, 3, 3>>
MCConflicted == {5}
\* Input 1 is observed too late for the interval it opens. Inputs 4 and 5 share an
\* instant; 5 is too late for an episode that starts at 1 and, at its deadline, in
\* time for one that starts at 2.
MCObservedLate == <<9, 1, 2, 3, 5>>
\* Input 1 is observed too late for the interval it opens.
MCOccurredNeighbor == <<0, 1, 3>>
MCObservedNeighbor == <<9, 1, 3>>
\* Inputs 1 and 2 overflow a window of one input; 3 and 4 are alone.
MCOccurredDense == <<0, 0, 5, 9>>
\* Two inputs at one instant and three at the next, for intervals that overlap.
MCOccurredTwice == <<0, 0, 1, 1, 1>>
=============================================================================
