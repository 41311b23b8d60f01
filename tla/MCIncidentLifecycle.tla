------------------------ MODULE MCIncidentLifecycle ------------------------
(***************************************************************************)
(* Instances of IncidentLifecycle for TLC: one acknowledgement, and one    *)
(* closure that may be asked for with an id of its own or with the id of   *)
(* the acknowledgement.                                                    *)
(***************************************************************************)
EXTENDS IncidentLifecycle

MCThree == 1 .. 3
MCEvents == {2}
MCNone == {}

MCThreshold ==
  {[kind |-> "threshold", derived |-> FALSE, stages |-> <<[select |-> Inputs, count |-> 2]>>,
    tags |-> <<1, 3, 2>>, incidents |-> <<3, 1, 2>>, episodes |-> <<2, 3, 1>>]}

\* An incident of the first two inputs can be closed before the last occurs,
\* which the deadline of the closure would still admit.
MCOccurred3 == <<0, 1, 2>>
MCTimes3 == {1, 2}

MCAcknowledge == [id |-> 11, target |-> "acknowledged"]
MCClose == [id |-> 12, target |-> "closed"]
MCReused == [id |-> 11, target |-> "closed"]
MCTwoRequests == {MCAcknowledge, MCClose}
MCReusedId == {MCAcknowledge, MCReused}
=============================================================================
