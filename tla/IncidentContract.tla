-------------------------- MODULE IncidentContract --------------------------
(***************************************************************************)
(* What the correlation engine promises to its readers, with the tables,   *)
(* tokens, views and crashes left out: one input at a time is decided, and *)
(* the incident it opens or enriches becomes visible, with all its         *)
(* evidence, in the same step. Evidence an incident has opens no other.    *)
(***************************************************************************)
EXTENDS Naturals

CONSTANTS
  Inputs      \* logical inputs of one rule scope and group

VARIABLES
  qualifies,  \* sets of inputs that satisfy the rule's condition
  evaluated,  \* inputs that have been decided
  incidents   \* visible incidents: [id, qualifying, members]

incidentVars == <<qualifies, evaluated, incidents>>

Evidence(I) == UNION {x.members : x \in I}

IncidentInit == evaluated = {} /\ incidents = {}

\* Inputs without an effect are decided, alone or as a page.
Dismiss ==
  /\ \E K \in SUBSET Inputs : evaluated' = evaluated \cup K
  /\ UNCHANGED <<qualifies, incidents>>

\* An input opens an incident: the inputs that qualify it are evidence of no
\* other one, what else lies in its window may be.
Open(i) ==
  /\ \E Q \in SUBSET (Inputs \ Evidence(incidents)), M \in SUBSET Inputs :
       /\ Q \in qualifies /\ Q \subseteq M /\ i \in M
       /\ \E id \in Q : /\ \A x \in incidents : x.id # id
                        /\ incidents' = incidents \cup
                             {[id |-> id, qualifying |-> Q, members |-> M]}
  /\ evaluated' = evaluated \cup {i}
  /\ UNCHANGED qualifies

\* An input adds evidence, itself included, to an incident that keeps its name
\* and the inputs that opened it.
Enrich(i) ==
  /\ \E x \in incidents, N \in SUBSET Inputs :
       /\ i \in x.members \cup N
       /\ incidents' = (incidents \ {x}) \cup {[x EXCEPT !.members = @ \cup N]}
  /\ evaluated' = evaluated \cup {i}
  /\ UNCHANGED qualifies

IncidentNext == Dismiss \/ \E i \in Inputs : Open(i) \/ Enrich(i)

IncidentSpec == IncidentInit /\ [][IncidentNext]_incidentVars
=============================================================================
