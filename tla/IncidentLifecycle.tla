-------------------------- MODULE IncidentLifecycle --------------------------
(***************************************************************************)
(* The lifecycle control server (control.py) next to the polling engine:   *)
(* one thread serves one request at a time over a socket and, under the    *)
(* lock the engine holds for a whole cycle, appends a revision of the      *)
(* incident and then the audit row that makes the revision visible.        *)
(* Either thread fails on its own at any store call, the process stops     *)
(* between any two, and a client waits for its answer a bounded time.      *)
(***************************************************************************)
EXTENDS CorrelationEngine

CONSTANTS
  Requests,     \* [id, target]: a transition id and the status asked for
  Times,        \* instants a transition can be applied at
  MaxBacklog,   \* connections that wait to be accepted
  MaxFaults     \* bound: transitions that fail or are refused, and clients that give up

ASSUME RequestsAssumption ==
  /\ \A q \in Requests : q.id \in Nat \ Inputs /\ q.target \in {"acknowledged", "closed"}
  /\ Times \subseteq Nat /\ MaxBacklog \in Nat \ {0} /\ MaxFaults \in Nat

VARIABLES
  asked,      \* asked[q]: incident the administrator made q about, 0 before
  waiting,    \* requests whose client waits for an answer
  backlog,    \* connections accepted by nobody yet, in order
  answered,   \* [request, answer]: final answers a client received
  cpc,        \* what the control thread does next, "dead" when it has ended
  request,    \* the request being served, as a set
  revision,   \* the incident revision being written or confirmed, as a set
  answer,     \* "ok", "rejected" or "failed"
  faults

clients == <<asked, waiting, backlog, answered>>
control == <<cpc, request, revision, answer>>
engine == <<tables, pc, page, current, crashes>>
lifecycleVars == <<vars, clients, control, faults>>

LifecycleInit ==
  /\ Init
  /\ asked = [q \in Requests |-> 0] /\ waiting = {} /\ backlog = <<>> /\ answered = {}
  /\ cpc = "accept" /\ request = {} /\ revision = {} /\ answer = "none"
  /\ faults = 0

(***************************************************************************)
(* Clients: request_transition                                             *)
(***************************************************************************)
Answered(q) == \E a \in answered : a.request = q
\* A request that has no final answer is made, or made again with the same id,
\* once its last connection is gone.
Ask(q) ==
  /\ q \notin waiting \cup request /\ ~\E n \in DOMAIN backlog : backlog[n] = q
  /\ ~Answered(q) /\ Len(backlog) < MaxBacklog
  /\ \E x \in IF asked[q] = 0 THEN {r.id : r \in incidentRows} ELSE {asked[q]} :
       asked' = [asked EXCEPT ![q] = x]
  /\ waiting' = waiting \cup {q} /\ backlog' = Append(backlog, q)
  /\ UNCHANGED <<vars, answered, control, faults>>

\* The client's timeout: its request stays with the server.
GiveUp(q) ==
  /\ faults < MaxFaults /\ faults' = faults + 1
  /\ q \in waiting /\ waiting' = waiting \ {q}
  /\ UNCHANGED <<vars, asked, backlog, answered, control>>

(***************************************************************************)
(* The control thread                                                      *)
(***************************************************************************)
\* Mutant: the control thread does not take the lock of the engine.
LockIsFreeAlways == TRUE
LockIsFree == pc = "idle"
Holds == cpc \in {"insert", "audit"}

\* Mutant: the revision outlives the request.
RespondKeeping(a) == cpc' = "reply" /\ answer' = a /\ revision' = revision
\* Leaving the lock with an answer, and going on to the next write under it.
Respond(a) == cpc' = "reply" /\ answer' = a /\ revision' = {}
Continue(step, r) == cpc' = step /\ revision' = {r} /\ answer' = "none"

Allowed == {<<"new", "acknowledged">>, <<"new", "closed">>, <<"acknowledged", "closed">>}

\* Mutant: closing keeps the deadline for evidence.
TransitionKeepingDeadline(r, q, time) ==
  LET next == [r EXCEPT !.revision = @ + 1, !.token = q.id, !.status = q.target,
                        !.from = r.status]
  IN  IF q.target = "acknowledged" THEN next ELSE [next EXCEPT !.closedAt = time]
\* The revision a transition of r appends; closing sets the final deadline.
Transition(r, q, time) ==
  LET next == [r EXCEPT !.revision = @ + 1, !.token = q.id, !.status = q.target,
                        !.from = r.status]
  IN  IF q.target = "acknowledged" THEN next
      ELSE [next EXCEPT !.closedAt = time,
                        !.deadline = time + (@ - (Start(r.qualifying) + Window))]

\* Mutant: only visible revisions count as the work of an earlier attempt.
RecordedVisible(x, q) == {r \in CurrentIncidents : r.id = x /\ r.token = q.id}
Recorded(x, q) == {r \in incidentRows : r.id = x /\ r.token = q.id}

\* Mutant: a recorded transition needs no confirmation.
ResumeUnconfirmed(r, q) == Respond("ok")
\* An id names one transition: a retry confirms what an earlier attempt wrote.
Resume(r, q) ==
  IF r.status = q.target THEN Continue("audit", r) ELSE Respond("rejected")

Apply(r, q) ==
  \E t \in {u \in Times : \A i \in sources : Observed[i] <= u} :
    IF Rivals(incidentRows, Transition(r, q, t)) # {} THEN Respond("failed")
    ELSE Continue("insert", Transition(r, q, t))

\* All that transition_incident reads before it writes; a store call that
\* raises, a blocked scope and an unconfirmed projection end it here.
Decides(q) ==
  LET x        == asked[q]
      recorded == Recorded(x, q)
      visible  == {r \in CurrentIncidents : r.id = x}
  IN  \/ \E r \in recorded : Resume(r, q)
      \/ recorded = {} /\ visible = {} /\ Respond("rejected")
      \/ recorded = {} /\ \E r \in visible :
           \/ r.status = q.target /\ Respond("ok")
           \/ <<r.status, q.target>> \in Allowed /\ Apply(r, q)
           \/ r.status # q.target /\ <<r.status, q.target>> \notin Allowed /\ Respond("rejected")

\* The thread takes the next connection and the lock, and reads.
Pending == cpc = "accept" /\ backlog # <<>> /\ LockIsFree
Accept ==
  /\ Pending
  /\ request' = {Head(backlog)} /\ backlog' = Tail(backlog)
  /\ \/ Decides(Head(backlog)) /\ UNCHANGED faults
     \/ Respond("failed") /\ faults < MaxFaults /\ faults' = faults + 1
  /\ UNCHANGED <<vars, asked, waiting, answered>>

InsertRevision ==
  /\ cpc = "insert" /\ cpc' = "audit"
  /\ incidentRows' = incidentRows \cup revision
  /\ UNCHANGED <<given, linkRows, episodeRows, ledger, schedule, pc, page, current, crashes,
                 clients, request, revision, answer, faults>>

\* Mutant: the audit does not keep the status the transition started from.
AuditOfAnyOrigin(r) ==
  [id |-> r.token, incident |-> r.id, from |-> "new", to |-> r.status, revision |-> r.revision]
AuditOf(r) ==
  [id |-> r.token, incident |-> r.id, from |-> r.from, to |-> r.status,
   revision |-> r.revision]
WriteAudit ==
  /\ cpc = "audit" /\ Respond("ok")
  /\ audits' = audits \cup {AuditOf(r) : r \in {n \in revision :
                  ~\E a \in audits : a.id = n.token /\ a.incident = n.id}}
  /\ UNCHANGED <<condition, sources, engine, clients, request, faults>>

\* A store call under the lock raises.
Fail ==
  /\ Holds /\ Respond("failed")
  /\ faults < MaxFaults /\ faults' = faults + 1
  /\ UNCHANGED <<vars, clients, request>>

\* The answer is sent outside the handler of errors: a client that has gone
\* ends the thread.
Reply ==
  /\ cpc = "reply" /\ answer' = "none" /\ request' = {}
  /\ \E q \in request :
       IF q \in waiting
       THEN /\ cpc' = "accept" /\ waiting' = waiting \ {q}
            /\ answered' = answered \cup
                 ({[request |-> q, answer |-> answer]} \ [request : Requests, answer : {"failed"}])
       ELSE cpc' = "dead" /\ UNCHANGED <<waiting, answered>>
  /\ UNCHANGED <<vars, asked, backlog, revision, faults>>

(***************************************************************************)
(* The process                                                             *)
(***************************************************************************)
\* Arrivals, the engine under the lock, and a store error that ends its cycle.
EngineStep ==
  /\ \/ \E i \in Inputs : Arrive(i)
     \/ (pc = "idle" => ~Holds) /\ Cycle
     \/ Crash
  /\ UNCHANGED <<clients, control, faults>>

\* The process stops: both threads and the connections are gone.
Stop ==
  /\ crashes < MaxCrashes /\ crashes' = crashes + 1
  /\ CrashAnytime \/ ~Provisional
  /\ EndCycle
  /\ cpc' = "accept" /\ request' = {} /\ revision' = {} /\ answer' = "none"
  /\ waiting' = {} /\ backlog' = <<>>
  /\ UNCHANGED <<given, tables, asked, answered, faults>>

Client == \E q \in Requests : Ask(q) \/ GiveUp(q)
Serve ==
  Accept \/ InsertRevision \/ WriteAudit \/ Fail \/ Reply

LifecycleNext == EngineStep \/ Client \/ Serve \/ Stop
LifecycleSpec == LifecycleInit /\ [][LifecycleNext]_lifecycleVars

\* The engine gives up the lock between cycles and sleeps there again and again
\* (poll, drain yield), so a thread that waits for it gets it in the end; under
\* it every step goes on or fails. An administrator repeats a request until it
\* has a final answer.
ControlSteps == {"accept", "insert", "audit", "reply", "dead"}
Moves == cpc' \in ControlSteps \ {cpc}
Served == cpc \in {"insert", "audit", "reply"} /\ Moves
FairLifecycle ==
  /\ LifecycleSpec
  /\ WF_pc(Proceed)
  /\ SF_cpc(Pending /\ Moves) /\ WF_cpc(Served)
  /\ \A q \in Requests : WF_lifecycleVars(Ask(q) /\ asked[q] # 0)

(***************************************************************************)
(* Properties                                                              *)
(***************************************************************************)
Rank(status) == CASE status = "new" -> 0 [] status = "acknowledged" -> 1 [] status = "closed" -> 2

\* The control thread keeps its types, and holds a revision only to write it.
LifecycleTypeOK ==
  /\ asked \in [Requests -> {0} \cup Inputs] /\ waiting \subseteq Requests
  /\ backlog \in Seq(Requests)
  /\ answered \subseteq [request : Requests, answer : {"ok", "rejected"}]
  /\ cpc \in ControlSteps
  /\ request \subseteq Requests /\ Cardinality(request) <= 1
  /\ revision \subseteq IncidentRow
  /\ revision # {} <=> cpc \in {"insert", "audit"}
  /\ incidentRows \subseteq IncidentRow
  /\ faults \in 0 .. MaxFaults

\* Each audit row is the only one of its transition, names the revision the
\* transition wrote, and the status of the visible revision before that one
\* (docs/v06-acceptance-plan.md:149).
AuditsTellTheHistory ==
  \A a \in audits :
    /\ \A b \in audits : a.incident = b.incident /\ (a.id = b.id \/ a.revision = b.revision)
                           => a = b
    /\ \A r \in incidentRows : r.id = a.incident /\ r.token = a.id
                           => r.revision = a.revision /\ r.status = a.to
    /\ \E r \in CommittedIncidents(incidentRows) :
         /\ r.id = a.incident /\ r.revision < a.revision /\ r.status = a.from
         /\ ~\E q \in CommittedIncidents(incidentRows) :
               q.id = r.id /\ r.revision < q.revision /\ q.revision < a.revision

\* Whatever evidence and transitions an incident went through, it takes evidence
\* observed until its first input's window and the lateness are over, or the
\* lateness after its closure (docs/v06-incident-model.md:165, :166).
DeadlineIsFixed ==
  \A r \in incidentRows :
    r.deadline = IF r.status = "closed" THEN r.closedAt + Lateness
                 ELSE Deadline(Start(r.qualifying))

\* A transition answered with success is visible, whatever failed or stopped
\* since and however often it was tried.
SuccessIsVisible ==
  \A a \in answered : a.answer = "ok" =>
    \E r \in CurrentIncidents :
      r.id = asked[a.request] /\ Rank(r.status) >= Rank(a.request.target)

\* No later revision, of the engine or of a transition, undoes a visible
\* transition or moves the instant and the deadline of a closure
\* (docs/v06-incident-model.md:151, :166).
TransitionsAreFinal ==
  [][\A r \in CurrentIncidents : \A q \in CurrentIncidents' : q.id = r.id =>
        /\ Rank(q.status) >= Rank(r.status)
        /\ r.status = "closed" => q.closedAt = r.closedAt /\ q.deadline = r.deadline]_lifecycleVars

\* A closed incident takes no evidence that occurred after it was closed
\* (docs/v06-incident-model.md:152).
ClosureBoundsEvidence ==
  [][\A r \in CurrentIncidents : r.status = "closed" =>
        \A i \in Linked'[r.id] \ Linked[r.id] : Occurred[i] <= r.closedAt]_lifecycleVars

Unaudited == {r \in incidentRows : r.token \notin Inputs /\ AuditOf(r) \notin audits}
\* A transition that was written without its audit row is repaired by a retry
\* with the same id (docs/v06-incident-model.md:177).
UnauditedIsRepaired == Unaudited # {} ~> Unaudited = {}
\* The same as long as there is a thread that serves the retry.
UnauditedIsRepairedIfServed == Unaudited # {} ~> (Unaudited = {} \/ cpc = "dead")
=============================================================================
