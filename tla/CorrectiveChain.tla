-------------------------- MODULE CorrectiveChain --------------------------
(***************************************************************************)
(* One incident or NCR with its investigation and its corrective actions:  *)
(* lib/modules/hseq/corrective.ts and the register transitions of          *)
(* lib/v1/register-server.ts.  The chain's operations read the source      *)
(* without a lock and write it later without looking again, so a request   *)
(* in flight is a value of its own.  The texts a closure asks for          *)
(* (rationale, cause, verification) are left out.                          *)
(***************************************************************************)

CONSTANTS
  Actions,  \* hseq_actions rows that may be linked to the source
  Staff,    \* users
  Noone     \* no user

ASSUME NooneAssumption == Noone \notin Staff

VARIABLES
  source,         \* kind and status of the incident or NCR
  investigation,  \* its investigation: none, investigating or complete
  actions,        \* its corrective actions
  sent,           \* per user, the request in flight and what its snapshot held
  late,           \* history: actions linked too late for the last closure to see
  lateFacts       \* history: so was the investigation

chainVars == <<source, investigation, actions, sent, late, lateFacts>>

\* The edges of the two state machines a user may take through the register.
IncidentEdges == {<<"reported", "investigating">>, <<"closed", "investigating">>}
NcrEdges == {<<"open", "action">>, <<"action", "verification">>,
             <<"verification", "action">>, <<"closed", "action">>}
Edges == [incident |-> IncidentEdges, ncr |-> NcrEdges]
Initial == [incident |-> "reported", ncr |-> "open"]

NoAction == [status |-> "none", completer |-> Noone, verifier |-> Noone]
ActionRows == [status: {"none", "open", "in_progress", "complete", "verified"},
               completer: Staff \cup {Noone}, verifier: Staff \cup {Noone}]

\* moves: the snapshot's status is one this request moves on.  linked and facts:
\* the actions and the investigation a closure found.
Requests == [op: {"none", "start", "act", "reopen", "close"}, moves: BOOLEAN,
             linked: SUBSET Actions, facts: {"none", "investigating", "complete"}]
NoRequest == [op |-> "none", moves |-> FALSE, linked |-> {}, facts |-> "none"]

Linked == {a \in Actions: actions[a].status # "none"}

\* Everything is what it should be.
ChainTypeOK ==
  /\ source \in [kind: {"incident", "ncr"},
       status: {"reported", "investigating", "open", "action", "verification", "closed", "gone"}]
  /\ investigation \in {"none", "investigating", "complete"}
  /\ actions \in [Actions -> ActionRows]
  /\ sent \in [Staff -> Requests]
  /\ late \subseteq Actions
  /\ lateFacts \in BOOLEAN

ChainInit ==
  /\ source \in {[kind |-> k, status |-> Initial[k]]: k \in {"incident", "ncr"}}
  /\ investigation = "none"
  /\ actions = [a \in Actions |-> NoAction]
  /\ sent = [u \in Staff |-> NoRequest]
  /\ late = {}
  /\ lateFacts = FALSE

\* resolveSource: a deleted source is not found.
Found == source.status # "gone"
IsClosed == source.status = "closed"

Send(u, request) ==
  /\ sent[u].op = "none"
  /\ sent' = [sent EXCEPT ![u] = request]
  /\ UNCHANGED <<source, investigation, actions, late, lateFacts>>

Answered(u) == sent' = [sent EXCEPT ![u] = NoRequest]

\* Refused, or rolled back.
AbandonRequest(u) ==
  /\ sent[u].op # "none"
  /\ Answered(u)
  /\ UNCHANGED <<source, investigation, actions, late, lateFacts>>

-----------------------------------------------------------------------------
(* Investigation                                                            *)

BeginStart(u) ==
  /\ Found /\ ~IsClosed /\ investigation = "none"
  /\ Send(u, [NoRequest EXCEPT !.op = "start", !.moves = (source.status = "reported")])

\* One investigation per source: a second insert fails. The incident is moved on
\* whatever became of it (an update of a deleted row changes nothing).
StartInvestigation(u) ==
  /\ sent[u].op = "start" /\ investigation = "none"
  /\ investigation' = "investigating"
  /\ source' = IF sent[u].moves /\ Found
               THEN [source EXCEPT !.status = "investigating"] ELSE source
  /\ lateFacts' = (source'.status = "closed")
  /\ Answered(u)
  /\ UNCHANGED <<actions, late>>

\* A reopening holds the investigation's row.
Reopening == \E u \in Staff: sent[u].op = "reopen"

\* completeInvestigation locks the row before it reads anything.
CompleteInvestigation ==
  /\ Found /\ investigation = "investigating" /\ ~Reopening
  /\ investigation' = "complete"
  /\ UNCHANGED <<source, actions, sent, late, lateFacts>>

BeginReopen(u) ==
  /\ Found /\ ~IsClosed /\ investigation = "complete" /\ ~Reopening
  /\ Send(u, [NoRequest EXCEPT !.op = "reopen"])

ReopenInvestigation(u) ==
  /\ sent[u].op = "reopen"
  /\ investigation' = "investigating"
  /\ lateFacts' = IsClosed
  /\ Answered(u)
  /\ UNCHANGED <<source, actions, late>>

-----------------------------------------------------------------------------
(* Corrective actions                                                       *)

\* From now on the source has the action; a closed one has it too late.
Link(a, row) ==
  /\ actions[a].status = "none"
  /\ actions' = [actions EXCEPT ![a] = row]

BeginAct(u) ==
  /\ Found /\ ~IsClosed
  /\ Send(u, [NoRequest EXCEPT !.op = "act",
                !.moves = (source.kind = "ncr" /\ source.status = "open")])

\* createActionFromSource: an NCR seen open is moved on whatever became of it.
CreateActionFromSource(u) ==
  /\ sent[u].op = "act"
  /\ \E a \in Actions:
       /\ Link(a, [NoAction EXCEPT !.status = "open"])
       /\ source' = IF sent[u].moves /\ Found THEN [source EXCEPT !.status = "action"] ELSE source
       /\ late' = IF source'.status = "closed" THEN late \cup {a} ELSE late
  /\ Answered(u)
  /\ UNCHANGED <<investigation, lateFacts>>

\* The actions register creates an action for any source it finds, closed ones
\* included, and links an unfinished one to it.
RegisterAction ==
  /\ Found
  /\ \E a \in Actions, status \in {"open", "in_progress"}:
       /\ Link(a, [NoAction EXCEPT !.status = status])
       /\ late' = IF IsClosed THEN late \cup {a} ELSE late
  /\ UNCHANGED <<source, investigation, sent, lateFacts>>

\* An unfinished action is deleted, or linked to another record.
RemoveAction ==
  /\ \E a \in Actions:
       /\ actions[a].status \in {"open", "in_progress"}
       /\ actions' = [actions EXCEPT ![a] = NoAction]
       /\ late' = late \ {a}
  /\ UNCHANGED <<source, investigation, sent, lateFacts>>

\* transitionRecord of an action.
StartAction ==
  /\ \E a \in Actions:
       /\ actions[a].status = "open"
       /\ actions' = [actions EXCEPT ![a] = [@ EXCEPT !.status = "in_progress"]]
  /\ UNCHANGED <<source, investigation, sent, late, lateFacts>>

CompleteAction ==
  /\ \E a \in Actions, u \in Staff:
       /\ actions[a].status \in {"open", "in_progress"}
       /\ actions' = [actions EXCEPT ![a] = [NoAction EXCEPT !.status = "complete", !.completer = u]]
  /\ UNCHANGED <<source, investigation, sent, late, lateFacts>>

\* reviewAction: never by the person who completed it. It resolves the source.
ReviewAction ==
  /\ Found
  /\ \E a \in Actions, u \in Staff:
       /\ actions[a].status = "complete"
       /\ actions[a].completer # u
       /\ actions' \in {[actions EXCEPT ![a] = [@ EXCEPT !.status = "verified", !.verifier = u]],
                        [actions EXCEPT ![a] = [@ EXCEPT !.status = "in_progress"]]}
  /\ UNCHANGED <<source, investigation, sent, late, lateFacts>>

-----------------------------------------------------------------------------
(* The source                                                               *)

\* transitionRecord of an incident or an NCR.
MoveSource ==
  /\ \E edge \in Edges[source.kind]:
       /\ source.status = edge[1]
       /\ source' = [source EXCEPT !.status = edge[2]]
  /\ UNCHANGED <<investigation, actions, sent, late, lateFacts>>

\* deleteRecord looks at the state only: what is linked to the source stays.
DeleteSource ==
  /\ source.status = Initial[source.kind]
  /\ source' = [source EXCEPT !.status = "gone"]
  /\ UNCHANGED <<investigation, actions, sent, late, lateFacts>>

\* Mutant: an action nobody has verified yet does not block the closure.
ClosureBlockersUnreviewed ==
  {a \in Linked: actions[a].status \notin {"complete", "verified"}}

\* closureBlockers: the actions not yet independently verified.
ClosureBlockers == {a \in Linked: actions[a].status # "verified"}

\* closeSource: its first read fixes what it sees of investigation and actions.
\* With blockers in there it is refused, whatever it reads later.
BeginClose(u) ==
  /\ Found
  /\ ClosureBlockers = {}
  /\ investigation # "investigating"
  /\ Send(u, [NoRequest EXCEPT !.op = "close", !.linked = Linked, !.facts = investigation])

\* The row itself is locked and read as it is now.
CloseSource(u) ==
  /\ sent[u].op = "close"
  /\ Found /\ ~IsClosed
  /\ source.kind = "ncr" => source.status = "verification"
  /\ source' = [source EXCEPT !.status = "closed"]
  /\ late' = Linked \ sent[u].linked
  /\ lateFacts' = (investigation # sent[u].facts)
  /\ Answered(u)
  /\ UNCHANGED <<investigation, actions>>

ChainNext ==
  \/ CompleteInvestigation
  \/ RegisterAction \/ RemoveAction \/ StartAction \/ CompleteAction \/ ReviewAction
  \/ MoveSource \/ DeleteSource
  \/ \E u \in Staff:
       \/ BeginStart(u) \/ StartInvestigation(u)
       \/ BeginReopen(u) \/ ReopenInvestigation(u)
       \/ BeginAct(u) \/ CreateActionFromSource(u)
       \/ BeginClose(u) \/ CloseSource(u)
       \/ AbandonRequest(u)

ChainSpec == ChainInit /\ [][ChainNext]_chainVars

-----------------------------------------------------------------------------
(* Properties                                                               *)

\* A closed incident or NCR rests on finished work: every corrective action the
\* closure could see was completed by one person and verified by another, and
\* its investigation is complete. Whoever links an action or reopens the
\* investigation while the closure is under way comes too late for it.
ClosedOnEvidence ==
  IsClosed =>
    /\ \A a \in Linked \ late:
         /\ actions[a].status = "verified"
         /\ {actions[a].completer, actions[a].verifier} \subseteq Staff
         /\ actions[a].completer # actions[a].verifier
    /\ investigation = "investigating" => lateFacts
=============================================================================
