---------------------------- MODULE OfficeProofs ----------------------------
(***************************************************************************)
(* What is proved of the records of the office, for every set of them and  *)
(* of the people and requests that work on them at once. The argument is   *)
(* the same throughout: a request acts on what it has read, so the         *)
(* invariant says what of that still holds when it acts, or which history  *)
(* variable tells that it does not. Then of the platform: no organisation  *)
(* loses its last administrator, migrations apply once and in order, and   *)
(* access is that of the subscription.                                     *)
(***************************************************************************)
EXTENDS CorrectiveChain, Documents, Forms, ProjectControl, Clients, PlanScenario,
        Membership, Migration, Billing, SequenceTheorems, FiniteSetTheorems, TLAPS

-----------------------------------------------------------------------------
(* Corrective actions: what a closure found verified stays verified, and   *)
(* whatever it did not find is late.                                       *)

\* An action that somebody has verified.
Verified(a) == actions[a].status = "verified"

\* Who completed an action and who verified it.
ReviewsTell ==
  \A a \in Actions:
    /\ actions[a].status = "complete" => actions[a].completer \in Staff
    /\ Verified(a) => /\ {actions[a].completer, actions[a].verifier} \subseteq Staff
                      /\ actions[a].completer # actions[a].verifier

\* What a closure under way has found: verified actions, which stay so, and no
\* open investigation.
ClosuresTell ==
  \A u \in Staff: sent[u].op = "close" =>
    /\ \A a \in sent[u].linked: Verified(a)
    /\ sent[u].facts # "investigating"

\* What a closed source rests on.
SourceTells ==
  IsClosed =>
    /\ \A a \in Linked \ late: Verified(a)
    /\ investigation = "investigating" => lateFacts

\* The inductive invariant.
ChainInv ==
  /\ ChainTypeOK
  /\ ReviewsTell
  /\ ClosuresTell
  /\ SourceTells

\* What an incident or an NCR may be.
SourceStatuses == {"reported", "investigating", "open", "action", "verification", "closed", "gone"}

\* A request is sent.
LEMMA SendKeeps ==
  ASSUME ChainInv, NEW u \in Staff, NEW request \in Requests, Send(u, request),
         request.op = "close" =>
           /\ \A a \in request.linked: Verified(a)
           /\ request.facts # "investigating"
  PROVE  ChainInv'
<1>1. /\ sent' = [sent EXCEPT ![u] = request]
      /\ UNCHANGED <<source, investigation, actions, late, lateFacts>>
  BY DEF Send
<1>2. /\ sent' \in [Staff -> Requests] /\ sent'[u] = request
      /\ \A w \in Staff \ {u}: sent'[w] = sent[w]
  BY <1>1 DEF ChainInv, ChainTypeOK
<1>3. ChainTypeOK' /\ ReviewsTell' /\ SourceTells'
  BY <1>1, <1>2 DEF ChainInv, ChainTypeOK, ReviewsTell, SourceTells, Verified, IsClosed, Linked
<1>4. ClosuresTell'
  <2>1. SUFFICES ASSUME NEW w \in Staff, sent'[w].op = "close"
                 PROVE  /\ \A a \in sent'[w].linked: Verified(a)
                        /\ sent'[w].facts # "investigating"
    BY <1>1 DEF ClosuresTell, Verified
  <2>2. CASE w = u
    BY <1>2, <2>1, <2>2
  <2>3. CASE w # u
    BY <1>2, <2>1, <2>3 DEF ChainInv, ClosuresTell
  <2>. QED BY <2>2, <2>3
<1>. QED BY <1>3, <1>4 DEF ChainInv

\* A request is answered: what the others have found stays found, as long as
\* what is verified stays so.
LEMMA AnswerKeeps ==
  ASSUME ChainInv, NEW u \in Staff, Answered(u),
         \A a \in Actions: Verified(a) => Verified(a)'
  PROVE  sent' \in [Staff -> Requests] /\ ClosuresTell'
<1>1. NoRequest \in Requests /\ NoRequest.op # "close"
  BY DEF NoRequest, Requests
<1>2. /\ sent' \in [Staff -> Requests] /\ sent'[u] = NoRequest
      /\ \A w \in Staff \ {u}: sent'[w] = sent[w]
  BY <1>1 DEF Answered, ChainInv, ChainTypeOK
<1>3. \A w \in Staff: sent[w].linked \subseteq Actions
  BY DEF ChainInv, ChainTypeOK, Requests
<1>. QED BY <1>1, <1>2, <1>3 DEF ChainInv, ClosuresTell

\* What a step does to the actions: one becomes another row, and what was
\* verified is as it was.
LEMMA ActionKeeps ==
  ASSUME ChainInv, NEW a \in Actions, NEW row \in ActionRows,
         ~Verified(a), actions' = [actions EXCEPT ![a] = row],
         row.status = "complete" => row.completer \in Staff,
         row.status = "verified" =>
           /\ {row.completer, row.verifier} \subseteq Staff
           /\ row.completer # row.verifier
  PROVE  /\ actions' \in [Actions -> ActionRows]
         /\ actions'[a] = row
         /\ \A b \in Actions \ {a}: actions'[b] = actions[b]
         /\ ReviewsTell'
         /\ \A b \in Actions: Verified(b) => Verified(b)'
<1>1. /\ actions' \in [Actions -> ActionRows] /\ actions'[a] = row
      /\ \A b \in Actions \ {a}: actions'[b] = actions[b]
  BY DEF ChainInv, ChainTypeOK
<1>2. ASSUME NEW b \in Actions
      PROVE  /\ actions'[b].status = "complete" => actions'[b].completer \in Staff
             /\ actions'[b].status = "verified" =>
                  /\ {actions'[b].completer, actions'[b].verifier} \subseteq Staff
                  /\ actions'[b].completer # actions'[b].verifier
  <2>1. CASE b = a
    BY <1>1, <2>1
  <2>2. CASE b # a
    BY <1>1, <2>2 DEF ChainInv, ReviewsTell, Verified
  <2>. QED BY <2>1, <2>2
<1>3. ReviewsTell'
  BY <1>2 DEF ReviewsTell, Verified
<1>. QED BY <1>1, <1>3 DEF Verified

\* Rows of actions.
LEMMA NewRows ==
  /\ NoAction \in ActionRows
  /\ \A status \in {"open", "in_progress"}:
       /\ [NoAction EXCEPT !.status = status] \in ActionRows
       /\ [NoAction EXCEPT !.status = status].status = status
  /\ \A u \in Staff:
       /\ [NoAction EXCEPT !.status = "complete", !.completer = u] \in ActionRows
       /\ [NoAction EXCEPT !.status = "complete", !.completer = u].status = "complete"
       /\ [NoAction EXCEPT !.status = "complete", !.completer = u].completer = u
BY DEF NoAction, ActionRows

\* An action is worked on, reviewed or removed.
LEMMA WorkKeeps ==
  ASSUME ChainInv, RemoveAction \/ StartAction \/ CompleteAction \/ ReviewAction
  PROVE  ChainInv'
<1>1. PICK a \in Actions, row \in ActionRows:
        /\ actions[a].status \in {"open", "in_progress", "complete"}
        /\ actions' = [actions EXCEPT ![a] = row]
        /\ late' = IF row.status = "none" THEN late \ {a} ELSE late
        /\ row.status = "complete" => row.completer \in Staff
        /\ row.status = "verified" =>
             /\ {row.completer, row.verifier} \subseteq Staff
             /\ row.completer # row.verifier
        /\ UNCHANGED <<source, investigation, sent, lateFacts>>
  <2>1. CASE RemoveAction
    <3>1. NoAction.status = "none"
      BY DEF NoAction
    <3>. QED BY <2>1, <3>1, NewRows DEF RemoveAction
  <2>2. CASE StartAction
    <3>1. PICK a \in Actions:
            /\ actions[a].status = "open"
            /\ actions' = [actions EXCEPT ![a] = [@ EXCEPT !.status = "in_progress"]]
            /\ UNCHANGED <<source, investigation, sent, late, lateFacts>>
      BY <2>2 DEF StartAction
    <3>2. /\ [actions[a] EXCEPT !.status = "in_progress"] \in ActionRows
          /\ [actions[a] EXCEPT !.status = "in_progress"].status = "in_progress"
      BY DEF ChainInv, ChainTypeOK, ActionRows
    <3>. QED BY <3>1, <3>2
  <2>3. CASE CompleteAction
    <3>1. PICK a \in Actions, u \in Staff:
            /\ actions[a].status \in {"open", "in_progress"}
            /\ actions' = [actions EXCEPT ![a] =
                 [NoAction EXCEPT !.status = "complete", !.completer = u]]
            /\ UNCHANGED <<source, investigation, sent, late, lateFacts>>
      BY <2>3 DEF CompleteAction
    <3>. QED BY <3>1, NewRows
  <2>4. CASE ReviewAction
    <3>1. PICK a \in Actions, u \in Staff:
            /\ actions[a].status = "complete"
            /\ actions[a].completer # u
            /\ actions' \in {[actions EXCEPT ![a] = [@ EXCEPT !.status = "verified", !.verifier = u]],
                             [actions EXCEPT ![a] = [@ EXCEPT !.status = "in_progress"]]}
            /\ UNCHANGED <<source, investigation, sent, late, lateFacts>>
      BY <2>4 DEF ReviewAction
    <3>2. actions[a] \in ActionRows /\ actions[a].completer \in Staff
      BY <3>1 DEF ChainInv, ChainTypeOK, ReviewsTell
    <3>3. PICK row \in ActionRows:
            /\ actions' = [actions EXCEPT ![a] = row]
            /\ \/ row.status = "verified" /\ row.completer = actions[a].completer /\ row.verifier = u
               \/ row.status = "in_progress"
      <4>1. LET row == [actions[a] EXCEPT !.status = "verified", !.verifier = u] IN
            /\ row \in ActionRows /\ row.status = "verified"
            /\ row.completer = actions[a].completer /\ row.verifier = u
        BY <3>2 DEF ActionRows
      <4>2. LET row == [actions[a] EXCEPT !.status = "in_progress"] IN
            row \in ActionRows /\ row.status = "in_progress"
        BY <3>2 DEF ActionRows
      <4>. QED BY <3>1, <4>1, <4>2
    <3>4. /\ row.status = "verified" => row.completer \in Staff /\ row.verifier \in Staff
          /\ row.status = "verified" => row.completer # row.verifier
          /\ row.status \notin {"none", "complete"}
      BY <3>1, <3>2, <3>3
    <3>. QED BY <3>1, <3>3, <3>4
  <2>. QED BY <2>1, <2>2, <2>3, <2>4
<1>2. ~Verified(a)
  BY <1>1 DEF Verified
<1>3. /\ actions' \in [Actions -> ActionRows]
      /\ actions'[a] = row
      /\ \A b \in Actions \ {a}: actions'[b] = actions[b]
      /\ ReviewsTell'
      /\ \A b \in Actions: Verified(b) => Verified(b)'
  BY <1>1, <1>2, ActionKeeps
<1>4. ChainTypeOK'
  BY <1>1, <1>3 DEF ChainInv, ChainTypeOK
<1>5. ClosuresTell'
  <2>1. \A w \in Staff: sent[w].linked \subseteq Actions
    BY DEF ChainInv, ChainTypeOK, Requests
  <2>. QED BY <1>1, <1>3, <2>1 DEF ChainInv, ClosuresTell
<1>6. SourceTells'
  <2>1. ASSUME IsClosed', NEW b \in Linked' \ late'
        PROVE  Verified(b)'
    <3>0. IsClosed
      BY <1>1, <2>1 DEF IsClosed
    <3>1. CASE b = a
      <4>1. a \notin late
        BY <1>1, <1>3, <2>1, <3>1 DEF Linked
      <4>2. a \in Linked
        BY <1>1 DEF Linked
      <4>. QED BY <1>2, <3>0, <4>1, <4>2 DEF ChainInv, SourceTells
    <3>2. CASE b # a
      <4>1. b \in Linked \ late
        BY <1>1, <1>3, <2>1, <3>2 DEF Linked
      <4>. QED BY <1>3, <3>0, <4>1 DEF ChainInv, SourceTells, Linked
    <3>. QED BY <3>1, <3>2
  <2>2. IsClosed' /\ investigation' = "investigating" => lateFacts'
    BY <1>1 DEF IsClosed, ChainInv, SourceTells
  <2>. QED BY <2>1, <2>2 DEF SourceTells
<1>. QED BY <1>3, <1>4, <1>5, <1>6 DEF ChainInv

\* An action is linked to the source.
LEMMA LinkKeeps ==
  ASSUME ChainInv, NEW a \in Actions, NEW status \in {"open", "in_progress"},
         Link(a, [NoAction EXCEPT !.status = status]),
         source' = source \/ source'.status # "closed",
         source' \in [kind: {"incident", "ncr"}, status: SourceStatuses],
         late' = IF source'.status = "closed" THEN late \cup {a} ELSE late,
         UNCHANGED <<investigation, lateFacts>>,
         sent' = sent \/ \E u \in Staff: Answered(u)
  PROVE  ChainInv'
<1>0. PICK row: row = [NoAction EXCEPT !.status = status]
  OBVIOUS
<1>1. /\ row \in ActionRows /\ row.status = status
      /\ actions[a].status = "none"
      /\ actions' = [actions EXCEPT ![a] = row]
  BY <1>0, NewRows DEF Link
<1>2. ~Verified(a)
  BY <1>1 DEF Verified
<1>3. /\ actions' \in [Actions -> ActionRows]
      /\ \A b \in Actions \ {a}: actions'[b] = actions[b]
      /\ ReviewsTell'
      /\ \A b \in Actions: Verified(b) => Verified(b)'
  BY <1>1, <1>2, ActionKeeps
<1>4. sent' \in [Staff -> Requests] /\ ClosuresTell'
  <2>1. CASE sent' = sent
    <3>1. \A w \in Staff: sent[w].linked \subseteq Actions
      BY DEF ChainInv, ChainTypeOK, Requests
    <3>. QED BY <1>3, <2>1, <3>1 DEF ChainInv, ChainTypeOK, ClosuresTell
  <2>2. CASE \E u \in Staff: Answered(u)
    BY <1>3, <2>2, AnswerKeeps
  <2>. QED BY <2>1, <2>2
<1>5. ChainTypeOK'
  BY <1>3, <1>4 DEF ChainInv, ChainTypeOK, SourceStatuses
<1>6. SourceTells'
  <2>1. SUFFICES ASSUME IsClosed'
                 PROVE  /\ \A b \in Linked' \ late': Verified(b)'
                        /\ investigation' = "investigating" => lateFacts'
    BY DEF SourceTells
  <2>2. source' = source /\ IsClosed /\ late' = late \cup {a}
    BY <2>1 DEF IsClosed
  <2>3. ASSUME NEW b \in Linked' \ late' PROVE Verified(b)'
    <3>1. b \in Linked \ late
      BY <1>3, <2>2, <2>3 DEF Linked
    <3>. QED BY <1>3, <2>2, <3>1 DEF ChainInv, SourceTells, Linked
  <2>. QED BY <2>2, <2>3 DEF ChainInv, SourceTells
<1>. QED BY <1>3, <1>4, <1>5, <1>6 DEF ChainInv

\* The edges of the state machines.
LEMMA EdgesMove ==
  ASSUME NEW kind \in {"incident", "ncr"}, NEW edge \in Edges[kind]
  PROVE  edge[2] \in SourceStatuses \ {"closed"}
BY DEF Edges, IncidentEdges, NcrEdges, SourceStatuses

\* Steps that leave the actions alone.
LEMMA SourceKeeps ==
  ASSUME ChainInv, actions' = actions,
         sent' = sent \/ \E u \in Staff: Answered(u),
         source' \in [kind: {"incident", "ncr"}, status: SourceStatuses],
         investigation' \in {"none", "investigating", "complete"},
         late' \subseteq Actions, lateFacts' \in BOOLEAN,
         source'.status = "closed" =>
           /\ \A a \in Linked \ late': Verified(a)
           /\ investigation' = "investigating" => lateFacts'
  PROVE  ChainInv'
<1>1. sent' \in [Staff -> Requests] /\ ClosuresTell'
  <2>1. CASE sent' = sent
    BY <2>1 DEF ChainInv, ChainTypeOK, ClosuresTell, Verified
  <2>2. CASE \E u \in Staff: Answered(u)
    BY <2>2, AnswerKeeps DEF Verified
  <2>. QED BY <2>1, <2>2
<1>2. ChainTypeOK'
  BY <1>1 DEF ChainInv, ChainTypeOK, SourceStatuses
<1>3. ReviewsTell' /\ SourceTells'
  BY DEF ChainInv, ReviewsTell, SourceTells, Verified, IsClosed, Linked
<1>. QED BY <1>1, <1>2, <1>3 DEF ChainInv

\* The statuses a source may have, and what a closed one rests on.
LEMMA SourceRests ==
  ASSUME ChainInv
  PROVE  /\ source \in [kind: {"incident", "ncr"}, status: SourceStatuses]
         /\ \A s \in SourceStatuses: /\ [source EXCEPT !.status = s] \in [kind: {"incident", "ncr"}, status: SourceStatuses]
                               /\ [source EXCEPT !.status = s].status = s
         /\ investigation \in {"none", "investigating", "complete"}
         /\ late \subseteq Actions /\ lateFacts \in BOOLEAN
         /\ source.status = "closed" =>
              /\ \A a \in Linked \ late: Verified(a)
              /\ investigation = "investigating" => lateFacts
BY DEF ChainInv, ChainTypeOK, SourceStatuses, SourceTells, IsClosed

\* The investigation.
LEMMA InvestigationKeeps ==
  ASSUME ChainInv,
         CompleteInvestigation \/ \E u \in Staff: StartInvestigation(u) \/ ReopenInvestigation(u)
  PROVE  ChainInv'
<1>1. CASE CompleteInvestigation
  BY <1>1, SourceRests, SourceKeeps DEF CompleteInvestigation
<1>2. ASSUME NEW u \in Staff, StartInvestigation(u) PROVE ChainInv'
  <2>1. /\ investigation' = "investigating"
        /\ source' = source \/ source' = [source EXCEPT !.status = "investigating"]
        /\ lateFacts' = (source'.status = "closed")
        /\ Answered(u)
        /\ UNCHANGED <<actions, late>>
    BY <1>2 DEF StartInvestigation
  <2>2. /\ source' \in [kind: {"incident", "ncr"}, status: SourceStatuses]
        /\ source' = source \/ source'.status = "investigating"
    BY <2>1, SourceRests DEF SourceStatuses
  <2>3. lateFacts' \in BOOLEAN
    BY <2>1, Zenon
  <2>. QED BY <2>1, <2>2, <2>3, SourceRests, SourceKeeps
<1>3. ASSUME NEW u \in Staff, ReopenInvestigation(u) PROVE ChainInv'
  <2>1. /\ investigation' = "investigating"
        /\ lateFacts' = (source.status = "closed")
        /\ Answered(u)
        /\ UNCHANGED <<source, actions, late>>
    BY <1>3 DEF ReopenInvestigation, IsClosed
  <2>2. lateFacts' \in BOOLEAN
    BY <2>1, Zenon
  <2>. QED BY <2>1, <2>2, SourceRests, SourceKeeps
<1>. QED BY <1>1, <1>2, <1>3

\* Linking an action, from the chain or from the register.
LEMMA LinkingKeeps ==
  ASSUME ChainInv, RegisterAction \/ \E u \in Staff: CreateActionFromSource(u)
  PROVE  ChainInv'
<1>1. CASE RegisterAction
  <2>1. PICK a \in Actions, status \in {"open", "in_progress"}:
          /\ Link(a, [NoAction EXCEPT !.status = status])
          /\ late' = IF source'.status = "closed" THEN late \cup {a} ELSE late
          /\ UNCHANGED <<source, investigation, sent, lateFacts>>
    BY <1>1 DEF RegisterAction, IsClosed
  <2>. QED BY <2>1, SourceRests, LinkKeeps
<1>2. ASSUME NEW u \in Staff, CreateActionFromSource(u) PROVE ChainInv'
  <2>1. PICK a \in Actions:
          /\ Link(a, [NoAction EXCEPT !.status = "open"])
          /\ source' = source \/ source' = [source EXCEPT !.status = "action"]
          /\ late' = IF source'.status = "closed" THEN late \cup {a} ELSE late
          /\ Answered(u)
          /\ UNCHANGED <<investigation, lateFacts>>
    BY <1>2 DEF CreateActionFromSource
  <2>2. /\ source' \in [kind: {"incident", "ncr"}, status: SourceStatuses]
        /\ source' = source \/ source'.status # "closed"
    BY <2>1, SourceRests DEF SourceStatuses
  <2>. QED BY <2>1, <2>2, LinkKeeps
<1>. QED BY <1>1, <1>2

\* Moving, deleting and closing the source.
LEMMA ClosingKeeps ==
  ASSUME ChainInv, MoveSource \/ DeleteSource \/ \E u \in Staff: CloseSource(u) \/ AbandonRequest(u)
  PROVE  ChainInv'
<1>1. CASE MoveSource \/ DeleteSource
  <2>1. PICK s \in SourceStatuses \ {"closed"}:
          /\ source' = [source EXCEPT !.status = s]
          /\ UNCHANGED <<investigation, actions, sent, late, lateFacts>>
    <3>1. source.kind \in {"incident", "ncr"}
      BY SourceRests
    <3>2. CASE MoveSource
      BY <3>1, <3>2, EdgesMove DEF MoveSource
    <3>3. CASE DeleteSource
      BY <3>3 DEF DeleteSource, SourceStatuses
    <3>. QED BY <1>1, <3>2, <3>3
  <2>2. source' \in [kind: {"incident", "ncr"}, status: SourceStatuses] /\ source'.status # "closed"
    BY <2>1, SourceRests
  <2>. QED BY <2>1, <2>2, SourceRests, SourceKeeps
<1>2. ASSUME NEW u \in Staff, CloseSource(u) PROVE ChainInv'
  <2>1. /\ sent[u].op = "close"
        /\ source' = [source EXCEPT !.status = "closed"]
        /\ late' = Linked \ sent[u].linked
        /\ lateFacts' = (investigation # sent[u].facts)
        /\ Answered(u)
        /\ UNCHANGED <<investigation, actions>>
    BY <1>2 DEF CloseSource
  <2>2. /\ \A a \in sent[u].linked: Verified(a)
        /\ sent[u].facts # "investigating"
    BY <2>1 DEF ChainInv, ClosuresTell
  <2>3. /\ source' \in [kind: {"incident", "ncr"}, status: SourceStatuses]
        /\ late' \subseteq Actions
    BY <2>1, SourceRests DEF SourceStatuses, Linked
  <2>4. lateFacts' \in BOOLEAN
    BY <2>1, Zenon
  <2>5. investigation' = "investigating" => lateFacts'
    BY <2>1, <2>2
  <2>6. \A a \in Linked \ late': Verified(a)
    BY <2>1, <2>2
  <2>. QED BY <2>1, <2>3, <2>4, <2>5, <2>6, SourceRests, SourceKeeps
<1>3. ASSUME NEW u \in Staff, AbandonRequest(u) PROVE ChainInv'
  BY <1>3, SourceRests, SourceKeeps DEF AbandonRequest
<1>. QED BY <1>1, <1>2, <1>3

\* Reading what a request needs.
LEMMA SendingKeeps ==
  ASSUME ChainInv, NEW u \in Staff, BeginStart(u) \/ BeginReopen(u) \/ BeginAct(u) \/ BeginClose(u)
  PROVE  ChainInv'
<1>1. CASE BeginStart(u) \/ BeginReopen(u) \/ BeginAct(u)
  <2>1. PICK request \in Requests: Send(u, request) /\ request.op # "close"
    <3>1. \A op \in {"start", "act"}, m \in BOOLEAN:
            /\ [NoRequest EXCEPT !.op = op, !.moves = m] \in Requests
            /\ [NoRequest EXCEPT !.op = op, !.moves = m].op = op
      BY DEF NoRequest, Requests
    <3>2. /\ [NoRequest EXCEPT !.op = "reopen"] \in Requests
          /\ [NoRequest EXCEPT !.op = "reopen"].op = "reopen"
      BY DEF NoRequest, Requests
    <3>3. CASE BeginStart(u)
      <4>1. (source.status = "reported") \in BOOLEAN
        OBVIOUS
      <4>. QED BY <3>1, <3>3, <4>1 DEF BeginStart
    <3>4. CASE BeginAct(u)
      <4>1. (source.kind = "ncr" /\ source.status = "open") \in BOOLEAN
        OBVIOUS
      <4>. QED BY <3>1, <3>4, <4>1 DEF BeginAct
    <3>5. CASE BeginReopen(u)
      BY <3>2, <3>5 DEF BeginReopen
    <3>. QED BY <1>1, <3>3, <3>4, <3>5
  <2>. QED BY <2>1, SendKeeps
<1>2. CASE BeginClose(u)
  <2> DEFINE request == [NoRequest EXCEPT !.op = "close", !.linked = Linked, !.facts = investigation]
  <2>1. /\ ClosureBlockers = {}
        /\ investigation # "investigating"
        /\ Send(u, request)
    BY <1>2 DEF BeginClose
  <2>2. Linked \subseteq Actions /\ investigation \in {"none", "investigating", "complete"}
    BY DEF Linked, ChainInv, ChainTypeOK
  <2>3. request \in Requests /\ request.linked = Linked /\ request.facts = investigation
    BY <2>2 DEF NoRequest, Requests
  <2>4. \A a \in Linked: Verified(a)
    BY <2>1 DEF ClosureBlockers, Verified
  <2> HIDE DEF request
  <2>. QED BY <2>1, <2>3, <2>4, SendKeeps
<1>. QED BY <1>1, <1>2

\* The invariant holds in every state.
LEMMA ChainInvariant == ChainSpec => []ChainInv
<1>1. ChainInit => ChainInv
  <2> SUFFICES ASSUME ChainInit PROVE ChainInv
    OBVIOUS
  <2>1. PICK k \in {"incident", "ncr"}: source = [kind |-> k, status |-> Initial[k]]
    BY DEF ChainInit
  <2>2. source \in [kind: {"incident", "ncr"}, status: SourceStatuses] /\ source.status # "closed"
    BY <2>1 DEF Initial, SourceStatuses
  <2>3. actions \in [Actions -> ActionRows] /\ \A a \in Actions: actions[a].status = "none"
    BY NewRows DEF ChainInit, NoAction
  <2>4. sent \in [Staff -> Requests] /\ \A u \in Staff: sent[u].op = "none"
    BY DEF ChainInit, NoRequest, Requests
  <2>. QED BY <2>2, <2>3, <2>4 DEF ChainInit, ChainInv, ChainTypeOK, ReviewsTell, ClosuresTell,
                                   SourceTells, Verified, IsClosed, SourceStatuses
<1>2. ChainInv /\ [ChainNext]_chainVars => ChainInv'
  <2> SUFFICES ASSUME ChainInv, [ChainNext]_chainVars
               PROVE  ChainInv'
    OBVIOUS
  <2>1. CASE UNCHANGED chainVars
    BY <2>1, SourceRests, SourceKeeps DEF chainVars
  <2>. QED BY <2>1, WorkKeeps, InvestigationKeeps, LinkingKeeps, ClosingKeeps, SendingKeeps DEF ChainNext
<1>. QED BY <1>1, <1>2, PTL DEF ChainSpec

\* Every state of the corrective chain has the declared types.
THEOREM ChainTypeCorrect == ChainSpec => []ChainTypeOK
<1>1. ChainInv => ChainTypeOK
  BY DEF ChainInv
<1>. QED BY <1>1, ChainInvariant, PTL

\* A closed incident or NCR rests on finished work: what its closure could see
\* was completed by one person and verified by another, whatever is linked,
\* reopened or removed while the closure is under way.
THEOREM ClosureRestsOnEvidence == ChainSpec => []ClosedOnEvidence
<1>1. ChainInv => ClosedOnEvidence
  BY DEF ChainInv, ReviewsTell, SourceTells, Verified, ClosedOnEvidence, IsClosed, Linked
<1>. QED BY <1>1, ChainInvariant, PTL

-----------------------------------------------------------------------------
(* Documents: an upload is a revision once at most, and what its stage     *)
(* tells of its object and its file.                                       *)

\* An upload is a revision once at most: of one record, in one place.
RevisedOnce ==
  \A r, q \in Records: \A i \in 1..Current(r), j \in 1..Current(q):
    revisions[r][i] = revisions[q][j] => r = q /\ i = j

\* What the stage of an upload says of it.
UploadsTell ==
  /\ \A u \in Uploads: uploading[u].stage = "stored" => u \in objects
  /\ \A r \in Records: \A i \in 1..Current(r):
       LET u == revisions[r][i] IN
       /\ uploading[u].stage \in {"failed", "over"}
       /\ uploading[u].stage = "failed" => u \in unsure

\* The inductive invariant.
DocumentInv ==
  /\ DocumentTypeOK
  /\ RevisedOnce
  /\ UploadsTell
  /\ RevisionsReadable

\* The records' revisions are uploads.
LEMMA RevisionsAreUploads ==
  ASSUME DocumentTypeOK, NEW r \in Records
  PROVE  /\ Current(r) \in Nat /\ DOMAIN revisions[r] = 1..Current(r)
         /\ \A i \in 1..Current(r): revisions[r][i] \in Uploads
<1>1. revisions[r] \in Seq(Uploads)
  BY DEF DocumentTypeOK
<1>. QED BY <1>1, LenProperties, ElementOfSeq DEF Current

\* A stage is moved: the other uploads stay where they are.
LEMMA StageMoved ==
  ASSUME DocumentTypeOK, NEW u \in Uploads, NEW to \in {"new", "stored", "failed", "over"},
         Stage(u, to)
  PROVE  /\ uploading' \in [Uploads -> UploadRows]
         /\ uploading'[u].stage = to
         /\ \A v \in Uploads \ {u}: uploading'[v] = uploading[v]
<1>1. uploading[u] \in UploadRows
  BY DEF DocumentTypeOK
<1>2. /\ [uploading[u] EXCEPT !.stage = to] \in UploadRows
      /\ [uploading[u] EXCEPT !.stage = to].stage = to
  BY <1>1 DEF UploadRows
<1>. QED BY <1>2 DEF DocumentTypeOK, Stage

\* Steps that leave the revisions and their files alone, keep the objects of
\* stored uploads and of those whose commit was not reported as failed, and move
\* only an upload that is no revision, or one that may be unreadable.
LEMMA QuietKeeps ==
  ASSUME DocumentInv, DocumentTypeOK', UNCHANGED <<revisions, files, unsure>>,
         \A v \in Uploads: uploading'[v].stage = "stored" => v \in objects',
         \A v \in Uploads:
           \/ uploading'[v] = uploading[v] /\ (v \in objects => v \in objects')
           \/ uploading[v].stage = "new" \/ uploading[v].stage = "stored"
           \/ uploading[v].stage = "failed" /\ uploading'[v].stage = "over"
  PROVE  DocumentInv'
<1>1. RevisedOnce'
  BY DEF DocumentInv, RevisedOnce, Current
<1>2. ASSUME NEW r \in Records, NEW i \in 1..Current(r)
      PROVE  LET u == revisions[r][i] IN
             /\ uploading'[u].stage \in {"failed", "over"}
             /\ uploading'[u].stage = "failed" => u \in unsure
             /\ u \in objects' \cup unsure
  <2> DEFINE u == revisions[r][i]
  <2>1. /\ u \in Uploads /\ uploading[u].stage \in {"failed", "over"}
        /\ uploading[u].stage = "failed" => u \in unsure
        /\ u \in objects \cup unsure
    BY RevisionsAreUploads DEF DocumentInv, UploadsTell, RevisionsReadable
  <2> HIDE DEF u
  <2>. QED BY <2>1 DEF u
<1>3. UploadsTell'
  BY <1>2 DEF UploadsTell, Current
<1>4. RevisionsReadable'
  <2>1. \A r \in Records: DOMAIN revisions[r] = 1..Current(r)
    BY RevisionsAreUploads DEF DocumentInv
  <2>. QED BY <1>2, <2>1 DEF DocumentInv, RevisionsReadable, Current
<1>. QED BY <1>1, <1>3, <1>4 DEF DocumentInv

\* A commit makes the upload the newest revision and replaces the one before.
LEMMA CommitKeeps ==
  ASSUME DocumentInv, NEW u \in Uploads, CommitRevision(u) \/ CommitUnanswered(u)
  PROVE  DocumentInv'
<1>0. PICK r \in Records: r = uploading[u].to
  BY DEF DocumentInv, DocumentTypeOK, UploadRows
<1>01. PICK n \in Nat: n = Current(r)
  BY RevisionsAreUploads DEF DocumentInv
<1>1. /\ uploading[u].stage = "stored"
      /\ files' = Supersede(u)
      /\ revisions' = [revisions EXCEPT ![r] = Append(revisions[r], u)]
      /\ UNCHANGED <<archived, objects>>
  BY <1>0 DEF CommitRevision, CommitUnanswered, Commit
<1>2. PICK to \in {"failed", "over"}:
        /\ Stage(u, to)
        /\ unsure' = IF to = "failed" THEN unsure \cup {u} ELSE unsure
  BY DEF CommitRevision, CommitUnanswered
<1>3. r \in Records /\ n \in Nat /\ revisions[r] \in Seq(Uploads)
  BY DEF DocumentInv, DocumentTypeOK
<1>4. u \in objects
  BY <1>1 DEF DocumentInv, UploadsTell
<1>5. \A q \in Records: \A i \in 1..Current(q): revisions[q][i] # u
  BY <1>1 DEF DocumentInv, UploadsTell
<1>6. /\ uploading' \in [Uploads -> UploadRows]
      /\ uploading'[u].stage = to
      /\ \A v \in Uploads \ {u}: uploading'[v] = uploading[v]
  BY <1>2, StageMoved DEF DocumentInv
<1>7. files' = [f \in Uploads |->
        IF f = u THEN "current"
        ELSE IF n > 0 /\ f = revisions[r][n] THEN "superseded" ELSE files[f]]
  BY <1>0, <1>01, <1>1 DEF Supersede
<1>8. /\ revisions'[r] = Append(revisions[r], u)
      /\ \A q \in Records \ {r}: revisions'[q] = revisions[q]
  BY <1>1, <1>3 DEF DocumentInv, DocumentTypeOK
<1>9. /\ Append(revisions[r], u) \in Seq(Uploads)
      /\ Len(Append(revisions[r], u)) = n + 1
      /\ Append(revisions[r], u)[n + 1] = u
      /\ \A i \in 1..n: Append(revisions[r], u)[i] = revisions[r][i]
  BY <1>3, <1>01 DEF Current
<1>10. /\ Current(r)' = n + 1
       /\ revisions'[r][n + 1] = u
       /\ \A i \in 1..n: revisions'[r][i] = revisions[r][i]
       /\ \A q \in Records \ {r}: Current(q)' = Current(q) /\ revisions'[q] = revisions[q]
  BY <1>3, <1>8, <1>9 DEF Current
<1>12. DocumentTypeOK'
  <2>1. revisions' \in [Records -> Seq(Uploads)]
    BY <1>1, <1>3, <1>9 DEF DocumentInv, DocumentTypeOK
  <2>2. files' \in [Uploads -> {"none", "current", "superseded"}]
    BY <1>7 DEF DocumentInv, DocumentTypeOK
  <2>3. unsure' \subseteq Uploads
    BY <1>2 DEF DocumentInv, DocumentTypeOK
  <2>. QED BY <1>1, <1>6, <2>1, <2>2, <2>3 DEF DocumentInv, DocumentTypeOK
\* A revision of now is one of before in its place, or the new one.
<1>13. ASSUME NEW q \in Records, NEW i \in 1..Current(q)'
       PROVE  \/ i \in 1..Current(q) /\ revisions'[q][i] = revisions[q][i]
              \/ q = r /\ i = n + 1 /\ revisions'[q][i] = u
  <2>1. CASE q = r
    <3>1. i \in 1..n \/ i = n + 1
      BY <1>3, <1>10, <1>13, <2>1
    <3>. QED BY <1>10, <1>01, <2>1, <3>1
  <2>2. CASE q # r
    BY <1>10, <1>13, <2>2
  <2>. QED BY <2>1, <2>2
<1>14. RevisedOnce'
  <2>1. SUFFICES ASSUME NEW q \in Records, NEW p \in Records,
                        NEW i \in 1..Current(q)', NEW j \in 1..Current(p)',
                        revisions'[q][i] = revisions'[p][j]
                 PROVE  q = p /\ i = j
    BY DEF RevisedOnce
  <2>2. CASE i \in 1..Current(q) /\ revisions'[q][i] = revisions[q][i]
    <3>1. j \in 1..Current(p) /\ revisions'[p][j] = revisions[p][j]
      BY <1>5, <1>13, <2>1, <2>2
    <3>2. revisions[q][i] = revisions[p][j]
      BY <2>1, <2>2, <3>1
    <3>3. RevisedOnce
      BY DEF DocumentInv
    <3>. QED BY <2>2, <3>1, <3>2, <3>3 DEF RevisedOnce
  <2>3. CASE q = r /\ i = n + 1 /\ revisions'[q][i] = u
    <3>1. revisions'[p][j] = u
      BY <2>1, <2>3
    <3>2. p = r /\ j = n + 1
      BY <1>5, <1>13, <3>1
    <3>. QED BY <2>3, <3>2
  <2>. QED BY <1>13, <2>2, <2>3
<1>15. UploadsTell'
  <2>1. ASSUME NEW q \in Records, NEW i \in 1..Current(q)'
        PROVE  LET v == revisions'[q][i] IN
               /\ uploading'[v].stage \in {"failed", "over"}
               /\ uploading'[v].stage = "failed" => v \in unsure'
    <3>1. CASE i \in 1..Current(q) /\ revisions'[q][i] = revisions[q][i]
      <4>1. /\ revisions[q][i] \in Uploads \ {u}
            /\ uploading[revisions[q][i]].stage \in {"failed", "over"}
            /\ uploading[revisions[q][i]].stage = "failed" => revisions[q][i] \in unsure
        BY <1>5, <3>1, RevisionsAreUploads DEF DocumentInv, UploadsTell
      <4>. QED BY <1>2, <1>6, <3>1, <4>1
    <3>2. CASE q = r /\ i = n + 1 /\ revisions'[q][i] = u
      BY <1>2, <1>6, <3>2
    <3>. QED BY <1>13, <3>1, <3>2
  <2>2. \A v \in Uploads: uploading'[v].stage = "stored" => v \in objects'
    BY <1>1, <1>2, <1>6 DEF DocumentInv, UploadsTell
  <2>. QED BY <2>1, <2>2 DEF UploadsTell
<1>16. RevisionsReadable'
  <2>1. \A q \in Records: DOMAIN revisions'[q] = 1..Current(q)'
    BY <1>12, LenProperties DEF DocumentTypeOK, Current
  <2>2. ASSUME NEW q \in Records, NEW i \in 1..Current(q)'
        PROVE  /\ files'[revisions'[q][i]] = IF i = Current(q)' THEN "current" ELSE "superseded"
               /\ revisions'[q][i] \in objects' \cup unsure'
    <3>1. CASE i \in 1..Current(q) /\ revisions'[q][i] = revisions[q][i]
      <4>0. PICK v: v = revisions[q][i]
        OBVIOUS
      <4>1. /\ v \in Uploads /\ v # u
            /\ files[v] = IF i = Current(q) THEN "current" ELSE "superseded"
            /\ v \in objects \cup unsure
        BY <1>5, <3>1, <4>0, RevisionsAreUploads DEF DocumentInv, RevisionsReadable, Current
      <4>2. n > 0 /\ v = revisions[r][n] <=> q = r /\ i = n
        BY <1>3, <1>01, <3>1, <4>0 DEF DocumentInv, RevisedOnce
      <4>3. files'[v] = IF q = r /\ i = n THEN "superseded" ELSE files[v]
        BY <1>7, <4>1, <4>2
      <4>4. Current(q) \in Nat
        BY RevisionsAreUploads DEF DocumentInv
      <4>5. files'[v] = IF i = Current(q)' THEN "current" ELSE "superseded"
        BY <1>3, <1>10, <1>01, <3>1, <4>1, <4>3, <4>4
      <4>6. v \in objects' \cup unsure'
        BY <1>1, <1>2, <4>1
      <4>7. revisions'[q][i] = v
        BY <3>1, <4>0
      <4>. QED BY <4>5, <4>6, <4>7
    <3>2. CASE q = r /\ i = n + 1 /\ revisions'[q][i] = u
      <4>1. i = Current(q)' /\ revisions'[q][i] = u
        BY <1>10, <3>2
      <4>2. files'[u] = "current"
        BY <1>7
      <4>3. u \in objects' \cup unsure'
        BY <1>1, <1>4
      <4>. QED BY <4>1, <4>2, <4>3
    <3>. QED BY <1>13, <3>1, <3>2
  <2>. QED BY <2>1, <2>2 DEF RevisionsReadable, Current
<1>. QED BY <1>12, <1>14, <1>15, <1>16 DEF DocumentInv

\* Storing, failing, cleaning up and dying.
LEMMA UploadKeeps ==
  ASSUME DocumentInv, NEW u \in Uploads,
         PutObject(u) \/ FailRevision(u) \/ Discard(u) \/ Die(u)
  PROVE  DocumentInv'
<1>1. CASE PutObject(u)
  <2>1. PICK r \in Records, named \in BOOLEAN:
          /\ uploading[u].stage = "new"
          /\ uploading' = [uploading EXCEPT ![u] =
               [stage |-> "stored", to |-> r, base |-> Current(r), named |-> named]]
          /\ objects' = objects \cup {u}
          /\ UNCHANGED <<revisions, archived, files, unsure>>
    BY <1>1 DEF PutObject
  <2>2. [stage |-> "stored", to |-> r, base |-> Current(r), named |-> named] \in UploadRows
    BY RevisionsAreUploads DEF DocumentInv, UploadRows
  <2>3. DocumentTypeOK'
    BY <2>1, <2>2 DEF DocumentInv, DocumentTypeOK
  <2>4. \A v \in Uploads \ {u}: uploading'[v] = uploading[v]
    BY <2>1 DEF DocumentInv, DocumentTypeOK
  <2>. QED BY <2>1, <2>3, <2>4, QuietKeeps DEF DocumentInv, UploadsTell
<1>2. CASE FailRevision(u) \/ Discard(u) \/ Die(u)
  <2>1. PICK to \in {"failed", "over"}:
          /\ Stage(u, to)
          /\ uploading[u].stage = "stored" \/ (uploading[u].stage = "failed" /\ to = "over")
          /\ objects' = objects \/ objects' = objects \ {u}
          /\ UNCHANGED <<revisions, archived, files, unsure>>
    BY <1>2 DEF FailRevision, Discard, Die
  <2>2. /\ uploading' \in [Uploads -> UploadRows]
        /\ uploading'[u].stage = to
        /\ \A v \in Uploads \ {u}: uploading'[v] = uploading[v]
    BY <2>1, StageMoved DEF DocumentInv
  <2>3. DocumentTypeOK'
    BY <2>1, <2>2 DEF DocumentInv, DocumentTypeOK
  <2>. QED BY <2>1, <2>2, <2>3, QuietKeeps DEF DocumentInv, UploadsTell
<1>. QED BY <1>1, <1>2

\* The invariant holds in every state.
LEMMA DocumentInvariant == DocumentSpec => []DocumentInv
<1>1. DocumentInit => DocumentInv
  <2> SUFFICES ASSUME DocumentInit PROVE DocumentInv
    OBVIOUS
  <2>1. \A r \in Records: revisions[r] = <<>> /\ Current(r) = 0
    BY DEF DocumentInit, Current
  <2>2. DocumentTypeOK
    <3>1. uploading \in [Uploads -> UploadRows]
      BY DEF DocumentInit, NewUpload, UploadRows, Records
    <3>2. revisions \in [Records -> Seq(Uploads)]
      BY EmptySeq DEF DocumentInit
    <3>3. archived \in BOOLEAN /\ files \in [Uploads -> {"none", "current", "superseded"}]
      BY DEF DocumentInit
    <3>. QED BY <3>1, <3>2, <3>3 DEF DocumentInit, DocumentTypeOK
  <2>3. \A u \in Uploads: uploading[u].stage = "new"
    BY DEF DocumentInit, NewUpload
  <2>4. RevisedOnce /\ UploadsTell /\ RevisionsReadable
    BY <2>1, <2>3 DEF RevisedOnce, UploadsTell, RevisionsReadable
  <2>. QED BY <2>2, <2>4 DEF DocumentInv
<1>2. DocumentInv /\ [DocumentNext]_documentVars => DocumentInv'
  <2> SUFFICES ASSUME DocumentInv, [DocumentNext]_documentVars
               PROVE  DocumentInv'
    OBVIOUS
  <2>1. CASE SetArchived \/ UNCHANGED documentVars
    <3>1. UNCHANGED <<revisions, files, objects, uploading, unsure>> /\ archived' \in BOOLEAN
      BY <2>1 DEF SetArchived, documentVars, DocumentInv, DocumentTypeOK
    <3>2. DocumentTypeOK'
      BY <3>1 DEF DocumentInv, DocumentTypeOK
    <3>. QED BY <3>1, <3>2, QuietKeeps DEF DocumentInv, UploadsTell
  <2>. QED BY <2>1, CommitKeeps, UploadKeeps DEF DocumentNext
<1>. QED BY <1>1, <1>2, PTL DEF DocumentSpec

\* Every state of the documents has the declared types.
THEOREM DocumentTypeCorrect == DocumentSpec => []DocumentTypeOK
<1>1. DocumentInv => DocumentTypeOK
  BY DEF DocumentInv
<1>. QED BY <1>1, DocumentInvariant, PTL

\* Whatever overlaps, fails or dies, the newest revision of a record is its one
\* current file, and every revision can be opened whose commit was not reported
\* as failed.
THEOREM RevisionsStayReadable == DocumentSpec => []RevisionsReadable
<1>1. DocumentInv => RevisionsReadable
  BY DEF DocumentInv
<1>. QED BY <1>1, DocumentInvariant, PTL

-----------------------------------------------------------------------------
(* Forms: what has been in force keeps its schema, so that what is on a    *)
(* screen, under way or stored goes on asking what it asked.               *)

\* A version that has been in force.
Issued(n) == formVersions[n].status \in {"published", "superseded"}

\* What holds of the template: what has been in force may be published, and the
\* version in force is the template's current one. Before the first publication
\* version 1 is the draft.
TemplateTells ==
  /\ \A n \in Numbers: Issued(n) => formVersions[n].schema \in Valid
  /\ \A n \in Numbers: formVersions[n].status = "published" => n = template.current
  /\ template.current # 0 => formVersions[template.current].status = "published"
  /\ template.current = 0 => formVersions[1].status = "draft"

\* What holds of a submission from the moment its form is on the screen: its
\* version has been in force and still asks what the screen does.
FillingTells(x) ==
  filling[x].stage # "blank" =>
    /\ filling[x].version \in Numbers
    /\ Issued(filling[x].version)
    /\ filling[x].asked = formVersions[filling[x].version].schema

\* The inductive invariant.
FormInv ==
  /\ FormTypeOK
  /\ TemplateTells
  /\ \A x \in Submissions:
       /\ FillingTells(x)
       /\ filling[x].stage = "submitted" => evidence[x].version = filling[x].version

\* The numbers of versions.
LEMMA VersionNumbers ==
  /\ 1 \in Numbers /\ 0 \notin Numbers
  /\ Numbers \subseteq 0..MaxFormVersions
  /\ \A n \in 0..MaxFormVersions: n # 0 => n \in Numbers
BY FormBoundsAssumption DEF Numbers

\* What has been in force stays as it is, but for being superseded: the
\* submissions tell of it what they told.
LEMMA IssuedStays ==
  ASSUME FormInv, FormTypeOK', TemplateTells', UNCHANGED <<filling, evidence>>,
         \A n \in Numbers: Issued(n) =>
           Issued(n)' /\ formVersions'[n].schema = formVersions[n].schema
  PROVE  FormInv'
<1>1. ASSUME NEW x \in Submissions PROVE FillingTells(x)'
  BY DEF FormInv, FillingTells
<1>. QED BY <1>1 DEF FormInv

\* Editing the draft, publishing, revising and archiving.
LEMMA TemplateKeeps ==
  ASSUME FormInv, SaveFormDraft \/ PublishVersion \/ StartFormRevision \/ SetTemplateStatus
  PROVE  FormInv'
<1>0. /\ template \in [archived: BOOLEAN, current: 0..MaxFormVersions]
      /\ formVersions \in [Numbers -> VersionRows]
  BY DEF FormInv, FormTypeOK
<1>1. CASE SaveFormDraft
  <2>1. PICK n \in Numbers, s \in Schemas:
          /\ formVersions[n].status = "draft"
          /\ formVersions' = [formVersions EXCEPT ![n] = [@ EXCEPT !.schema = s]]
          /\ UNCHANGED <<template, filling, evidence>>
    BY <1>1 DEF SaveFormDraft, Editable
  <2>2. formVersions[n] \in VersionRows
    BY <1>0
  <2>3. /\ [formVersions[n] EXCEPT !.schema = s] \in VersionRows
        /\ [formVersions[n] EXCEPT !.schema = s].status = "draft"
    BY <2>1, <2>2 DEF VersionRows
  <2>4. /\ formVersions'[n] \in VersionRows /\ formVersions'[n].status = "draft"
        /\ \A m \in Numbers \ {n}: formVersions'[m] = formVersions[m]
        /\ formVersions' \in [Numbers -> VersionRows]
    BY <1>0, <2>1, <2>3
  <2>5. FormTypeOK'
    BY <2>1, <2>4 DEF FormInv, FormTypeOK
  <2>6. TemplateTells'
    BY <2>1, <2>4, VersionNumbers DEF FormInv, TemplateTells, Issued
  <2>7. \A m \in Numbers: Issued(m) =>
          Issued(m)' /\ formVersions'[m].schema = formVersions[m].schema
    BY <2>1, <2>4 DEF Issued
  <2>. QED BY <2>1, <2>5, <2>6, <2>7, IssuedStays
<1>2. CASE PublishVersion
  <2>1. PICK n \in Numbers:
          /\ formVersions[n].status = "draft"
          /\ formVersions[n].schema \in Valid
          /\ formVersions' = [m \in Numbers |->
               IF m = n THEN [formVersions[m] EXCEPT !.status = "published"]
               ELSE IF m = template.current /\ formVersions[m].status = "published"
               THEN [formVersions[m] EXCEPT !.status = "superseded"] ELSE formVersions[m]]
          /\ template' = [template EXCEPT !.current = n]
          /\ UNCHANGED <<filling, evidence>>
    BY <1>2 DEF PublishVersion
  <2>2. ASSUME NEW m \in Numbers, NEW st \in {"published", "superseded"}
        PROVE  LET row == [formVersions[m] EXCEPT !.status = st] IN
               row \in VersionRows /\ row.status = st /\ row.schema = formVersions[m].schema
    <3>1. formVersions[m] \in VersionRows
      BY <1>0
    <3>. QED BY <3>1 DEF VersionRows
  <2>3. /\ formVersions'[n].status = "published"
        /\ \A m \in Numbers:
             /\ formVersions'[m] \in VersionRows
             /\ formVersions'[m].schema = formVersions[m].schema
             /\ m # n => \/ formVersions'[m].status = formVersions[m].status /\
                              ~(m = template.current /\ formVersions[m].status = "published")
                         \/ /\ formVersions[m].status = "published"
                            /\ formVersions'[m].status = "superseded"
    BY <1>0, <2>1, <2>2
  <2>4. /\ template' \in [archived: BOOLEAN, current: 0..MaxFormVersions]
        /\ template'.current = n
    BY <1>0, <2>1, VersionNumbers
  <2>5. FormTypeOK'
    BY <2>1, <2>3, <2>4 DEF FormInv, FormTypeOK
  <2>6. TemplateTells'
    BY <2>1, <2>3, <2>4, VersionNumbers DEF FormInv, TemplateTells, Issued
  <2>7. \A m \in Numbers: Issued(m) =>
          Issued(m)' /\ formVersions'[m].schema = formVersions[m].schema
    BY <2>1, <2>3 DEF Issued
  <2>. QED BY <2>1, <2>5, <2>6, <2>7, IssuedStays
<1>3. CASE StartFormRevision
  <2>1. PICK n \in Numbers:
          /\ \A m \in Numbers: formVersions[m].status # "draft"
          /\ formVersions[n].status = "none"
          /\ formVersions' = [formVersions EXCEPT ![n] =
               [status |-> "draft", schema |-> formVersions[template.current].schema]]
          /\ UNCHANGED <<template, filling, evidence>>
    BY <1>3 DEF StartFormRevision
  <2>2. template.current \in Numbers
    BY <1>0, <2>1, VersionNumbers DEF FormInv, TemplateTells
  <2>3. [status |-> "draft", schema |-> formVersions[template.current].schema] \in VersionRows
    BY <1>0, <2>2 DEF VersionRows
  <2>4. /\ formVersions' \in [Numbers -> VersionRows] /\ formVersions'[n].status = "draft"
        /\ \A m \in Numbers \ {n}: formVersions'[m] = formVersions[m]
    BY <1>0, <2>1, <2>3
  <2>5. FormTypeOK'
    BY <2>1, <2>4 DEF FormInv, FormTypeOK
  <2>6. TemplateTells'
    BY <2>1, <2>2, <2>4, VersionNumbers DEF FormInv, TemplateTells, Issued
  <2>7. \A m \in Numbers: Issued(m) =>
          Issued(m)' /\ formVersions'[m].schema = formVersions[m].schema
    BY <2>1, <2>4 DEF Issued
  <2>. QED BY <2>1, <2>5, <2>6, <2>7, IssuedStays
<1>4. CASE SetTemplateStatus
  <2>1. /\ template' \in [archived: BOOLEAN, current: 0..MaxFormVersions]
        /\ template'.current = template.current
        /\ UNCHANGED <<formVersions, filling, evidence>>
    BY <1>0, <1>4 DEF SetTemplateStatus
  <2>2. FormTypeOK'
    BY <2>1 DEF FormInv, FormTypeOK
  <2>3. TemplateTells'
    BY <2>1 DEF FormInv, TemplateTells, Issued
  <2>4. \A m \in Numbers: Issued(m) =>
          Issued(m)' /\ formVersions'[m].schema = formVersions[m].schema
    BY <2>1 DEF Issued
  <2>. QED BY <2>1, <2>2, <2>3, <2>4, IssuedStays
<1>. QED BY <1>1, <1>2, <1>3, <1>4

\* A step of one submission keeps the invariant when what it leaves there tells.
LEMMA FillingMoved ==
  ASSUME FormInv, NEW x \in Submissions, NEW f \in Fillings, NEW e,
         e \in [version: 0..MaxFormVersions, corrections: 0..MaxCorrections],
         UNCHANGED <<template, formVersions>>,
         filling' = [filling EXCEPT ![x] = f],
         evidence' = [evidence EXCEPT ![x] = e],
         f.stage # "blank" =>
           /\ f.version \in Numbers
           /\ Issued(f.version)
           /\ f.asked = formVersions[f.version].schema,
         f.stage = "submitted" => e.version = f.version
  PROVE  FormInv'
<1>1. /\ filling' \in [Submissions -> Fillings] /\ filling'[x] = f
      /\ \A y \in Submissions \ {x}: filling'[y] = filling[y]
  BY DEF FormInv, FormTypeOK
<1>2. /\ evidence' \in [Submissions -> [version: 0..MaxFormVersions, corrections: 0..MaxCorrections]]
      /\ evidence'[x] = e
      /\ \A y \in Submissions \ {x}: evidence'[y] = evidence[y]
  BY DEF FormInv, FormTypeOK
<1>3. FormTypeOK'
  BY <1>1, <1>2 DEF FormInv, FormTypeOK
<1>4. TemplateTells'
  BY DEF FormInv, TemplateTells, Issued
<1>5. \A n: Issued(n)' <=> Issued(n)
  BY DEF Issued
<1>6. ASSUME NEW y \in Submissions
      PROVE  /\ FillingTells(y)'
             /\ filling'[y].stage = "submitted" => evidence'[y].version = filling'[y].version
  <2>1. CASE y = x
    BY <1>1, <1>2, <1>5, <2>1 DEF FillingTells
  <2>2. CASE y # x
    BY <1>1, <1>2, <1>5, <2>2 DEF FormInv, FillingTells
  <2>. QED BY <2>1, <2>2
<1>. QED BY <1>3, <1>4, <1>6 DEF FormInv

\* Opening, submitting, being refused and being corrected.
LEMMA SubmissionKeeps ==
  ASSUME FormInv, NEW x \in Submissions,
         OpenForm(x) \/ BeginSubmit(x) \/ SubmitForm(x) \/ RefuseForm(x) \/ AmendSubmission(x)
  PROVE  FormInv'
<1>0. /\ filling[x] \in Fillings /\ FillingTells(x)
      /\ filling[x].stage = "submitted" => evidence[x].version = filling[x].version
      /\ evidence[x] \in [version: 0..MaxFormVersions, corrections: 0..MaxCorrections]
      /\ filling = [filling EXCEPT ![x] = filling[x]]
      /\ evidence = [evidence EXCEPT ![x] = evidence[x]]
  BY DEF FormInv, FormTypeOK
<1>1. CASE OpenForm(x)
  <2> DEFINE f == [stage |-> "opened", version |-> template.current,
                   asked |-> formVersions[template.current].schema]
  <2>1. /\ template.current # 0
        /\ filling' = [filling EXCEPT ![x] = f]
        /\ UNCHANGED <<template, formVersions, evidence>>
    BY <1>1 DEF OpenForm
  <2>2. template.current \in Numbers /\ template.current \in 0..MaxFormVersions
    BY <2>1, VersionNumbers DEF FormInv, FormTypeOK
  <2>3. f \in Fillings
    BY <2>2 DEF FormInv, FormTypeOK, VersionRows, Fillings
  <2>4. Issued(template.current)
    BY <2>1, <2>2 DEF FormInv, TemplateTells, Issued
  <2>. QED BY <1>0, <2>1, <2>2, <2>3, <2>4, FillingMoved
<1>2. CASE BeginSubmit(x)
  <2> DEFINE f == [filling[x] EXCEPT !.stage = "sent", !.version = template.current]
  <2>1. /\ filling[x].stage = "opened" /\ filling[x].version = template.current
        /\ filling' = [filling EXCEPT ![x] = f]
        /\ UNCHANGED <<template, formVersions, evidence>>
    BY <1>2 DEF BeginSubmit, InForce
  <2>2. /\ f \in Fillings /\ f.stage = "sent"
        /\ f.version = filling[x].version /\ f.asked = filling[x].asked
    BY <1>0, <2>1 DEF Fillings
  <2> HIDE DEF f
  <2>. QED BY <1>0, <2>1, <2>2, FillingMoved DEF FillingTells
<1>3. CASE SubmitForm(x)
  <2> DEFINE f == [filling[x] EXCEPT !.stage = "submitted"]
             e == [evidence[x] EXCEPT !.version = filling[x].version]
  <2>1. /\ filling[x].stage = "sent"
        /\ filling' = [filling EXCEPT ![x] = f]
        /\ evidence' = [evidence EXCEPT ![x] = e]
        /\ UNCHANGED <<template, formVersions>>
    BY <1>3 DEF SubmitForm
  <2>2. /\ f \in Fillings /\ f.stage = "submitted"
        /\ f.version = filling[x].version /\ f.asked = filling[x].asked
        /\ filling[x].version \in 0..MaxFormVersions
    BY <1>0 DEF Fillings
  <2>3. /\ e \in [version: 0..MaxFormVersions, corrections: 0..MaxCorrections]
        /\ e.version = filling[x].version
    BY <1>0, <2>2
  <2> HIDE DEF f, e
  <2>. QED BY <1>0, <2>1, <2>2, <2>3, FillingMoved DEF FillingTells
<1>4. CASE RefuseForm(x)
  <2> DEFINE f == [filling[x] EXCEPT !.stage = "blank"]
  <2>1. /\ filling' = [filling EXCEPT ![x] = f]
        /\ UNCHANGED <<template, formVersions, evidence>>
    BY <1>4 DEF RefuseForm
  <2>2. f \in Fillings /\ f.stage = "blank"
    BY <1>0 DEF Fillings
  <2> HIDE DEF f
  <2>. QED BY <1>0, <2>1, <2>2, FillingMoved
<1>5. CASE AmendSubmission(x)
  <2> DEFINE e == [evidence[x] EXCEPT !.corrections = evidence[x].corrections + 1]
  <2>1. /\ evidence[x].corrections < MaxCorrections
        /\ evidence' = [evidence EXCEPT ![x] = e]
        /\ UNCHANGED <<template, formVersions, filling>>
    BY <1>5 DEF AmendSubmission
  <2>2. /\ e \in [version: 0..MaxFormVersions, corrections: 0..MaxCorrections]
        /\ e.version = evidence[x].version
    BY <1>0, <2>1, FormBoundsAssumption
  <2> HIDE DEF e
  <2>. QED BY <1>0, <2>1, <2>2, FillingMoved DEF FillingTells
<1>. QED BY <1>1, <1>2, <1>3, <1>4, <1>5

\* The invariant holds in every state.
LEMMA FormInvariant == FormSpec => []FormInv
<1>1. FormInit => FormInv
  <2> SUFFICES ASSUME FormInit PROVE FormInv
    OBVIOUS
  <2>1. PICK s \in Schemas: formVersions =
          [n \in Numbers |-> [status |-> IF n = 1 THEN "draft" ELSE "none", schema |-> s]]
    BY DEF FormInit
  <2>2. /\ formVersions \in [Numbers -> VersionRows]
        /\ formVersions[1] = [status |-> "draft", schema |-> s]
        /\ \A n \in Numbers: formVersions[n].status \in {"draft", "none"}
    BY <2>1, VersionNumbers DEF VersionRows
  <2>3. filling = [x \in Submissions |-> [stage |-> "blank", version |-> 0, asked |-> s]]
    BY <2>2 DEF FormInit
  <2>4. filling \in [Submissions -> Fillings] /\ \A x \in Submissions: filling[x].stage = "blank"
    BY <2>3, FormBoundsAssumption DEF Fillings
  <2>5. FormTypeOK
    BY <2>2, <2>4, FormBoundsAssumption DEF FormInit, FormTypeOK
  <2>6. TemplateTells
    BY <2>2 DEF FormInit, TemplateTells, Issued
  <2>. QED BY <2>4, <2>5, <2>6 DEF FormInv, FillingTells
<1>2. FormInv /\ [FormNext]_formVars => FormInv'
  <2> SUFFICES ASSUME FormInv, [FormNext]_formVars
               PROVE  FormInv'
    OBVIOUS
  <2>1. CASE UNCHANGED formVars
    BY <2>1 DEF formVars, FormInv, FormTypeOK, TemplateTells, FillingTells, Issued
  <2>. QED BY <2>1, TemplateKeeps, SubmissionKeeps DEF FormNext
<1>. QED BY <1>1, <1>2, PTL DEF FormSpec

\* Every state of the forms has the declared types.
THEOREM FormTypeCorrect == FormSpec => []FormTypeOK
<1>1. FormInv => FormTypeOK
  BY DEF FormInv
<1>. QED BY <1>1, FormInvariant, PTL

\* Submitted evidence reads as it was given, whatever is edited, published or
\* archived while the request is under way and after; one version at most is in
\* force.
THEOREM EvidenceStaysReadable == FormSpec => []EvidenceReadsAsGiven
<1>1. FormInv => EvidenceReadsAsGiven
  BY DEF FormInv, TemplateTells, FillingTells, Issued, EvidenceReadsAsGiven
<1>. QED BY <1>1, FormInvariant, PTL

-----------------------------------------------------------------------------
(* Projects: what holds a closure up was written unseen by it.             *)

\* What holds a closure up.
UndecidedVariations == {v \in Variations: variations[v] \in {"draft", "submitted"}}

\* All of it: variations and closeout items.
Unfinished == UndecidedVariations \cup Outstanding(Closeout)

\* From the moment a closure is decided on, what would hold it up was written
\* unseen by it.
ClosureTells == "closed" \in {stage, moving} => Unfinished \subseteq unseen

\* A project leaves setup, and decides to, on its one baseline.
BaselineTells ==
  /\ baselines \in {0, 1}
  /\ stage # "setup" => baselines = 1
  /\ moving \notin {"none", "setup"} => baselines = 1

\* The inductive invariant: who holds a record has found the project open.
ProjectInv ==
  /\ ProjectTypeOK
  /\ ClosureTells
  /\ BaselineTells
  /\ \A w \in Writers: writing[w].record # Nothing => writing[w].open

\* What the closure reads.
LEMMA UnfinishedRead ==
  /\ \A x: x \in UndecidedVariations <=> x \in Variations /\ variations[x] \in {"draft", "submitted"}
  /\ \A x: x \in Outstanding(Closeout) <=>
       x \in Closeout /\ checklist[x].mandatory /\ checklist[x].status = "open"
BY DEF UndecidedVariations, Outstanding

\* A register request keeps the invariant: what it writes once a closure is
\* decided on, it writes unseen.
LEMMA WriteKeepsClosure ==
  ASSUME ProjectInv, NEW w \in Writers, writing[w].record # Nothing, Written(w),
         ProjectTypeOK', UNCHANGED <<stage, moving, baselines>>,
         \A v \in Variations: v # writing[w].record => variations'[v] = variations[v],
         \A i \in Items: i # writing[w].record => checklist'[i] = checklist[i]
  PROVE  ProjectInv'
<1>1. writing[w].open
  BY DEF ProjectInv
<1>2. /\ writing' = [writing EXCEPT ![w] = NoWriting]
      /\ unseen' = IF "closed" \in {stage, moving} THEN unseen \cup {writing[w].record} ELSE unseen
  BY <1>1 DEF Written
<1>3. Closeout \subseteq Items
  BY DEF Items
<1>4. ClosureTells'
  <2>1. SUFFICES ASSUME "closed" \in {stage, moving}, NEW x \in Unfinished', x # writing[w].record
                 PROVE  x \in unseen
    BY <1>2 DEF ClosureTells
  <2>2. x \in Unfinished
    BY <1>3, <2>1 DEF Unfinished, UndecidedVariations, Outstanding
  <2>. QED BY <2>1, <2>2 DEF ProjectInv, ClosureTells
<1>5. BaselineTells'
  BY DEF ProjectInv, BaselineTells
<1>6. \A o \in Writers: writing'[o].record # Nothing => writing'[o].open
  BY <1>2 DEF ProjectInv, ProjectTypeOK, NoWriting
<1>. QED BY <1>4, <1>5, <1>6 DEF ProjectInv

\* The writes of a request keep the types.
LEMMA WrittenTypes ==
  ASSUME ProjectInv, NEW w \in Writers, Written(w)
  PROVE  /\ writing' \in [Writers -> [record: RegisterRecords \cup {Nothing}, open: BOOLEAN]]
         /\ writing[w].record # Nothing => unseen' \subseteq RegisterRecords
<1>1. NoWriting \in [record: RegisterRecords \cup {Nothing}, open: BOOLEAN]
  BY DEF NoWriting
<1>2. writing[w] \in [record: RegisterRecords \cup {Nothing}, open: BOOLEAN]
  BY DEF ProjectInv, ProjectTypeOK
<1>. QED BY <1>1, <1>2 DEF ProjectInv, ProjectTypeOK, Written

\* The requests of the registers.
LEMMA WriterKeeps ==
  ASSUME ProjectInv, NEW w \in Writers,
         BeginWrite(w) \/ WriteVariation(w) \/ WriteItem(w) \/ AbandonWrite(w)
  PROVE  ProjectInv'
<1>1. CASE BeginWrite(w)
  <2>1. PICK r \in RegisterRecords:
          /\ stage # "closed"
          /\ writing' = [writing EXCEPT ![w] = [record |-> r, open |-> stage # "closed"]]
          /\ UNCHANGED <<stage, moving, baselines, variations, checklist, unseen>>
    BY <1>1 DEF BeginWrite, OpenForWrite
  <2>2. writing' = [writing EXCEPT ![w] = [record |-> r, open |-> TRUE]]
    <3>1. (stage # "closed") = TRUE
      BY <2>1
    <3>. QED BY <2>1, <3>1
  <2>3. [record |-> r, open |-> TRUE] \in [record: RegisterRecords \cup {Nothing}, open: BOOLEAN]
    OBVIOUS
  <2>4. ProjectTypeOK'
    BY <2>1, <2>2, <2>3 DEF ProjectInv, ProjectTypeOK
  <2>5. ClosureTells' /\ BaselineTells'
    BY <2>1 DEF ProjectInv, ClosureTells, BaselineTells, Unfinished, UndecidedVariations, Outstanding
  <2>6. \A o \in Writers: writing'[o].record # Nothing => writing'[o].open
    BY <2>2 DEF ProjectInv, ProjectTypeOK
  <2>. QED BY <2>4, <2>5, <2>6 DEF ProjectInv
<1>2. CASE WriteVariation(w)
  <2>1. PICK to \in VariationStatuses:
          /\ writing[w].record \in Variations
          /\ variations' = [variations EXCEPT ![writing[w].record] = to]
          /\ Written(w)
          /\ UNCHANGED <<stage, moving, baselines, checklist>>
    BY <1>2 DEF WriteVariation
  <2>2. writing[w].record # Nothing
    BY <2>1, NothingAssumption DEF RegisterRecords
  <2>3. ProjectTypeOK'
    BY <2>1, <2>2, WrittenTypes DEF ProjectInv, ProjectTypeOK
  <2>4. \A v \in Variations: v # writing[w].record => variations'[v] = variations[v]
    BY <2>1 DEF ProjectInv, ProjectTypeOK
  <2>. QED BY <2>1, <2>2, <2>3, <2>4, WriteKeepsClosure
<1>3. CASE WriteItem(w)
  <2>0. PICK i: i = writing[w].record
    OBVIOUS
  <2>1. /\ i \in Items
        /\ Written(w)
        /\ UNCHANGED <<stage, moving, baselines, variations>>
    BY <1>3, <2>0 DEF WriteItem
  <2>2. writing[w].record # Nothing
    BY <2>0, <2>1, NothingAssumption DEF RegisterRecords
  <2>3. checklist[i] \in ItemRows
    BY <2>1 DEF ProjectInv, ProjectTypeOK
  <2>4. PICK row \in ItemRows: checklist' = [checklist EXCEPT ![i] = row]
    <3>1. ASSUME NEW m \in BOOLEAN
          PROVE  [status |-> "open", mandatory |-> m] \in ItemRows
      BY DEF ItemRows
    <3>2. [checklist[i] EXCEPT !.mandatory = ~checklist[i].mandatory] \in ItemRows
      BY <2>3 DEF ItemRows
    <3>3. ASSUME NEW to \in {"none", "open", "complete", "not_applicable"}
          PROVE  [checklist[i] EXCEPT !.status = to] \in ItemRows
      BY <2>3 DEF ItemRows
    <3>4. \/ \E m \in BOOLEAN: checklist' = [checklist EXCEPT ![i] = [status |-> "open", mandatory |-> m]]
          \/ checklist' = [checklist EXCEPT ![i] =
               [checklist[i] EXCEPT !.mandatory = ~checklist[i].mandatory]]
          \/ \E to \in {"none", "open", "complete", "not_applicable"}:
               checklist' = [checklist EXCEPT ![i] = [checklist[i] EXCEPT !.status = to]]
      BY <1>3, <2>0 DEF WriteItem
    <3>5. CASE \E m \in BOOLEAN: checklist' = [checklist EXCEPT ![i] = [status |-> "open", mandatory |-> m]]
      BY <3>1, <3>5
    <3>6. CASE checklist' = [checklist EXCEPT ![i] =
                 [checklist[i] EXCEPT !.mandatory = ~checklist[i].mandatory]]
      BY <3>2, <3>6
    <3>7. CASE \E to \in {"none", "open", "complete", "not_applicable"}:
                 checklist' = [checklist EXCEPT ![i] = [checklist[i] EXCEPT !.status = to]]
      BY <3>3, <3>7
    <3>. QED BY <3>4, <3>5, <3>6, <3>7
  <2>5. /\ checklist' \in [Items -> ItemRows]
        /\ \A j \in Items: j # i => checklist'[j] = checklist[j]
    BY <2>1, <2>4 DEF ProjectInv, ProjectTypeOK
  <2>6. ProjectTypeOK'
    BY <2>1, <2>2, <2>5, WrittenTypes DEF ProjectInv, ProjectTypeOK
  <2>. QED BY <2>0, <2>1, <2>2, <2>5, <2>6, WriteKeepsClosure
<1>4. CASE AbandonWrite(w)
  <2>1. NoWriting \in [record: RegisterRecords \cup {Nothing}, open: BOOLEAN]
    BY DEF NoWriting
  <2>2. ProjectTypeOK'
    BY <1>4, <2>1 DEF AbandonWrite, ProjectInv, ProjectTypeOK
  <2>3. ClosureTells' /\ BaselineTells'
    BY <1>4 DEF AbandonWrite, ProjectInv, ClosureTells, BaselineTells, Unfinished, UndecidedVariations,
                Outstanding
  <2>4. \A o \in Writers: writing'[o].record # Nothing => writing'[o].open
    BY <1>4 DEF AbandonWrite, ProjectInv, ProjectTypeOK, NoWriting
  <2>. QED BY <2>2, <2>3, <2>4 DEF ProjectInv
<1>. QED BY <1>1, <1>2, <1>3, <1>4

\* The stage and the baseline.
LEMMA StageKeeps ==
  ASSUME ProjectInv,
         BeginProjectMove \/ EndProjectMove \/ AbandonProjectMove \/ RecordManualBaseline
  PROVE  ProjectInv'
<1>1. CASE BeginProjectMove
  <2>1. PICK to \in Stages:
          /\ <<stage, to>> \in ProjectEdges
          /\ <<stage, to>> = <<"setup", "ready">> => ReadyToMobilise
          /\ to = "closed" => Closeable
          /\ moving = "none" /\ moving' = to
          /\ UNCHANGED <<stage, baselines, variations, checklist, writing, unseen>>
    BY <1>1 DEF BeginProjectMove
  <2>2. ProjectTypeOK'
    BY <2>1 DEF ProjectInv, ProjectTypeOK
  <2>3. ClosureTells'
    <3>1. CASE to = "closed"
      <4>1. Unfinished = {}
        BY <2>1, <3>1, UnfinishedRead DEF Closeable, Unfinished
      <4>2. Unfinished' = Unfinished
        BY <2>1 DEF Unfinished, UndecidedVariations, Outstanding
      <4>. QED BY <4>1, <4>2 DEF ClosureTells
    <3>2. CASE to # "closed"
      BY <2>1, <3>2 DEF ProjectInv, ClosureTells, Unfinished, UndecidedVariations, Outstanding
    <3>. QED BY <3>1, <3>2
  <2>4. BaselineTells'
    <3>1. stage = "setup" => to = "ready"
      BY <2>1 DEF ProjectEdges
    <3>2. stage = "setup" => baselines = 1
      BY <2>1, <3>1 DEF ReadyToMobilise, ProjectInv, BaselineTells
    <3>. QED BY <2>1, <3>2 DEF ProjectInv, BaselineTells
  <2>. QED BY <2>1, <2>2, <2>3, <2>4 DEF ProjectInv
<1>2. CASE EndProjectMove
  <2>1. /\ moving # "none"
        /\ checklist' = [i \in Items |->
             IF moving = "closeout" /\ i \in Defaults /\ checklist[i].status = "none"
             THEN [status |-> "open", mandatory |-> TRUE] ELSE checklist[i]]
        /\ stage' = moving /\ moving' = "none"
        /\ unseen' = IF moving = "closed" THEN unseen ELSE {}
        /\ UNCHANGED <<baselines, variations, writing>>
    BY <1>2 DEF EndProjectMove
  <2>2. checklist' \in [Items -> ItemRows]
    <3>1. [status |-> "open", mandatory |-> TRUE] \in ItemRows
      BY DEF ItemRows
    <3>. QED BY <2>1, <3>1 DEF ProjectInv, ProjectTypeOK
  <2>3. ProjectTypeOK'
    <3>1. stage' \in Stages /\ moving' \in Stages \cup {"none"} /\ unseen' \subseteq RegisterRecords
      BY <2>1 DEF ProjectInv, ProjectTypeOK
    <3>. QED BY <2>1, <2>2, <3>1 DEF ProjectInv, ProjectTypeOK
  <2>4. ClosureTells'
    <3>1. SUFFICES ASSUME moving = "closed" PROVE Unfinished' \subseteq unseen'
      BY <2>1 DEF ClosureTells
    <3>2. \A i \in Items: checklist'[i] = checklist[i]
      BY <2>1, <3>1
    <3>3. Closeout \subseteq Items
      BY DEF Items
    <3>4. Unfinished' = Unfinished
      BY <2>1, <3>2, <3>3 DEF Unfinished, UndecidedVariations, Outstanding
    <3>. QED BY <2>1, <3>1, <3>4 DEF ProjectInv, ClosureTells
  <2>5. BaselineTells'
    BY <2>1 DEF ProjectInv, BaselineTells
  <2>. QED BY <2>1, <2>3, <2>4, <2>5 DEF ProjectInv
<1>3. CASE AbandonProjectMove
  <2>1. /\ moving' = "none"
        /\ unseen' = IF stage = "closed" THEN unseen ELSE {}
        /\ UNCHANGED <<stage, baselines, variations, checklist, writing>>
    BY <1>3 DEF AbandonProjectMove
  <2>2. ProjectTypeOK'
    BY <2>1 DEF ProjectInv, ProjectTypeOK
  <2>3. ClosureTells' /\ BaselineTells'
    BY <2>1 DEF ProjectInv, ClosureTells, BaselineTells, Unfinished, UndecidedVariations, Outstanding
  <2>. QED BY <2>1, <2>2, <2>3 DEF ProjectInv
<1>4. CASE RecordManualBaseline
  <2>1. /\ moving = "none" /\ baselines' = 1
        /\ UNCHANGED <<stage, moving, variations, checklist, writing, unseen>>
    BY <1>4 DEF RecordManualBaseline
  <2>2. ProjectTypeOK'
    BY <2>1 DEF ProjectInv, ProjectTypeOK
  <2>3. ClosureTells' /\ BaselineTells'
    BY <2>1 DEF ProjectInv, ClosureTells, BaselineTells, Unfinished, UndecidedVariations, Outstanding
  <2>. QED BY <2>1, <2>2, <2>3 DEF ProjectInv
<1>. QED BY <1>1, <1>2, <1>3, <1>4

\* The invariant holds in every state.
LEMMA ProjectInvariant == ProjectSpec => []ProjectInv
<1>1. ProjectInit => ProjectInv
  <2> SUFFICES ASSUME ProjectInit PROVE ProjectInv
    OBVIOUS
  <2>1. /\ variations \in [Variations -> VariationStatuses]
        /\ checklist \in [Items -> ItemRows]
        /\ writing \in [Writers -> [record: RegisterRecords \cup {Nothing}, open: BOOLEAN]]
    BY DEF ProjectInit, VariationStatuses, ItemRows, NoWriting
  <2>2. ProjectTypeOK
    BY <2>1 DEF ProjectInit, ProjectTypeOK, Stages
  <2>. QED BY <2>2 DEF ProjectInit, ProjectInv, ClosureTells, BaselineTells, NoWriting
<1>2. ProjectInv /\ [ProjectNext]_projectVars => ProjectInv'
  <2> SUFFICES ASSUME ProjectInv, [ProjectNext]_projectVars
               PROVE  ProjectInv'
    OBVIOUS
  <2>1. CASE UNCHANGED projectVars
    BY <2>1 DEF projectVars, ProjectInv, ProjectTypeOK, ClosureTells, BaselineTells, Unfinished,
                UndecidedVariations, Outstanding
  <2>. QED BY <2>1, WriterKeeps, StageKeeps DEF ProjectNext
<1>. QED BY <1>1, <1>2, PTL DEF ProjectSpec

\* Every state of the project has the declared types.
THEOREM ProjectTypeCorrect == ProjectSpec => []ProjectTypeOK
<1>1. ProjectInv => ProjectTypeOK
  BY DEF ProjectInv
<1>. QED BY <1>1, ProjectInvariant, PTL

\* However often it was reopened, a closed project has every variation decided
\* and every mandatory closeout item done, but for what was written unseen by the
\* closure; and it left setup on one baseline.
THEOREM ClosureIsFinal == ProjectSpec => []ClosedProjectIsFinished
<1>1. ProjectInv => ClosedProjectIsFinished
  BY UnfinishedRead DEF ProjectInv, ClosureTells, BaselineTells, Unfinished, ClosedProjectIsFinished
<1>. QED BY <1>1, ProjectInvariant, PTL

-----------------------------------------------------------------------------
(* Clients: what an edit has looked up holds until a merge or a deletion   *)
(* overtakes it; of a client's contacts one is marked primary, archived or *)
(* not.                                                                    *)

\* What a record, or an edit of it, says is right: its client is there and its
\* contact is that client's.
Tells(row) ==
  row.client # Nobody =>
    /\ clients[row.client] = "live"
    /\ row.contact # Nobody => contacts[row.contact].client = row.client

\* A merge has two different clients, which are there until it ends.
MergeTells ==
  merge # NoMerge =>
    /\ merge.keep \in Clients /\ merge.drop \in Clients /\ merge.keep # merge.drop
    /\ clients[merge.keep] = "live" /\ clients[merge.drop] = "live"

\* One contact of a client at most is marked primary, archived or not.
OneMarked(c) ==
  \A k, l \in Contacts:
    /\ contacts[k].client = c /\ contacts[k].primary
    /\ contacts[l].client = c /\ contacts[l].primary
    => k = l

\* The inductive invariant.
ClientInv ==
  /\ ClientTypeOK
  /\ MergeTells
  /\ \A r \in Files \ stray: Tells(naming[r])
  /\ \A r \in Files: picks[r].stage = "looked" => Tells(picks[r].row)
  /\ \A c \in Clients \ muddled: OneMarked(c)

\* The rows there are.
LEMMA ClientRows ==
  ASSUME ClientInv
  PROVE  /\ \A k \in Contacts: contacts[k] \in ContactRows
         /\ \A r \in Files: naming[r] \in FileRows /\ picks[r] \in Picks /\ picks[r].row \in FileRows
         /\ merge.keep \in Clients \cup {Nobody} /\ merge.drop \in Clients \cup {Nobody}
         /\ NoMerge.keep = Nobody /\ NoMerge.drop = Nobody
         /\ NoPick \in Picks /\ NoPick.stage = "none"
BY DEF ClientInv, ClientTypeOK, Picks, NoMerge, NoPick, FileRows, NewFile

\* Contacts that keep their client keep what is told of them.
LEMMA ContactsTell ==
  ASSUME ClientInv, ClientTypeOK', UNCHANGED <<clients, naming, picks, merge, stray>>,
         \A k \in Contacts: contacts[k].client # Nobody => contacts'[k].client = contacts[k].client,
         \A c \in Clients \ muddled': OneMarked(c)'
  PROVE  ClientInv'
<1>1. ASSUME NEW row \in FileRows, Tells(row) PROVE Tells(row)'
  BY <1>1 DEF Tells, FileRows
<1>2. \A r \in Files: naming[r] \in FileRows /\ picks[r].row \in FileRows
  BY ClientRows
<1>3. MergeTells'
  BY DEF ClientInv, MergeTells
<1>. QED BY <1>1, <1>2, <1>3 DEF ClientInv

\* A contact is written, alone or as the one primary of its client.
LEMMA PromotedKeeps ==
  ASSUME ClientInv, NEW c \in Clients, NEW k \in Contacts, NEW row \in ContactRows,
         row.client = c, contacts[k].client \in {c, Nobody},
         UNCHANGED <<clients, naming, picks, merge, stray>>,
         \/ contacts' = Promoted(c, k, row) /\ muddled' = IF row.primary THEN muddled \ {c} ELSE muddled
         \/ /\ contacts' = [contacts EXCEPT ![k] = row] /\ muddled' = muddled
            /\ row.primary => contacts[k].client = c /\ contacts[k].primary
  PROVE  ClientInv'
<1>0. contacts \in [Contacts -> ContactRows]
  BY DEF ClientInv, ClientTypeOK
<1>1. /\ contacts' \in [Contacts -> ContactRows]
      /\ contacts'[k] = row
      /\ \A l \in Contacts \ {k}:
           /\ contacts'[l].client = contacts[l].client
           /\ contacts'[l].primary => contacts[l].primary
  <2>1. \A l \in Contacts:
          LET other == [contacts[l] EXCEPT !.primary = FALSE] IN
          other \in ContactRows /\ other.client = contacts[l].client /\ other.primary = FALSE
    BY <1>0 DEF ContactRows
  <2>2. CASE contacts' = Promoted(c, k, row)
    BY <1>0, <2>1, <2>2 DEF Promoted
  <2>3. CASE contacts' = [contacts EXCEPT ![k] = row]
    BY <1>0, <2>3
  <2>. QED BY <2>2, <2>3
<1>2. ClientTypeOK'
  BY <1>1 DEF ClientInv, ClientTypeOK
<1>3. ASSUME NEW d \in Clients \ muddled', d # c PROVE OneMarked(d)'
  <2>1. d \notin muddled
    BY <1>3
  <2>2. \A l \in Contacts: contacts'[l].client = d /\ contacts'[l].primary =>
          contacts[l].client = d /\ contacts[l].primary
    BY <1>1, <1>3
  <2>. QED BY <2>1, <2>2 DEF ClientInv, OneMarked
<1>4. ASSUME c \notin muddled' PROVE OneMarked(c)'
  <2>1. CASE contacts' = Promoted(c, k, row) /\ row.primary
    <3>1. \A l \in Contacts \ {k}: contacts[l].client = c => contacts'[l].primary = FALSE
      BY <1>0, <2>1 DEF Promoted, ContactRows
    <3>. QED BY <1>1, <3>1 DEF OneMarked
  <2>2. CASE ~(contacts' = Promoted(c, k, row) /\ row.primary)
    <3>1. /\ c \notin muddled
          /\ row.primary => contacts[k].client = c /\ contacts[k].primary
      BY <1>4, <2>2
    <3>2. \A l \in Contacts: contacts'[l].client = c /\ contacts'[l].primary =>
            contacts[l].client = c /\ contacts[l].primary
      BY <1>1, <3>1
    <3>. QED BY <3>1, <3>2 DEF ClientInv, OneMarked
  <2>. QED BY <2>1, <2>2
<1>5. \A d \in Clients \ muddled': OneMarked(d)'
  BY <1>3, <1>4
<1>6. \A l \in Contacts: contacts[l].client # Nobody => contacts'[l].client = contacts[l].client
  BY <1>1
<1>. QED BY <1>2, <1>5, <1>6, ContactsTell

\* Adding and editing contacts.
LEMMA ContactKeeps ==
  ASSUME ClientInv, NEW k \in Contacts, UpdateContact(k) \/ \E c \in Clients: AddContact(c, k)
  PROVE  ClientInv'
<1>1. ASSUME NEW c \in Clients, AddContact(c, k) PROVE ClientInv'
  <2>1. PICK primary \in BOOLEAN:
          /\ contacts[k].client = Nobody
          /\ contacts' = Promoted(c, k, [client |-> c, active |-> TRUE, primary |-> primary])
          /\ muddled' = IF primary THEN muddled \ {c} ELSE muddled
          /\ UNCHANGED <<clients, naming, picks, merge, stray>>
    BY <1>1 DEF AddContact
  <2>2. [client |-> c, active |-> TRUE, primary |-> primary] \in ContactRows
    BY DEF ContactRows
  <2>. QED BY <2>1, <2>2, PromotedKeeps
<1>2. CASE UpdateContact(k)
  <2>1. PICK active \in BOOLEAN, primary \in BOOLEAN, chosen \in BOOLEAN, c \in Clients,
             row \in ContactRows:
          /\ c = contacts[k].client
          /\ row.client = c /\ row.primary = primary
          /\ ~chosen => primary = contacts[k].primary
          /\ contacts' = IF chosen THEN Promoted(c, k, row) ELSE [contacts EXCEPT ![k] = row]
          /\ muddled' = IF chosen /\ primary THEN muddled \ {c} ELSE muddled
          /\ UNCHANGED <<clients, naming, picks, merge, stray>>
    <3>1. PICK active \in BOOLEAN, primary \in BOOLEAN, chosen \in BOOLEAN:
            LET row == [contacts[k] EXCEPT !.active = active, !.primary = primary]
                c == contacts[k].client
            IN /\ ~chosen => primary = contacts[k].primary
               /\ contacts' = IF chosen THEN Promoted(c, k, row) ELSE [contacts EXCEPT ![k] = row]
               /\ muddled' = IF chosen /\ primary THEN muddled \ {c} ELSE muddled
      BY <1>2 DEF UpdateContact
    <3>2. /\ contacts[k].client # Nobody
          /\ UNCHANGED <<clients, naming, picks, merge, stray>>
      BY <1>2 DEF UpdateContact
    <3>3. contacts[k] \in ContactRows /\ contacts[k].client \in Clients
      BY <3>2, ClientRows DEF ContactRows
    <3>4. LET row == [contacts[k] EXCEPT !.active = active, !.primary = primary] IN
          row \in ContactRows /\ row.client = contacts[k].client /\ row.primary = primary
      BY <3>3 DEF ContactRows
    <3>. QED BY <3>1, <3>2, <3>3, <3>4
  <2>2. CASE chosen
    BY <2>1, <2>2, PromotedKeeps
  <2>3. CASE ~chosen
    BY <2>1, <2>3, PromotedKeeps
  <2>. QED BY <2>2, <2>3
<1>. QED BY <1>1, <1>2

\* A client that comes or goes.
LEMMA ClientKeeps ==
  ASSUME ClientInv, NEW c \in Clients, CreateClient(c) \/ DeleteClient(c)
  PROVE  ClientInv'
<1>1. PICK s \in {"live", "gone"}:
        /\ clients' = [clients EXCEPT ![c] = s]
        /\ s = "live" => clients[c] = "none" /\ picks' = picks
        /\ s = "gone" =>
             /\ ~Locked(c) /\ NamedBy(c) = {}
             /\ picks' = [r \in Files |->
                  IF picks[r].stage = "looked" /\ picks[r].row.client = c
                  THEN [picks[r] EXCEPT !.stage = "overtaken"] ELSE picks[r]]
        /\ UNCHANGED <<contacts, naming, merge, stray, muddled>>
  BY DEF CreateClient, DeleteClient
<1>2. /\ clients' \in [Clients -> {"none", "live", "merged", "gone"}]
      /\ clients'[c] = s
      /\ \A d \in Clients \ {c}: clients'[d] = clients[d]
  BY <1>1 DEF ClientInv, ClientTypeOK
<1>3. ASSUME NEW r \in Files
      PROVE  /\ picks'[r] \in Picks
             /\ picks'[r].stage = "looked" =>
                  picks'[r] = picks[r] /\ (s = "gone" => picks[r].row.client # c)
  BY <1>1, ClientRows DEF Picks
<1>4. ClientTypeOK'
  BY <1>1, <1>2, <1>3 DEF ClientInv, ClientTypeOK
<1>5. MergeTells'
  BY <1>1, <1>2 DEF ClientInv, MergeTells, Locked
<1>6. ASSUME NEW row \in FileRows, Tells(row), s = "gone" => row.client # c
      PROVE  Tells(row)'
  BY <1>1, <1>2, <1>6 DEF Tells, FileRows
<1>7. \A r \in Files \ stray: Tells(naming[r])'
  <2>1. \A r \in Files: naming[r] \in FileRows /\ (s = "gone" => naming[r].client # c)
    BY <1>1, ClientRows DEF NamedBy
  <2>. QED BY <1>1, <1>6, <2>1 DEF ClientInv
<1>8. \A r \in Files: picks'[r].stage = "looked" => Tells(picks[r].row)'
  BY <1>3, <1>6, ClientRows DEF ClientInv
<1>9. \A d \in Clients \ muddled': OneMarked(d)'
  BY <1>1 DEF ClientInv, OneMarked
<1>. QED BY <1>1, <1>3, <1>4, <1>5, <1>7, <1>8, <1>9 DEF ClientInv

\* When the rule sees what there is, one contact of the kept client at most is
\* marked primary after it.
LEMMA MergedMarked ==
  ASSUME ClientInv, NEW keep \in Clients, NEW drop \in Clients,
         keep = merge.keep, drop = merge.drop, keep # drop,
         ~Unruly, contacts' = [k \in Contacts |-> Moved(k)]
  PROVE  OneMarked(keep)'
<1>1. /\ merge.primaries = Primaries(keep) \cup Primaries(drop)
      /\ \A k \in Contacts: contacts[k].client \in {keep, drop} /\ contacts[k].primary => contacts[k].active
      /\ keep \notin muddled
  BY DEF Unruly, ContactsOf
<1>2. OneMarked(keep)
  BY <1>1 DEF ClientInv
<1>3. ASSUME NEW k \in Contacts
      PROVE  /\ contacts'[k].client = IF contacts[k].client = drop THEN keep ELSE contacts[k].client
             /\ contacts'[k].primary <=>
                  contacts[k].primary /\ (contacts[k].client = drop => PrimariesMove)
  BY ClientRows DEF Moved, ContactRows
<1>4. CASE ~PrimariesMove
  BY <1>2, <1>3, <1>4 DEF OneMarked
<1>5. CASE PrimariesMove
  <2>1. /\ merge.primaries \cap ContactsOf(keep) = {}
        /\ Cardinality(merge.primaries \cap ContactsOf(drop)) <= 1
    BY <1>5 DEF PrimariesMove
  <2>2. \A k \in Contacts: ~(contacts[k].client = keep /\ contacts[k].primary)
    BY <1>1, <2>1 DEF Primaries, ContactsOf
  <2>3. PICK S: S = merge.primaries \cap ContactsOf(drop)
    OBVIOUS
  <2>4. S \subseteq Contacts /\ IsFiniteSet(S) /\ Cardinality(S) <= 1
    BY <2>1, <2>3, ContactsAssumption, FS_Subset DEF ContactsOf
  <2>5. \A k, l \in S: k = l
    <3>1. Cardinality(S) \in Nat
      BY <2>4, FS_CardinalityType
    <3>2. Cardinality(S) = 0 \/ Cardinality(S) = 1
      BY <2>4, <3>1
    <3>3. S = {} \/ \E x: S = {x}
      BY <2>4, <3>2, FS_EmptySet, FS_Singleton
    <3>. QED BY <3>3
  <2>6. \A k \in Contacts: contacts[k].client = drop /\ contacts[k].primary => k \in S
    BY <1>1, <2>3 DEF Primaries, ContactsOf
  <2>. QED BY <1>3, <2>2, <2>5, <2>6 DEF OneMarked
<1>. QED BY <1>4, <1>5

\* A merge.
LEMMA MergeKeeps ==
  ASSUME ClientInv, BeginMerge \/ EndMerge \/ AbandonMerge
  PROVE  ClientInv'
<1>1. CASE BeginMerge \/ AbandonMerge
  <2>1. /\ merge' \in [keep: Clients \cup {Nobody}, drop: Clients \cup {Nobody}, primaries: SUBSET Contacts]
        /\ merge' # NoMerge =>
             /\ merge'.keep \in Clients /\ merge'.drop \in Clients /\ merge'.keep # merge'.drop
             /\ clients[merge'.keep] = "live" /\ clients[merge'.drop] = "live"
        /\ UNCHANGED <<clients, contacts, naming, picks, stray, muddled>>
    <3>1. CASE BeginMerge
      BY <3>1 DEF BeginMerge, Primaries, ContactsOf
    <3>2. CASE AbandonMerge
      BY <3>2 DEF AbandonMerge, NoMerge
    <3>. QED BY <1>1, <3>1, <3>2
  <2>. QED BY <2>1 DEF ClientInv, ClientTypeOK, MergeTells, Tells, OneMarked
<1>2. CASE EndMerge
  <2>0. PICK keep \in Clients, drop \in Clients:
          /\ keep = merge.keep /\ drop = merge.drop /\ keep # drop
          /\ clients[keep] = "live" /\ clients[drop] = "live"
    BY <1>2 DEF EndMerge, ClientInv, MergeTells
  <2>1. /\ merge # NoMerge
        /\ contacts' = [k \in Contacts |-> Moved(k)]
        /\ naming' = [r \in Files |-> IF naming[r].client = drop
                                      THEN [naming[r] EXCEPT !.client = keep] ELSE naming[r]]
        /\ clients' = [clients EXCEPT ![drop] = "merged"]
        /\ picks' = [r \in Files |-> IF picks[r].stage = "looked" /\ picks[r].row.client = drop
                                     THEN [picks[r] EXCEPT !.stage = "overtaken"] ELSE picks[r]]
        /\ muddled' = IF Unruly THEN muddled \cup {keep} ELSE muddled
        /\ merge' = NoMerge
        /\ UNCHANGED stray
    BY <1>2, <2>0 DEF EndMerge
  <2>2. ASSUME NEW k \in Contacts
        PROVE  /\ contacts'[k] \in ContactRows
               /\ contacts'[k].client = IF contacts[k].client = drop THEN keep ELSE contacts[k].client
               /\ contacts'[k].primary => contacts[k].primary
    <3>1. contacts[k] \in ContactRows /\ (contacts[k].primary /\ PrimariesMove) \in BOOLEAN
      BY ClientRows DEF ContactRows
    <3>. QED BY <2>0, <2>1, <3>1 DEF Moved, ContactRows
  <2>3. ASSUME NEW r \in Files
        PROVE  /\ naming'[r] \in FileRows
               /\ naming'[r].contact = naming[r].contact
               /\ naming'[r].client = IF naming[r].client = drop THEN keep ELSE naming[r].client
    BY <2>1, ClientRows DEF FileRows
  <2>4. ASSUME NEW r \in Files
        PROVE  /\ picks'[r] \in Picks
               /\ picks'[r].stage = "looked" => picks'[r] = picks[r] /\ picks[r].row.client # drop
    BY <2>1, ClientRows DEF Picks
  <2>5. /\ clients' \in [Clients -> {"none", "live", "merged", "gone"}]
        /\ \A c \in Clients \ {drop}: clients'[c] = clients[c]
    BY <2>1 DEF ClientInv, ClientTypeOK
  <2>6. ClientTypeOK'
    <3>1. /\ contacts' \in [Contacts -> ContactRows]
          /\ naming' \in [Files -> FileRows]
          /\ picks' \in [Files -> Picks]
      BY <2>1, <2>2, <2>3, <2>4
    <3>2. merge' \in [keep: Clients \cup {Nobody}, drop: Clients \cup {Nobody}, primaries: SUBSET Contacts]
      BY <2>1 DEF NoMerge
    <3>3. stray' \subseteq Files /\ muddled' \subseteq Clients
      BY <2>1 DEF ClientInv, ClientTypeOK
    <3>. QED BY <2>5, <3>1, <3>2, <3>3 DEF ClientTypeOK
  <2>7. ASSUME NEW row \in FileRows, Tells(row), NEW now \in FileRows,
               now.contact = row.contact,
               now.client = IF row.client = drop THEN keep ELSE row.client
        PROVE  Tells(now)'
    <3>1. row.client # Nobody => row.client \in Clients
      BY DEF FileRows
    <3>2. row.contact # Nobody => row.contact \in Contacts
      BY DEF FileRows
    <3>3. drop # Nobody /\ keep # Nobody
      BY NobodyAssumption
    <3>. QED BY <2>0, <2>2, <2>5, <2>7, <3>1, <3>2, <3>3 DEF Tells
  <2>8. \A r \in Files \ stray': Tells(naming[r])'
    BY <2>1, <2>3, <2>7, ClientRows DEF ClientInv
  <2>9. \A r \in Files: picks'[r].stage = "looked" => Tells(picks[r].row)'
    BY <2>4, <2>7, ClientRows DEF ClientInv
  <2>10. \A c \in Clients \ muddled': OneMarked(c)'
    <3>1. SUFFICES ASSUME NEW c \in Clients \ muddled' PROVE OneMarked(c)'
      OBVIOUS
    <3>2. CASE c = keep
      BY <2>0, <2>1, <3>1, <3>2, MergedMarked
    <3>3. CASE c # keep
      BY <2>1, <2>2, <3>1, <3>3 DEF ClientInv, OneMarked
    <3>. QED BY <3>2, <3>3
  <2>. QED BY <2>1, <2>4, <2>6, <2>8, <2>9, <2>10 DEF ClientInv, MergeTells
<1>. QED BY <1>1, <1>2

\* An edit of a record.
LEMMA PickKeeps ==
  ASSUME ClientInv, NEW r \in Files, BeginPick(r) \/ CommitPick(r) \/ AbandonPick(r)
  PROVE  ClientInv'
<1>1. CASE BeginPick(r)
  <2>1. PICK row \in FileRows, locked \in BOOLEAN:
          /\ Resolves(row)
          /\ picks' = [picks EXCEPT ![r] = [row |-> row, locked |-> locked, stage |-> "looked"]]
          /\ UNCHANGED <<clients, contacts, naming, merge, stray, muddled>>
    BY <1>1 DEF BeginPick
  <2>2. [row |-> row, locked |-> locked, stage |-> "looked"] \in Picks
    BY DEF Picks
  <2>3. ClientTypeOK'
    BY <2>1, <2>2 DEF ClientInv, ClientTypeOK
  <2>4. Tells(row)
    BY <2>1 DEF Resolves, Tells
  <2>5. picks'[r].row = row /\ \A q \in Files \ {r}: picks'[q] = picks[q]
    BY <2>1 DEF ClientInv, ClientTypeOK
  <2>6. \A q \in Files: picks'[q].stage = "looked" => Tells(picks'[q].row)
    BY <2>4, <2>5 DEF ClientInv
  <2>7. /\ MergeTells' /\ \A q \in Files \ stray': Tells(naming[q])'
        /\ \A c \in Clients \ muddled': OneMarked(c)'
    BY <2>1 DEF ClientInv, MergeTells, Tells, OneMarked
  <2>. QED BY <2>1, <2>3, <2>6, <2>7 DEF ClientInv, Tells
<1>2. CASE CommitPick(r) \/ AbandonPick(r)
  <2>1. /\ picks' = [picks EXCEPT ![r] = NoPick]
        /\ UNCHANGED <<clients, contacts, merge, muddled>>
    BY <1>2 DEF CommitPick, AbandonPick
  <2>2. /\ picks' \in [Files -> Picks]
        /\ \A q \in Files: picks'[q].stage = "looked" => picks'[q] = picks[q]
    BY <2>1, ClientRows DEF ClientInv, ClientTypeOK
  <2>3. /\ naming' \in [Files -> FileRows] /\ stray' \subseteq Files
        /\ \A q \in Files \ stray': Tells(naming'[q])
    <3>1. CASE CommitPick(r)
      <4>1. /\ picks[r].stage # "none"
            /\ naming' = [naming EXCEPT ![r] = picks[r].row]
            /\ stray' = IF picks[r].stage = "overtaken" THEN stray \cup {r} ELSE stray \ {r}
        BY <3>1 DEF CommitPick
      <4>2. /\ naming' \in [Files -> FileRows] /\ naming'[r] = picks[r].row
            /\ \A q \in Files \ {r}: naming'[q] = naming[q]
        BY <4>1, ClientRows DEF ClientInv, ClientTypeOK
      <4>3. picks[r].stage \in {"none", "looked", "overtaken"}
        BY ClientRows DEF Picks
      <4>. QED BY <4>1, <4>2, <4>3 DEF ClientInv, ClientTypeOK
    <3>2. CASE AbandonPick(r)
      BY <3>2 DEF AbandonPick, ClientInv, ClientTypeOK
    <3>. QED BY <1>2, <3>1, <3>2
  <2>4. ClientTypeOK'
    BY <2>1, <2>2, <2>3 DEF ClientInv, ClientTypeOK
  <2>5. MergeTells' /\ \A c \in Clients \ muddled': OneMarked(c)'
    BY <2>1 DEF ClientInv, MergeTells, OneMarked
  <2>6. \A q \in Files: picks'[q].stage = "looked" => Tells(picks'[q].row)
    BY <2>2 DEF ClientInv
  <2>. QED BY <2>1, <2>3, <2>4, <2>5, <2>6 DEF ClientInv, Tells
<1>. QED BY <1>1, <1>2

\* The invariant holds in every state.
LEMMA ClientInvariant == ClientSpec => []ClientInv
<1>1. ClientInit => ClientInv
  <2> SUFFICES ASSUME ClientInit PROVE ClientInv
    OBVIOUS
  <2>1. /\ contacts \in [Contacts -> ContactRows] /\ \A k \in Contacts: contacts[k].primary = FALSE
    BY DEF ClientInit, NewContact, ContactRows
  <2>2. naming \in [Files -> FileRows] /\ \A r \in Files: naming[r].client = Nobody
    BY DEF ClientInit, NewFile, FileRows
  <2>3. picks \in [Files -> Picks] /\ \A r \in Files: picks[r].stage = "none"
    BY DEF ClientInit, NoPick, Picks, NewFile, FileRows
  <2>4. ClientTypeOK
    BY <2>1, <2>2, <2>3 DEF ClientInit, ClientTypeOK, NoMerge
  <2>. QED BY <2>1, <2>2, <2>3, <2>4 DEF ClientInit, ClientInv, MergeTells, Tells, OneMarked
<1>2. ClientInv /\ [ClientNext]_clientVars => ClientInv'
  <2> SUFFICES ASSUME ClientInv, [ClientNext]_clientVars
               PROVE  ClientInv'
    OBVIOUS
  <2>1. CASE UNCHANGED clientVars
    BY <2>1 DEF clientVars, ClientInv, ClientTypeOK, MergeTells, Tells, OneMarked
  <2>. QED BY <2>1, ContactKeeps, ClientKeeps, MergeKeeps, PickKeeps DEF ClientNext
<1>. QED BY <1>1, <1>2, PTL DEF ClientSpec

\* Every state of the clients has the declared types.
THEOREM ClientTypeCorrect == ClientSpec => []ClientTypeOK
<1>1. ClientInv => ClientTypeOK
  BY DEF ClientInv
<1>. QED BY <1>1, ClientInvariant, PTL

\* Every record names a client that is there and a contact of it, whatever is
\* merged and deleted around it, but for an edit overtaken by that.
THEOREM RecordsStayNamed == ClientSpec => []RecordsNameLiveClients
<1>1. ClientInv => RecordsNameLiveClients
  BY DEF ClientInv, Tells, RecordsNameLiveClients
<1>. QED BY <1>1, ClientInvariant, PTL

\* No client has two primary contacts, through additions, edits and merges, but
\* where a merge could not see what its rule is about.
THEOREM OnePrimaryAtMost == ClientSpec => []OnePrimaryContact
<1>1. ASSUME ClientInv, NEW c \in Clients \ muddled PROVE Cardinality(Primaries(c)) <= 1
  <2>1. \A k, l \in Primaries(c): k = l
    BY <1>1 DEF ClientInv, OneMarked, Primaries, ContactsOf
  <2>2. CASE Primaries(c) = {}
    <3>1. Cardinality(Primaries(c)) = 0
      BY <2>2, FS_EmptySet, Zenon
    <3>. QED BY <3>1
  <2>3. CASE \E x: Primaries(c) = {x}
    <3>1. Cardinality(Primaries(c)) = 1
      BY <2>3, FS_Singleton, Zenon
    <3>. QED BY <3>1
  <2>4. Primaries(c) = {} \/ \E x: Primaries(c) = {x}
    <3>1. SUFFICES ASSUME NEW x \in Primaries(c) PROVE Primaries(c) = {x}
      OBVIOUS
    <3>. QED BY <2>1
  <2>. QED BY <2>2, <2>3, <2>4
<1>2. ClientInv => OnePrimaryContact
  BY <1>1 DEF OnePrimaryContact
<1>. QED BY <1>2, ClientInvariant, PTL

-----------------------------------------------------------------------------
(* Scenarios: whoever has the stored revision, on the screen, in a page    *)
(* that is loading or after a save, has its content as far as it was read. *)

\* A page that has the stored revision has the content stored under it.
Agrees(page) ==
  /\ page.revision <= scenario.revision
  /\ page.revision = scenario.revision => page.content = scenario.content

\* So has, as far as it has been read, a page that is on its way.
LoadTells(e) ==
  loading[e].read # {} =>
    /\ "revision" \in loading[e].read
    /\ loading[e].told.revision <= scenario.revision
    /\ loading[e].told.revision = scenario.revision =>
         /\ "activities" \in loading[e].read =>
              loading[e].told.content.activities = scenario.content.activities
         /\ "text" \in loading[e].read =>
              loading[e].told.content.text = scenario.content.text

\* And so has what a save that was accepted will show.
SaveTells(e) == saving[e].stage \in {"stored", "laid"} => Agrees(saving[e].told)

\* All that one editor has.
EditorTells(e) == Agrees(data[e]) /\ LoadTells(e) /\ SaveTells(e)

\* The inductive invariant.
ScenarioInv ==
  /\ ScenarioTypeOK
  /\ \A e \in Editors: EditorTells(e)
  /\ scenario.layout \subseteq scenario.content.activities

\* Whether the scenario stays or a save gives it a new revision, what the others
\* have agrees with it as before.
LEMMA OthersTell ==
  ASSUME ScenarioInv, NEW e \in Editors,
         \A d \in Editors \ {e}:
           data'[d] = data[d] /\ loading'[d] = loading[d] /\ saving'[d] = saving[d],
         \/ scenario'.revision = scenario.revision /\ scenario'.content = scenario.content
         \/ scenario'.revision = scenario.revision + 1
  PROVE  \A d \in Editors \ {e}: EditorTells(d)'
<1>1. SUFFICES ASSUME NEW d \in Editors \ {e} PROVE EditorTells(d)'
  OBVIOUS
<1>2. /\ scenario.revision \in Nat
      /\ data[d].revision \in Nat /\ loading[d].told.revision \in Nat /\ saving[d].told.revision \in Nat
  BY RevisionBoundAssumption DEF ScenarioInv, ScenarioTypeOK, Payloads, Loads, Saves
<1>3. EditorTells(d)
  BY DEF ScenarioInv
<1>4. Agrees(data[d])' /\ SaveTells(d)'
  BY <1>1, <1>2, <1>3 DEF EditorTells, Agrees, SaveTells
<1>5. LoadTells(d)'
  BY <1>1, <1>2, <1>3 DEF EditorTells, LoadTells
<1>. QED BY <1>4, <1>5 DEF EditorTells

\* What one editor has, and what its steps leave to the others.
LEMMA EditorRows ==
  ASSUME ScenarioInv, NEW e \in Editors
  PROVE  /\ data[e] \in Payloads /\ loading[e] \in Loads /\ saving[e] \in Saves
         /\ EditorTells(e)
         /\ scenario.revision \in Nat /\ scenario.revision >= 1
         /\ scenario.content \in Contents
         /\ \A x \in Payloads: x.revision \in Nat /\ x.content \in Contents
BY RevisionBoundAssumption DEF ScenarioInv, ScenarioTypeOK, Payloads

\* What everything begins as.
LEMMA NothingYet ==
  /\ First \in Contents /\ NoPage \in Payloads /\ NoPage.revision = 0
  /\ NoLoad \in Loads /\ NoLoad.read = {}
  /\ NoSave \in Saves /\ NoSave.stage = "idle"
BY FirstContentAssumption, RevisionBoundAssumption
   DEF First, Contents, NoPage, Payloads, NoLoad, Loads, NoSave, Saves

\* One query of a page.
LEMMA ReadKeeps ==
  ASSUME ScenarioInv, NEW e \in Editors, NEW read \in SUBSET Parts, NEW part \in Parts,
         read = {} \/ read = loading[e].read, ReadPart(e, read, part)
  PROVE  ScenarioInv'
<1>0. PICK told \in Payloads: told = loading[e].told
  BY EditorRows DEF Loads
<1>1. PICK now:
        /\ now = CASE part = "revision" -> [told EXCEPT !.revision = scenario.revision]
                   [] part = "activities" ->
                        [told EXCEPT !.content.activities = scenario.content.activities]
                   [] part = "text" -> [told EXCEPT !.content.text = scenario.content.text]
        /\ loading' = [loading EXCEPT ![e] = [read |-> read \cup {part}, told |-> now]]
        /\ UNCHANGED <<scenario, born, data, saving>>
  BY <1>0 DEF ReadPart
<1>2. part = IF read = {} \/ "revision" \notin read THEN "revision" ELSE part
  BY DEF ReadPart, Readable
<1>3. told.content \in Contents /\ scenario.content \in Contents
  BY EditorRows
<1>4. /\ now \in Payloads
      /\ now.revision = IF part = "revision" THEN scenario.revision ELSE told.revision
      /\ now.content.activities =
           IF part = "activities" THEN scenario.content.activities ELSE told.content.activities
      /\ now.content.text = IF part = "text" THEN scenario.content.text ELSE told.content.text
  <2>1. CASE part = "revision"
    BY <1>1, <1>3, <2>1 DEF Payloads, ScenarioInv, ScenarioTypeOK
  <2>2. CASE part = "activities"
    BY <1>1, <1>3, <2>2 DEF Payloads, Contents
  <2>3. CASE part = "text"
    BY <1>1, <1>3, <2>3 DEF Payloads, Contents
  <2>. QED BY <2>1, <2>2, <2>3 DEF Parts
<1>5. /\ [read |-> read \cup {part}, told |-> now] \in Loads
      /\ loading'[e].read = read \cup {part} /\ loading'[e].told = now
      /\ \A d \in Editors \ {e}: loading'[d] = loading[d]
  BY <1>1, <1>4 DEF Loads, ScenarioInv, ScenarioTypeOK
<1>6. ScenarioTypeOK'
  BY <1>1, <1>5 DEF ScenarioInv, ScenarioTypeOK
<1>7. LoadTells(e)'
  <2>1. LoadTells(e)
    BY EditorRows DEF EditorTells
  <2>2. CASE part = "revision"
    <3>1. read \subseteq {"activities", "text"} \/ "revision" \in read
      BY DEF Parts
    <3>2. read = {}
      BY <2>1, <2>2 DEF LoadTells, ReadPart, Readable, Parts
    <3>. QED BY <1>1, <1>4, <1>5, <2>2, <3>2, EditorRows DEF LoadTells
  <2>3. CASE part # "revision"
    <3>1. read = loading[e].read /\ "revision" \in read
      BY <1>2, <2>3
    <3>. QED BY <1>0, <1>1, <1>4, <1>5, <2>1, <2>3, <3>1 DEF LoadTells
  <2>. QED BY <2>2, <2>3
<1>8. EditorTells(e)'
  BY <1>1, <1>7, EditorRows DEF EditorTells, Agrees, SaveTells
<1>9. \A d \in Editors \ {e}: EditorTells(d)'
  BY <1>1, <1>5, OthersTell
<1>. QED BY <1>1, <1>6, <1>8, <1>9 DEF ScenarioInv

\* A step of one editor that leaves the stored revision and content alone and
\* leaves it a page, a load and a save that tell.
LEMMA EditorKeeps ==
  ASSUME ScenarioInv, NEW e \in Editors,
         NEW page \in Payloads, NEW load \in Loads, NEW save \in Saves,
         data' = [data EXCEPT ![e] = page],
         loading' = [loading EXCEPT ![e] = load],
         saving' = [saving EXCEPT ![e] = save],
         born' \subseteq Ids, UNCHANGED scenario,
         Agrees(page),
         load = loading[e] \/ load.read = {},
         save.stage \in {"stored", "laid"} => Agrees(save.told)
  PROVE  ScenarioInv'
<1>1. /\ data'[e] = page /\ loading'[e] = load /\ saving'[e] = save
      /\ \A d \in Editors \ {e}:
           data'[d] = data[d] /\ loading'[d] = loading[d] /\ saving'[d] = saving[d]
  BY DEF ScenarioInv, ScenarioTypeOK
<1>2. ScenarioTypeOK'
  BY DEF ScenarioInv, ScenarioTypeOK
<1>3. EditorTells(e)'
  <2>1. Agrees(data[e])' /\ SaveTells(e)'
    BY <1>1 DEF Agrees, SaveTells
  <2>2. LoadTells(e)'
    BY <1>1, EditorRows DEF EditorTells, LoadTells
  <2>. QED BY <2>1, <2>2 DEF EditorTells
<1>4. \A d \in Editors \ {e}: EditorTells(d)'
  BY <1>1, OthersTell
<1>. QED BY <1>2, <1>3, <1>4 DEF ScenarioInv

\* The page.
LEMMA PageKeeps ==
  ASSUME ScenarioInv, NEW e \in Editors,
         BeginLoad(e) \/ ContinueLoad(e) \/ Loaded(e) \/ LoadFails(e)
  PROVE  ScenarioInv'
<1>0. loading[e].read \in SUBSET Parts
  BY EditorRows DEF Loads
<1>1. CASE BeginLoad(e)
  BY <1>1, ReadKeeps DEF BeginLoad
<1>2. CASE ContinueLoad(e)
  BY <1>0, <1>2, ReadKeeps DEF ContinueLoad
<1>3. CASE Loaded(e)
  <2>1. /\ loading[e].read = Parts
        /\ data' = [data EXCEPT ![e] = loading[e].told]
        /\ loading' = [loading EXCEPT ![e] = NoLoad]
        /\ UNCHANGED <<scenario, born, saving>>
    BY <1>3 DEF Loaded
  <2>2. loading[e].told \in Payloads /\ loading[e].told.content \in Contents
    BY EditorRows DEF Loads
  <2>3. Agrees(loading[e].told)
    <3>1. /\ loading[e].told.revision <= scenario.revision
          /\ loading[e].told.revision = scenario.revision =>
               /\ loading[e].told.content.activities = scenario.content.activities
               /\ loading[e].told.content.text = scenario.content.text
      BY <2>1, EditorRows DEF EditorTells, LoadTells, Parts
    <3>. QED BY <2>2, <3>1, EditorRows DEF Agrees, Contents
  <2>4. saving' = [saving EXCEPT ![e] = saving[e]] /\ born' \subseteq Ids
    BY <2>1 DEF ScenarioInv, ScenarioTypeOK
  <2>. QED BY <2>1, <2>2, <2>3, <2>4, NothingYet, EditorRows, EditorKeeps DEF EditorTells, SaveTells
<1>4. CASE LoadFails(e)
  <2>1. /\ data' = [data EXCEPT ![e] = data[e]] /\ saving' = [saving EXCEPT ![e] = saving[e]]
        /\ born' \subseteq Ids
    BY <1>4 DEF LoadFails, ScenarioInv, ScenarioTypeOK
  <2>. QED BY <1>4, <2>1, NothingYet, EditorRows, EditorKeeps DEF LoadFails, EditorTells, SaveTells
<1>. QED BY <1>1, <1>2, <1>3, <1>4

\* A save, but for what it stores.
LEMMA SaveKeeps ==
  ASSUME ScenarioInv, NEW e \in Editors,
         \/ PersistContent(e) \/ PersistLayout(e) \/ RefuseStale(e) \/ LoseContent(e)
         \/ FinishSave(e) \/ FailLayout(e)
  PROVE  ScenarioInv'
<1>0. /\ loading = [loading EXCEPT ![e] = loading[e]] /\ data = [data EXCEPT ![e] = data[e]]
      /\ born \subseteq Ids
  BY DEF ScenarioInv, ScenarioTypeOK
<1>1. CASE PersistContent(e)
  <2>1. PICK content \in Contents, positions \in SUBSET Ids:
          /\ saving' = [saving EXCEPT ![e] =
               [stage |-> "sent", told |-> [data[e] EXCEPT !.content = content],
                positions |-> positions, businessSaved |-> FALSE]]
          /\ born' = born \cup content.activities
          /\ UNCHANGED <<scenario, data, loading>>
    BY <1>1 DEF PersistContent
  <2>2. [data[e] EXCEPT !.content = content] \in Payloads
    BY EditorRows DEF Payloads
  <2>3. [stage |-> "sent", told |-> [data[e] EXCEPT !.content = content],
         positions |-> positions, businessSaved |-> FALSE] \in Saves
    BY <2>2 DEF Saves
  <2>4. born' \subseteq Ids
    BY <1>0, <2>1 DEF Contents
  <2>. QED BY <1>0, <2>1, <2>3, <2>4, EditorRows, EditorKeeps DEF EditorTells
<1>2. CASE PersistLayout(e)
  <2>1. PICK positions \in SUBSET data[e].content.activities:
          /\ saving' = [saving EXCEPT ![e] =
               [stage |-> "stored", told |-> data[e], positions |-> positions, businessSaved |-> FALSE]]
          /\ UNCHANGED <<scenario, born, data, loading>>
    BY <1>2 DEF PersistLayout
  <2>2. data[e].content.activities \subseteq Ids
    BY EditorRows DEF Payloads, Contents
  <2>3. [stage |-> "stored", told |-> data[e], positions |-> positions, businessSaved |-> FALSE] \in Saves
    BY <2>2, EditorRows DEF Saves
  <2>. QED BY <1>0, <2>1, <2>3, EditorRows, EditorKeeps DEF EditorTells
<1>3. CASE RefuseStale(e) \/ LoseContent(e)
  BY <1>0, <1>3, NothingYet, EditorRows, EditorKeeps DEF RefuseStale, LoseContent, EditorTells
<1>4. CASE FinishSave(e) \/ FailLayout(e)
  <2>1. /\ saving[e].stage \in {"stored", "laid"}
        /\ \/ data' = [data EXCEPT ![e] = saving[e].told]
           \/ data' = data
        /\ saving' = [saving EXCEPT ![e] = NoSave]
        /\ UNCHANGED <<scenario, born, loading>>
    BY <1>4 DEF FinishSave, FailLayout
  <2>2. saving[e].told \in Payloads /\ Agrees(saving[e].told)
    BY <2>1, EditorRows DEF Saves, EditorTells, SaveTells
  <2>. QED BY <1>0, <2>1, <2>2, NothingYet, EditorRows, EditorKeeps DEF EditorTells
<1>. QED BY <1>1, <1>2, <1>3, <1>4

\* The content is stored under a revision nobody else has.
LEMMA StoreKeeps ==
  ASSUME ScenarioInv, NEW e \in Editors, StoreContent(e)
  PROVE  ScenarioInv'
<1>0. PICK told \in Payloads, n \in Nat:
        /\ told = [saving[e].told EXCEPT !.revision = scenario.revision + 1]
        /\ n = scenario.revision /\ told.revision = n + 1
        /\ told.content = saving[e].told.content /\ told.content \in Contents
  <2>1. saving[e].told \in Payloads /\ scenario.revision < MaxRevision
    BY EditorRows DEF Saves, StoreContent
  <2>2. scenario.revision + 1 \in 0..MaxRevision
    BY <2>1, EditorRows, RevisionBoundAssumption
  <2>3. LET told == [saving[e].told EXCEPT !.revision = scenario.revision + 1] IN
        /\ told \in Payloads /\ told.revision = scenario.revision + 1
        /\ told.content = saving[e].told.content /\ told.content \in Contents
    BY <2>1, <2>2 DEF Payloads
  <2>4. scenario.revision \in Nat
    BY EditorRows
  <2>. QED BY <2>3, <2>4
<1>1. /\ scenario' = [revision |-> n + 1, content |-> told.content,
                      layout |-> scenario.layout \cap told.content.activities]
      /\ UNCHANGED <<born, data, loading>>
      /\ n < MaxRevision
  BY <1>0 DEF StoreContent
<1>2. /\ saving' \in [Editors -> Saves]
      /\ saving'[e].told = told
      /\ \A d \in Editors \ {e}: saving'[d] = saving[d]
  <2>1. saving' = [saving EXCEPT ![e] =
          [saving[e] EXCEPT !.stage = "stored", !.told.revision = scenario.revision + 1,
                            !.businessSaved = TRUE]]
    BY DEF StoreContent
  <2>2. saving[e] \in Saves /\ saving[e].told \in Payloads
    BY EditorRows DEF Saves
  <2>3. LET save == [saving[e] EXCEPT !.stage = "stored", !.told.revision = scenario.revision + 1,
                                      !.businessSaved = TRUE]
        IN save \in Saves /\ save.told = told
    BY <1>0, <2>2 DEF Saves
  <2>. QED BY <2>1, <2>3 DEF ScenarioInv, ScenarioTypeOK
<1>3. /\ scenario'.revision = n + 1 /\ scenario'.content = told.content
      /\ scenario'.layout \subseteq scenario'.content.activities
  BY <1>1
<1>4. ScenarioTypeOK'
  <2>1. scenario' \in [revision: 1..MaxRevision, content: Contents, layout: SUBSET Ids]
    BY <1>0, <1>1, RevisionBoundAssumption DEF ScenarioInv, ScenarioTypeOK
  <2>. QED BY <1>1, <1>2, <2>1 DEF ScenarioInv, ScenarioTypeOK
<1>5. EditorTells(e)'
  <2>1. /\ data[e].revision \in Nat /\ data[e].revision <= n
        /\ loading[e].told.revision \in Nat
        /\ loading[e].read # {} => "revision" \in loading[e].read /\ loading[e].told.revision <= n
    BY <1>0, EditorRows DEF EditorTells, Agrees, LoadTells, Loads
  <2>2. Agrees(data[e])'
    BY <1>1, <1>3, <2>1 DEF Agrees
  <2>3. SaveTells(e)'
    BY <1>0, <1>2, <1>3 DEF SaveTells, Agrees
  <2>4. LoadTells(e)'
    BY <1>1, <1>3, <2>1 DEF LoadTells
  <2>. QED BY <2>2, <2>3, <2>4 DEF EditorTells
<1>6. \A d \in Editors \ {e}: EditorTells(d)'
  BY <1>0, <1>1, <1>2, <1>3, OthersTell
<1>. QED BY <1>3, <1>4, <1>5, <1>6 DEF ScenarioInv

\* The layout is stored: positions of activities there are.
LEMMA LayoutKeeps ==
  ASSUME ScenarioInv, NEW e \in Editors, StoreLayout(e)
  PROVE  ScenarioInv'
<1>1. /\ saving[e].stage = "stored"
      /\ saving[e].positions \subseteq scenario.content.activities
      /\ scenario' = [scenario EXCEPT !.layout = @ \cup saving[e].positions]
      /\ saving' = [saving EXCEPT ![e].stage = "laid"]
      /\ UNCHANGED <<born, data, loading>>
  BY DEF StoreLayout, Known
<1>2. saving[e] \in Saves /\ scenario.content \in Contents
  BY EditorRows
<1>3. /\ saving' \in [Editors -> Saves]
      /\ saving'[e].told = saving[e].told
      /\ \A d \in Editors \ {e}: saving'[d] = saving[d]
  BY <1>1, <1>2 DEF Saves, ScenarioInv, ScenarioTypeOK
<1>4. /\ scenario' \in [revision: 1..MaxRevision, content: Contents, layout: SUBSET Ids]
      /\ scenario'.revision = scenario.revision /\ scenario'.content = scenario.content
      /\ scenario'.layout = scenario.layout \cup saving[e].positions
  BY <1>1, <1>2 DEF ScenarioInv, ScenarioTypeOK, Contents
<1>5. ScenarioTypeOK'
  BY <1>1, <1>3, <1>4 DEF ScenarioInv, ScenarioTypeOK
<1>6. EditorTells(e)'
  BY <1>1, <1>3, <1>4, EditorRows DEF EditorTells, Agrees, LoadTells, SaveTells
<1>7. \A d \in Editors \ {e}: EditorTells(d)'
  BY <1>1, <1>3, <1>4, OthersTell
<1>. QED BY <1>1, <1>4, <1>5, <1>6, <1>7 DEF ScenarioInv

\* The invariant holds in every state.
LEMMA ScenarioInvariant == ScenarioSpec => []ScenarioInv
<1>1. ScenarioInit => ScenarioInv
  <2> SUFFICES ASSUME ScenarioInit PROVE ScenarioInv
    OBVIOUS
  <2>1. /\ scenario.revision = 1 /\ scenario.layout = {}
        /\ scenario \in [revision: 1..MaxRevision, content: Contents, layout: SUBSET Ids]
    BY NothingYet, RevisionBoundAssumption DEF ScenarioInit
  <2>2. ScenarioTypeOK
    BY <2>1, NothingYet, FirstContentAssumption DEF ScenarioInit, ScenarioTypeOK
  <2>3. \A e \in Editors: data[e].revision = 0 /\ loading[e].read = {} /\ saving[e].stage = "idle"
    BY NothingYet DEF ScenarioInit
  <2>. QED BY <2>1, <2>2, <2>3 DEF ScenarioInv, EditorTells, Agrees, LoadTells, SaveTells
<1>2. ScenarioInv /\ [ScenarioNext]_scenarioVars => ScenarioInv'
  <2> SUFFICES ASSUME ScenarioInv, [ScenarioNext]_scenarioVars
               PROVE  ScenarioInv'
    OBVIOUS
  <2>1. CASE UNCHANGED scenarioVars
    BY <2>1 DEF scenarioVars, ScenarioInv, ScenarioTypeOK, EditorTells, Agrees, LoadTells, SaveTells
  <2>. QED BY <2>1, PageKeeps, SaveKeeps, StoreKeeps, LayoutKeeps DEF ScenarioNext
<1>. QED BY <1>1, <1>2, PTL DEF ScenarioSpec

\* Every state of the scenario has the declared types.
THEOREM ScenarioTypeCorrect == ScenarioSpec => []ScenarioTypeOK
<1>1. ScenarioInv => ScenarioTypeOK
  BY DEF ScenarioInv
<1>. QED BY <1>1, ScenarioInvariant, PTL

\* Whoever has the stored revision has the content stored under it, although
\* pages are read piecemeal while others save; and every position is that of an
\* activity of the scenario.
THEOREM SavesReplaceTheRead == ScenarioSpec => []SavesReplaceWhatWasRead
<1>1. ScenarioInv => SavesReplaceWhatWasRead
  BY DEF ScenarioInv, EditorTells, Agrees, SavesReplaceWhatWasRead
<1>. QED BY <1>1, ScenarioInvariant, PTL

-----------------------------------------------------------------------------
(* Membership. The argument is that of the lock: what a request decided    *)
(* while it holds an organisation's row stays right until it commits,      *)
(* because nobody else can touch the members of that organisation.         *)

USE NowhereAssumption

\* A user without an organisation has no rights, and organisations exist before
\* anybody belongs to them or is invited to them.
Founded ==
  /\ \A p \in People: members[p].org = Nowhere => ~members[p].admin /\ ~members[p].active
  /\ \A p \in People: members[p].org \in People => members[members[p].org].org \in People
  /\ \A i \in invitations: members[i.org].org \in People

\* A change leaves the organisation with an active administrator, or empty.
Guarded(c, org) ==
  \/ c.row.org = org /\ c.row.admin /\ c.row.active
  \/ \E p \in People \ {c.who}: ActiveAdmin(p, org)
  \/ c.row.org # org /\ \A p \in People \ {c.who}: members[p].org # org

\* What is decided concerns locked organisations only, and is right for them.
SafeChange(c) ==
  /\ c.who \in People
  /\ members[c.who].org \in c.locks
  /\ c.row.org \in c.locks
  /\ \A org \in c.locks: members[org].org \in People /\ Guarded(c, org)

\* Every change that was decided and is not committed.
ChangesAreSafe ==
  \A p \in People, c \in Changes: changing[p] = c /\ c # NoChange => SafeChange(c)

\* No two requests hold the same organisation.
LocksDisjoint ==
  \A p, q \in People: p # q => changing[p].locks \cap changing[q].locks = {}

\* The inductive invariant.
MembershipInv ==
  /\ MembershipTypeOK
  /\ Founded
  /\ LocksDisjoint
  /\ ChangesAreSafe
  /\ AlwaysAnAdmin

\* AlwaysAnAdmin, without the sets.
LEMMA AdminWitness ==
  AlwaysAnAdmin <=>
    \A org \in People: (\E p \in People: members[p].org = org) =>
                          \E p \in People: ActiveAdmin(p, org)
BY DEF AlwaysAnAdmin, MembersOf, Admins

\* Nothing is decided and nobody is anywhere.
LEMMA EmptyTypes == Stranger \in MemberRows /\ NoChange \in Changes
BY DEF Stranger, MemberRows, NoChange, Changes

\* What was decided stays right when the members of the locked organisations stay
\* the administrators they were, and nobody joins.
LEMMA StaysSafe ==
  ASSUME NEW c \in Changes, SafeChange(c),
         members'[c.who] = members[c.who],
         \A x \in People: members[x].org \in People => members'[x].org \in People,
         \A org \in c.locks, x \in People: ActiveAdmin(x, org) => ActiveAdmin(x, org)',
         \A org \in c.locks, x \in People: members[x].org # org => members'[x].org # org
  PROVE  SafeChange(c)'
<1>1. c.locks \subseteq People
  BY DEF Changes
<1>2. c.who \in People /\ members'[c.who].org \in c.locks /\ c.row.org \in c.locks
  BY DEF SafeChange
<1>3. ASSUME NEW org \in c.locks
      PROVE  members'[org].org \in People /\ Guarded(c, org)'
  <2>1. Guarded(c, org) /\ members[org].org \in People
    BY DEF SafeChange
  <2>. QED BY <1>1, <2>1 DEF Guarded
<1>. QED BY <1>2, <1>3 DEF SafeChange

\* Steps that leave the members alone, and add no change and no invitation to an
\* organisation that does not exist.
LEMMA UnchangedMembers ==
  ASSUME MembershipInv, UNCHANGED members, MembershipTypeOK',
         \A i \in invitations': members[i.org].org \in People,
         \A p \in People: changing'[p] = changing[p] \/ changing'[p] = NoChange
  PROVE  MembershipInv'
<1>1. Founded'
  BY DEF MembershipInv, Founded
<1>2. \A p \in People: changing'[p].locks \subseteq changing[p].locks
  BY DEF NoChange
<1>3. LocksDisjoint'
  BY <1>2 DEF MembershipInv, LocksDisjoint
<1>4. ChangesAreSafe'
  BY DEF MembershipInv, ChangesAreSafe, SafeChange, Guarded, ActiveAdmin
<1>5. AlwaysAnAdmin'
  BY DEF MembershipInv, AlwaysAnAdmin, MembersOf, Admins, ActiveAdmin
<1>. QED BY <1>1, <1>3, <1>4, <1>5 DEF MembershipInv

\* Sending and dropping invitations, and giving up a change.
LEMMA QuietSteps ==
  ASSUME MembershipInv,
         Invite \/ DropInvitation \/ \E p \in People: AbandonChange(p)
  PROVE  MembershipInv'
<1>1. CASE Invite
  <2>1. PICK by \in People, to \in People, admin \in BOOLEAN:
          /\ ActiveAdmin(by, members[by].org)
          /\ members[to].org # members[by].org
          /\ invitations' = invitations \cup
               {[to |-> to, org |-> members[by].org, admin |-> admin, by |-> by]}
          /\ UNCHANGED <<members, changing>>
    BY <1>1 DEF Invite
  <2>2. members[by].org \in People /\ members[members[by].org].org \in People
    BY <2>1 DEF MembershipInv, Founded, ActiveAdmin, MembershipTypeOK, MemberRows
  <2>3. MembershipTypeOK'
    BY <2>1, <2>2 DEF MembershipInv, MembershipTypeOK, InvitationRows
  <2>4. \A i \in invitations': members[i.org].org \in People
    BY <2>1, <2>2 DEF MembershipInv, Founded
  <2>. QED BY <2>1, <2>3, <2>4, UnchangedMembers
<1>2. CASE DropInvitation
  <2>1. invitations' \subseteq invitations /\ UNCHANGED <<members, changing>>
    BY <1>2 DEF DropInvitation
  <2>2. MembershipTypeOK'
    BY <2>1 DEF MembershipInv, MembershipTypeOK
  <2>3. \A i \in invitations': members[i.org].org \in People
    BY <2>1 DEF MembershipInv, Founded
  <2>. QED BY <2>1, <2>2, <2>3, UnchangedMembers
<1>3. CASE \E p \in People: AbandonChange(p)
  <2>1. PICK p \in People: AbandonChange(p)
    BY <1>3
  <2>2. /\ UNCHANGED <<members, invitations>>
        /\ changing' = [changing EXCEPT ![p] = NoChange]
    BY <2>1 DEF AbandonChange
  <2>3. MembershipTypeOK'
    BY <2>2, EmptyTypes DEF MembershipInv, MembershipTypeOK
  <2>4. \A q \in People: changing'[q] = changing[q] \/ changing'[q] = NoChange
    BY <2>2 DEF MembershipInv, MembershipTypeOK
  <2>5. \A i \in invitations': members[i.org].org \in People
    BY <2>2 DEF MembershipInv, Founded
  <2>. QED BY <2>2, <2>3, <2>4, <2>5, UnchangedMembers
<1>. QED BY <1>1, <1>2, <1>3

\* A new user founds an organisation nobody can have locked.
LEMMA SignupKeeps ==
  ASSUME MembershipInv, Signup
  PROVE  MembershipInv'
<1> DEFINE row(p) == [org |-> p, admin |-> TRUE, active |-> TRUE]
<1>1. PICK p \in People:
        /\ members[p] = Stranger
        /\ members' = [members EXCEPT ![p] = row(p)]
        /\ UNCHANGED <<invitations, changing>>
  BY DEF Signup
<1>2. row(p) \in MemberRows /\ row(p).org = p /\ row(p).admin = TRUE /\ row(p).active = TRUE
  BY DEF MemberRows
<1> HIDE DEF row
<1>3. /\ members'[p] = row(p)
      /\ \A x \in People \ {p}: members'[x] = members[x]
      /\ members[p].org = Nowhere
  BY <1>1 DEF MembershipInv, MembershipTypeOK, Stranger
<1>4. MembershipTypeOK'
  BY <1>1, <1>2 DEF MembershipInv, MembershipTypeOK
<1>5. \A x \in People: members[x].org # p
  BY <1>3 DEF MembershipInv, Founded
<1>6. \A x \in People: members[x].org \in People => members'[x].org \in People
  BY <1>2, <1>3
<1>7. Founded'
  <2>1. \A x \in People: members'[x].org = Nowhere => ~members'[x].admin /\ ~members'[x].active
    BY <1>2, <1>3 DEF MembershipInv, Founded
  <2>2. \A x \in People: members'[x].org \in People => members'[members'[x].org].org \in People
    BY <1>2, <1>3, <1>6 DEF MembershipInv, Founded
  <2>3. \A i \in invitations': members'[i.org].org \in People
    BY <1>1, <1>6 DEF MembershipInv, Founded, MembershipTypeOK, InvitationRows
  <2>. QED BY <2>1, <2>2, <2>3 DEF Founded
<1>8. LocksDisjoint'
  BY <1>1 DEF MembershipInv, LocksDisjoint
<1>9. ASSUME NEW q \in People, NEW c \in Changes, changing[q] = c, c # NoChange
      PROVE  SafeChange(c)'
  <2>1. SafeChange(c)
    BY <1>9 DEF MembershipInv, ChangesAreSafe
  <2>2. c.locks \subseteq People
    BY DEF Changes
  <2>3. p \notin c.locks /\ c.who # p /\ c.who \in People
    <3>1. members[p].org \notin People
      BY <1>3
    <3>. QED BY <1>5, <2>1, <2>2, <3>1 DEF SafeChange
  <2>4. ASSUME NEW org \in c.locks, NEW x \in People
        PROVE  /\ ActiveAdmin(x, org) => ActiveAdmin(x, org)'
               /\ members[x].org # org => members'[x].org # org
    BY <1>2, <1>3, <2>2, <2>3 DEF ActiveAdmin
  <2>5. members'[c.who] = members[c.who]
    BY <1>3, <2>3
  <2>. QED BY <1>6, <2>1, <2>4, <2>5, StaysSafe
<1>10. ChangesAreSafe'
  BY <1>1, <1>9 DEF ChangesAreSafe
<1>11. AlwaysAnAdmin'
  <2>1. SUFFICES ASSUME NEW org \in People, NEW x \in People, members'[x].org = org
                 PROVE  \E y \in People: ActiveAdmin(y, org)'
    BY DEF AlwaysAnAdmin, MembersOf, Admins
  <2>2. CASE org = p
    BY <1>2, <1>3, <2>2 DEF ActiveAdmin
  <2>3. CASE org # p
    <3>1. members[x].org = org
      BY <1>2, <1>3, <2>1, <2>3
    <3>2. PICK y \in People: ActiveAdmin(y, org)
      BY <3>1, AdminWitness DEF MembershipInv
    <3>. QED BY <1>3, <3>2 DEF ActiveAdmin
  <2>. QED BY <2>2, <2>3
<1>. QED BY <1>4, <1>7, <1>8, <1>10, <1>11 DEF MembershipInv

\* A change that is safe when it is decided, and whose locks are free.
LEMMA DecideKeeps ==
  ASSUME MembershipInv, NEW p \in People, NEW c \in Changes, SafeChange(c), Decide(p, c)
  PROVE  MembershipInv'
<1>1. /\ changing' = [changing EXCEPT ![p] = c]
      /\ UNCHANGED <<members, invitations>>
      /\ \A q \in People: changing[q].locks \cap c.locks = {}
  BY DEF Decide, Lockable
<1>2. changing'[p] = c /\ \A q \in People \ {p}: changing'[q] = changing[q]
  BY <1>1 DEF MembershipInv, MembershipTypeOK
<1>3. MembershipTypeOK'
  BY <1>1 DEF MembershipInv, MembershipTypeOK
<1>4. LocksDisjoint'
  BY <1>1, <1>2 DEF MembershipInv, LocksDisjoint
<1>5. ChangesAreSafe'
  BY <1>1, <1>2 DEF MembershipInv, ChangesAreSafe, SafeChange, Guarded, ActiveAdmin
<1>6. Founded' /\ AlwaysAnAdmin'
  BY <1>1 DEF MembershipInv, Founded, AlwaysAnAdmin, MembersOf, Admins, ActiveAdmin
<1>. QED BY <1>3, <1>4, <1>5, <1>6 DEF MembershipInv

\* An administrator's update of a member is safe.
LEMMA UpdateKeeps ==
  ASSUME MembershipInv, NEW p \in People, BeginUpdate(p)
  PROVE  MembershipInv'
<1> DEFINE org == members[p].org
<1>1. PICK q \in People, admin \in BOOLEAN, active \in BOOLEAN:
        /\ ActiveAdmin(p, org)
        /\ members[q].org = org
        /\ ActiveAdmin(q, org) /\ ~(admin /\ active) => KeepsAdmin(q, org)
        /\ Decide(p, [NoChange EXCEPT !.who = q,
                        !.row = [org |-> org, admin |-> admin, active |-> active],
                        !.locks = {org}])
  BY DEF BeginUpdate
<1> DEFINE row == [org |-> org, admin |-> admin, active |-> active]
           c == [NoChange EXCEPT !.who = q, !.row = row, !.locks = {org}]
<1>2. org \in People /\ members[org].org \in People
  BY <1>1 DEF MembershipInv, Founded, ActiveAdmin, MembershipTypeOK, MemberRows
<1>3. row \in MemberRows /\ row.org = org /\ row.admin = admin /\ row.active = active
  BY <1>2 DEF MemberRows
<1> HIDE DEF org, row
<1>4. c \in Changes /\ c.who = q /\ c.row = row /\ c.locks = {org}
  BY <1>2, <1>3 DEF NoChange, Changes
<1>5. Decide(p, c)
  BY <1>1 DEF row
<1> HIDE DEF c
<1>6. Guarded(c, org)
  <2>1. CASE admin /\ active
    BY <1>3, <1>4, <2>1 DEF Guarded
  <2>2. CASE ~(admin /\ active) /\ ActiveAdmin(q, org)
    BY <1>1, <1>4, <2>2 DEF Guarded, KeepsAdmin, Admins
  <2>3. CASE ~ActiveAdmin(q, org)
    BY <1>1, <1>4, <2>3 DEF Guarded
  <2>. QED BY <2>1, <2>2, <2>3
<1>7. SafeChange(c)
  BY <1>1, <1>2, <1>3, <1>4, <1>6 DEF SafeChange
<1>. QED BY <1>4, <1>5, <1>7, DecideKeeps

\* Accepting an invitation is safe for both organisations.
LEMMA AcceptKeeps ==
  ASSUME MembershipInv, NEW p \in People, BeginAccept(p)
  PROVE  MembershipInv'
<1> DEFINE org == members[p].org
<1>1. PICK i \in invitations:
        /\ members[p].active
        /\ ActiveAdmin(i.by, i.org)
        /\ i.org # org
        /\ members[p].admin => MembersOf(org) = {p} \/ KeepsAdmin(p, org)
        /\ Decide(p, [who |-> p, row |-> [org |-> i.org, admin |-> i.admin, active |-> TRUE],
                      locks |-> {org, i.org}, used |-> {i}])
  BY DEF BeginAccept
<1> DEFINE row == [org |-> i.org, admin |-> i.admin, active |-> TRUE]
           c == [who |-> p, row |-> row, locks |-> {org, i.org}, used |-> {i}]
<1>2. i \in InvitationRows /\ i.org \in People /\ i.by \in People /\ i.admin \in BOOLEAN
  BY DEF MembershipInv, MembershipTypeOK, InvitationRows
<1>3. org \in People /\ members[org].org \in People /\ members[i.org].org \in People
  BY <1>1 DEF MembershipInv, Founded, MembershipTypeOK, MemberRows
<1>4. members[p].org = org
  OBVIOUS
<1>5. row \in MemberRows /\ row.org = i.org
  BY <1>2 DEF MemberRows
<1>6. Decide(p, c)
  BY <1>1
<1> HIDE DEF org, row
<1>7. c \in Changes /\ c.who = p /\ c.row = row /\ c.locks = {org, i.org}
  BY <1>2, <1>3, <1>5 DEF Changes
<1> HIDE DEF c
<1>8. Guarded(c, i.org)
  BY <1>1, <1>2, <1>4, <1>7 DEF Guarded, ActiveAdmin
<1>9. Guarded(c, org)
  <2>1. CASE MembersOf(org) = {p}
    BY <1>1, <1>5, <1>7, <2>1 DEF Guarded, MembersOf
  <2>2. CASE KeepsAdmin(p, org)
    BY <1>7, <2>2 DEF Guarded, KeepsAdmin, Admins
  <2>3. CASE ~members[p].admin
    <3>1. PICK x \in People: ActiveAdmin(x, org)
      BY <1>3, <1>4, AdminWitness DEF MembershipInv
    <3>2. x # p
      BY <2>3, <3>1 DEF ActiveAdmin
    <3>. QED BY <1>7, <3>1, <3>2 DEF Guarded
  <2>. QED BY <1>1, <2>1, <2>2, <2>3
<1>10. SafeChange(c)
  BY <1>3, <1>4, <1>5, <1>7, <1>8, <1>9 DEF SafeChange
<1>. QED BY <1>6, <1>7, <1>10, DecideKeeps

\* A commit changes its locked organisations as decided, and no other one.
LEMMA MembersCommitKeeps ==
  ASSUME MembershipInv, NEW p \in People, CommitChange(p)
  PROVE  MembershipInv'
<1> DEFINE c == changing[p]
<1>1. /\ c # NoChange
      /\ members' = [members EXCEPT ![c.who] = c.row]
      /\ invitations' = invitations \ c.used
      /\ changing' = [changing EXCEPT ![p] = NoChange]
  BY DEF CommitChange
<1>2. c \in Changes /\ c.row \in MemberRows /\ c.locks \subseteq People
  BY DEF MembershipInv, MembershipTypeOK, Changes
<1>3. SafeChange(c)
  BY <1>1, <1>2 DEF MembershipInv, ChangesAreSafe
<1>4. \A q \in People \ {p}: changing[q].locks \cap c.locks = {}
  BY DEF MembershipInv, LocksDisjoint
<1> HIDE DEF c
<1>5. /\ c.who \in People /\ members[c.who].org \in c.locks /\ c.row.org \in c.locks
      /\ \A org \in c.locks: members[org].org \in People /\ Guarded(c, org)
  BY <1>3 DEF SafeChange
<1>6. /\ members'[c.who] = c.row
      /\ \A x \in People \ {c.who}: members'[x] = members[x]
  BY <1>1, <1>5 DEF MembershipInv, MembershipTypeOK
<1>7. changing'[p] = NoChange /\ \A q \in People \ {p}: changing'[q] = changing[q]
  BY <1>1 DEF MembershipInv, MembershipTypeOK
<1>8. MembershipTypeOK'
  BY <1>1, <1>2, <1>5, EmptyTypes DEF MembershipInv, MembershipTypeOK
<1>9. \A x \in People: members[x].org \in People => members'[x].org \in People
  BY <1>2, <1>5, <1>6
<1>10. Founded'
  <2>1. \A x \in People: members'[x].org = Nowhere => ~members'[x].admin /\ ~members'[x].active
    BY <1>2, <1>5, <1>6 DEF MembershipInv, Founded
  <2>2. ASSUME NEW x \in People, members'[x].org \in People
        PROVE  members'[members'[x].org].org \in People
    <3>1. CASE x = c.who
      BY <1>2, <1>5, <1>6, <1>9, <3>1
    <3>2. CASE x # c.who
      BY <1>6, <1>9, <2>2, <3>2 DEF MembershipInv, Founded
    <3>. QED BY <3>1, <3>2
  <2>3. \A i \in invitations': members'[i.org].org \in People
    BY <1>1, <1>9 DEF MembershipInv, Founded, MembershipTypeOK, InvitationRows
  <2>. QED BY <2>1, <2>2, <2>3 DEF Founded
<1>11. LocksDisjoint'
  BY <1>7 DEF MembershipInv, LocksDisjoint, NoChange
<1>12. ASSUME NEW q \in People, NEW d \in Changes, q # p, changing[q] = d, d # NoChange
       PROVE  SafeChange(d)'
  <2>1. SafeChange(d)
    BY <1>12 DEF MembershipInv, ChangesAreSafe
  <2>2. d.locks \cap c.locks = {} /\ d.locks \subseteq People
    BY <1>4, <1>12 DEF Changes
  <2>3. d.who # c.who /\ d.who \in People
    BY <1>5, <2>1, <2>2 DEF SafeChange
  <2>4. ASSUME NEW org \in d.locks, NEW x \in People
        PROVE  /\ ActiveAdmin(x, org) => ActiveAdmin(x, org)'
               /\ members[x].org # org => members'[x].org # org
    BY <1>5, <1>6, <2>2 DEF ActiveAdmin
  <2>5. members'[d.who] = members[d.who]
    BY <1>6, <2>3
  <2>. QED BY <1>9, <2>1, <2>4, <2>5, StaysSafe
<1>13. ChangesAreSafe'
  BY <1>7, <1>12 DEF ChangesAreSafe
<1>14. AlwaysAnAdmin'
  <2>1. SUFFICES ASSUME NEW org \in People, NEW x \in People, members'[x].org = org
                 PROVE  \E y \in People: ActiveAdmin(y, org)'
    BY DEF AlwaysAnAdmin, MembersOf, Admins
  <2>2. CASE org \in c.locks
    BY <1>5, <1>6, <2>1, <2>2 DEF Guarded, ActiveAdmin
  <2>3. CASE org \notin c.locks
    <3>1. members[x].org = org
      BY <1>5, <1>6, <2>1, <2>3
    <3>2. PICK y \in People: ActiveAdmin(y, org)
      BY <3>1, AdminWitness DEF MembershipInv
    <3>. QED BY <1>5, <1>6, <2>3, <3>2 DEF ActiveAdmin
  <2>. QED BY <2>2, <2>3
<1>. QED BY <1>8, <1>10, <1>11, <1>13, <1>14 DEF MembershipInv

\* The invariant holds in every state.
LEMMA MembershipInvariant == MembershipSpec => []MembershipInv
<1>1. MembershipInit => MembershipInv
  <2> SUFFICES ASSUME MembershipInit
               PROVE  MembershipInv
    OBVIOUS
  <2>1. MembershipTypeOK
    BY EmptyTypes DEF MembershipInit, MembershipTypeOK
  <2>2. \A p \in People: members[p].org = Nowhere /\ ~members[p].admin /\ ~members[p].active
    BY DEF MembershipInit, Stranger
  <2>3. invitations = {} /\ \A p \in People: changing[p] = NoChange /\ changing[p].locks = {}
    BY DEF MembershipInit, NoChange
  <2>4. Founded /\ LocksDisjoint /\ ChangesAreSafe
    BY <2>2, <2>3 DEF Founded, LocksDisjoint, ChangesAreSafe
  <2>5. AlwaysAnAdmin
    BY <2>2 DEF AlwaysAnAdmin, MembersOf
  <2>. QED BY <2>1, <2>4, <2>5 DEF MembershipInv
<1>2. MembershipInv /\ [MembershipNext]_membershipVars => MembershipInv'
  <2> SUFFICES ASSUME MembershipInv, [MembershipNext]_membershipVars
               PROVE  MembershipInv'
    OBVIOUS
  <2>1. CASE UNCHANGED membershipVars
    <3>1. MembershipTypeOK'
      BY <2>1 DEF membershipVars, MembershipInv, MembershipTypeOK
    <3>. QED BY <2>1, <3>1, UnchangedMembers DEF membershipVars, MembershipInv, Founded
  <2>. QED
    BY <2>1, SignupKeeps, QuietSteps, UpdateKeeps, AcceptKeeps, MembersCommitKeeps DEF MembershipNext
<1>. QED BY <1>1, <1>2, PTL DEF MembershipSpec

\* Every state of the membership has the declared types.
THEOREM MembershipTypeCorrect == MembershipSpec => []MembershipTypeOK
<1>1. MembershipInv => MembershipTypeOK
  BY DEF MembershipInv
<1>. QED BY <1>1, MembershipInvariant, PTL

\* Whoever is demoted, deactivated or moves elsewhere, and whatever overlaps, an
\* organisation with people in it has an active administrator.
THEOREM AdminRemains == MembershipSpec => []AlwaysAnAdmin
<1>1. MembershipInv => AlwaysAnAdmin
  BY DEF MembershipInv
<1>. QED BY <1>1, MembershipInvariant, PTL

-----------------------------------------------------------------------------
(* Migration. The argument is that of the journal: whoever holds the lock  *)
(* has found everything ahead of its cursor complete, and nothing runs     *)
(* without its intent being on record.                                     *)

USE ScriptsAssumption

\* Only the holder of the lock is under way.
Alone == \A p \in Processes: cursor[p].what # "off" => holder = p

\* What a process has come past is complete.
PastIsComplete ==
  \A p \in Processes, s \in Steps:
    cursor[p].what # "off" /\ Before(s, cursor[p].at) => journal[s] = "complete"

\* About to run a statement: it is harmless, or has not run yet.  About to record
\* one: it has run.
AtWork ==
  \A p \in Processes:
    /\ cursor[p].what \in {"execute", "complete"} =>
         cursor[p].at \in Steps /\ journal[cursor[p].at] = "pending"
    /\ cursor[p].what = "execute" =>
         Kind(cursor[p].at) = "repeatable" \/ runs[cursor[p].at] = 0
    /\ cursor[p].what = "complete" => runs[cursor[p].at] > 0

\* The journal and the database agree.
JournalTells ==
  \A s \in Steps:
    /\ journal[s] = "none" => runs[s] = 0
    /\ journal[s] = "complete" => runs[s] > 0
    /\ s \in foreign => journal[s] = "none"
    /\ Kind(s) # "repeatable" => runs[s] <= 1
    /\ s[1] \in done => journal[s] = "complete"

\* A step is begun when all ahead of it are complete.
BegunInOrder ==
  \A s, t \in Steps: Before(s, t) /\ journal[t] # "none" => journal[s] = "complete"

\* The inductive invariant.
MigrationInv ==
  MigrationTypeOK /\ Alone /\ PastIsComplete /\ AtWork /\ JournalTells /\ BegunInOrder

\* A step is a file and a position in it.
LEMMA StepShape ==
  \A s \in Steps: /\ s = <<s[1], s[2]>> /\ s \in Nat \X Nat
                  /\ s[1] \in 1..Len(Scripts) /\ s[2] \in 1..Len(Scripts[s[1]])
<1> SUFFICES ASSUME NEW s \in Steps
             PROVE  /\ s = <<s[1], s[2]>> /\ s \in Nat \X Nat
                    /\ s[1] \in 1..Len(Scripts) /\ s[2] \in 1..Len(Scripts[s[1]])
  OBVIOUS
<1>1. PICK f \in DOMAIN Scripts: s \in {f} \X DOMAIN Scripts[f]
  BY DEF Steps
<1>2. /\ DOMAIN Scripts = 1..Len(Scripts) /\ Len(Scripts) \in Nat
      /\ Scripts[f] \in Seq(Kinds)
  BY <1>1
<1>3. DOMAIN Scripts[f] = 1..Len(Scripts[f]) /\ Len(Scripts[f]) \in Nat
  BY <1>2
<1>. QED BY <1>1, <1>2, <1>3

\* Whatever is ahead of the next step is ahead of this one, or this one.
LEMMA NextStepBefore ==
  ASSUME NEW s \in Steps, NEW t \in Steps, Before(t, NextStep(s))
  PROVE  Before(t, s) \/ t = s
<1>1. /\ s = <<s[1], s[2]>> /\ s[1] \in Nat /\ s[2] \in Nat
      /\ t = <<t[1], t[2]>> /\ t[1] \in Nat /\ t[2] \in Nat
  BY StepShape
<1>2. NextStep(s)[1] = s[1] /\ NextStep(s)[2] = s[2] + 1
  BY DEF NextStep
<1>3. t[1] < s[1] \/ (t[1] = s[1] /\ t[2] < s[2] + 1)
  BY <1>2 DEF Before
<1>4. CASE t[1] < s[1] \/ t[2] < s[2]
  BY <1>1, <1>3, <1>4 DEF Before
<1>5. CASE t[1] = s[1] /\ t[2] = s[2]
  BY <1>1, <1>5
<1>. QED BY <1>1, <1>3, <1>4, <1>5

\* A crash or a stop leaves journal and database as they are.
LEMMA StopKeeps ==
  ASSUME MigrationInv, NEW p \in Processes, Stop(p), UNCHANGED <<journal, done, runs, foreign>>
  PROVE  MigrationInv'
<1>1. cursor' = [cursor EXCEPT ![p] = Off] /\ Off \in Cursors /\ Off.what = "off"
  BY DEF Stop, Off, Cursors
<1>2. /\ cursor'[p].what = "off"
      /\ \A q \in Processes \ {p}: cursor'[q] = cursor[q]
  BY <1>1 DEF MigrationInv, MigrationTypeOK
<1>3. holder' \in {holder, NoProcess} /\ (holder # p => holder' = holder)
  BY DEF Stop
<1>4. MigrationTypeOK'
  BY <1>1, <1>3 DEF MigrationInv, MigrationTypeOK
<1>5. Alone'
  BY <1>2, <1>3 DEF MigrationInv, Alone
<1>6. PastIsComplete'
  BY <1>2 DEF MigrationInv, PastIsComplete
<1>7. AtWork'
  BY <1>2 DEF MigrationInv, AtWork
<1>8. JournalTells' /\ BegunInOrder'
  BY DEF MigrationInv, JournalTells, BegunInOrder, Exists
<1>. QED BY <1>4, <1>5, <1>6, <1>7, <1>8 DEF MigrationInv

\* The lock is free: nobody is under way, and nothing is before the first step.
LEMMA AcquireKeeps ==
  ASSUME MigrationInv, NEW p \in Processes, Acquire(p)
  PROVE  MigrationInv'
<1> DEFINE c == [what |-> "look", at |-> <<1, 1>>]
<1>1. /\ holder = NoProcess /\ holder' = p
      /\ cursor' = [cursor EXCEPT ![p] = c]
      /\ UNCHANGED <<journal, done, runs, foreign>>
  BY DEF Acquire, Go
<1>2. c \in Cursors /\ c.what = "look" /\ c.at = <<1, 1>>
  BY DEF Cursors
<1> HIDE DEF c
<1>3. cursor'[p] = c /\ \A q \in Processes \ {p}: cursor'[q] = cursor[q]
  BY <1>1 DEF MigrationInv, MigrationTypeOK
<1>4. \A q \in Processes \ {p}: cursor'[q].what = "off"
  BY <1>1, <1>3 DEF MigrationInv, Alone
<1>5. MigrationTypeOK'
  BY <1>1, <1>2 DEF MigrationInv, MigrationTypeOK
<1>6. Alone'
  BY <1>1, <1>4 DEF Alone
<1>7. PastIsComplete'
  <2>1. \A s \in Steps: ~Before(s, <<1, 1>>)
    BY StepShape DEF Before
  <2>. QED BY <1>2, <1>3, <1>4, <2>1 DEF PastIsComplete
<1>8. AtWork'
  BY <1>2, <1>3, <1>4 DEF AtWork
<1>9. JournalTells' /\ BegunInOrder'
  BY <1>1 DEF MigrationInv, JournalTells, BegunInOrder
<1>. QED BY <1>5, <1>6, <1>7, <1>8, <1>9 DEF MigrationInv

\* The holder moves on: to its next place, with all ahead of it complete, and the
\* journal and the database still agree.
LEMMA MoveKeeps ==
  ASSUME MigrationInv, NEW p \in Processes, NEW c \in Cursors,
         cursor[p].what # "off", holder' = holder,
         cursor' = [cursor EXCEPT ![p] = c],
         MigrationTypeOK', JournalTells', BegunInOrder',
         \A s \in Steps: Before(s, c.at) => journal'[s] = "complete",
         c.what \in {"execute", "complete"} => c.at \in Steps /\ journal'[c.at] = "pending",
         c.what = "execute" => Kind(c.at) = "repeatable" \/ runs'[c.at] = 0,
         c.what = "complete" => runs'[c.at] > 0
  PROVE  MigrationInv'
<1>1. cursor'[p] = c /\ \A q \in Processes \ {p}: cursor'[q] = cursor[q]
  BY DEF MigrationInv, MigrationTypeOK
<1>2. holder = p
  BY DEF MigrationInv, Alone
<1>3. \A q \in Processes \ {p}: cursor'[q].what = "off"
  BY <1>1, <1>2 DEF MigrationInv, Alone
<1>4. Alone'
  BY <1>2, <1>3 DEF Alone
<1>5. PastIsComplete'
  BY <1>1, <1>3 DEF PastIsComplete
<1>6. AtWork'
  BY <1>1, <1>3 DEF AtWork
<1>. QED BY <1>4, <1>5, <1>6 DEF MigrationInv

\* Past a file that is applied, or whose last step is complete.
LEMMA FileKeeps ==
  ASSUME MigrationInv, NEW p \in Processes, SkipFile(p) \/ FinishFile(p)
  PROVE  MigrationInv'
<1> DEFINE at == cursor[p].at
           f == at[1]
           c == [what |-> "look", at |-> <<f + 1, 1>>]
<1>1. /\ cursor[p].what = "look" /\ holder' = holder
      /\ cursor' = [cursor EXCEPT ![p] = c]
      /\ UNCHANGED <<journal, runs, foreign>>
      /\ \/ f \in done /\ done' = done
         \/ f \in DOMAIN Scripts /\ at[2] > Len(Scripts[f]) /\ done' = done \cup {f}
  BY DEF SkipFile, FinishFile, Go, Looking
<1>2. at \in Nat \X Nat
  BY DEF MigrationInv, MigrationTypeOK, Cursors
<1>3. c \in Cursors /\ c.what = "look" /\ c.at = <<f + 1, 1>>
  BY <1>2 DEF Cursors
<1>4. \A s \in Steps: s[1] < f => journal[s] = "complete"
  BY <1>1, <1>2, StepShape DEF MigrationInv, PastIsComplete, Before
<1>5. \A s \in Steps: s[1] = f => journal[s] = "complete"
  <2>1. CASE f \in done
    BY <2>1 DEF MigrationInv, JournalTells
  <2>2. CASE at[2] > Len(Scripts[f])
    BY <1>1, <1>2, <2>2, StepShape DEF MigrationInv, PastIsComplete, Before
  <2>. QED BY <1>1, <2>1, <2>2
<1> HIDE DEF c
<1>6. \A s \in Steps: Before(s, c.at) => journal'[s] = "complete"
  BY <1>1, <1>2, <1>3, <1>4, <1>5, StepShape DEF Before
<1>7. MigrationTypeOK'
  BY <1>1, <1>3 DEF MigrationInv, MigrationTypeOK
<1>8. JournalTells'
  BY <1>1, <1>5 DEF MigrationInv, JournalTells
<1>9. BegunInOrder'
  BY <1>1 DEF MigrationInv, BegunInOrder
<1>. QED BY <1>1, <1>3, <1>6, <1>7, <1>8, <1>9, MoveKeeps

\* Past a step that is complete.
LEMMA SkipKeeps ==
  ASSUME MigrationInv, NEW p \in Processes, SkipStep(p)
  PROVE  MigrationInv'
<1> DEFINE s == cursor[p].at
           c == [what |-> "look", at |-> NextStep(s)]
<1>1. /\ cursor[p].what = "look" /\ holder' = holder /\ s \in Steps
      /\ cursor' = [cursor EXCEPT ![p] = c]
      /\ UNCHANGED <<journal, done, runs, foreign>>
      /\ journal[s] = "complete"
  BY DEF SkipStep, Go, AtStep, Looking
<1>2. c \in Cursors /\ c.what = "look" /\ c.at = NextStep(s)
  BY <1>1, StepShape DEF Cursors, NextStep
<1>3. \A t \in Steps: Before(t, NextStep(s)) => Before(t, s) \/ t = s
  BY <1>1, NextStepBefore
<1> HIDE DEF c
<1>4. \A t \in Steps: Before(t, c.at) => journal'[t] = "complete"
  BY <1>1, <1>2, <1>3 DEF MigrationInv, PastIsComplete
<1>5. MigrationTypeOK' /\ JournalTells' /\ BegunInOrder'
  BY <1>1, <1>2 DEF MigrationInv, MigrationTypeOK, JournalTells, BegunInOrder
<1>. QED BY <1>1, <1>2, <1>4, <1>5, MoveKeeps

\* The intent of a step that was never begun.
LEMMA IntendKeeps ==
  ASSUME MigrationInv, NEW p \in Processes, Intend(p)
  PROVE  MigrationInv'
<1> DEFINE s == cursor[p].at
           c == [what |-> "execute", at |-> s]
<1>1. /\ cursor[p].what = "look" /\ holder' = holder /\ s \in Steps
      /\ s[1] \notin done /\ journal[s] = "none" /\ ~Exists(s)
      /\ journal' = [journal EXCEPT ![s] = "pending"]
      /\ cursor' = [cursor EXCEPT ![p] = c]
      /\ UNCHANGED <<done, runs, foreign>>
  BY DEF Intend, Go, AtStep, Looking
<1>2. c \in Cursors /\ c.what = "execute" /\ c.at = s
  BY <1>1, StepShape DEF Cursors
<1>3. journal'[s] = "pending" /\ \A t \in Steps: t # s => journal'[t] = journal[t]
  BY <1>1 DEF MigrationInv, MigrationTypeOK
<1>4. s \notin foreign /\ runs[s] = 0
  BY <1>1 DEF MigrationInv, MigrationTypeOK, JournalTells, Exists
<1>5. \A t \in Steps: Before(t, s) => journal[t] = "complete"
  BY <1>1 DEF MigrationInv, PastIsComplete
<1>6. \A t \in Steps: Before(t, s) => journal'[t] = "complete"
  BY <1>1, <1>3, <1>5
<1> HIDE DEF c
<1>7. MigrationTypeOK'
  BY <1>1, <1>2 DEF MigrationInv, MigrationTypeOK
<1>8. JournalTells'
  BY <1>1, <1>3, <1>4 DEF MigrationInv, JournalTells
<1>9. BegunInOrder'
  BY <1>1, <1>3, <1>6 DEF MigrationInv, BegunInOrder
<1>. QED BY <1>1, <1>2, <1>3, <1>4, <1>6, <1>7, <1>8, <1>9, MoveKeeps

\* A step somebody began: its object is there, or it can run again.
LEMMA RecoverKeeps ==
  ASSUME MigrationInv, NEW p \in Processes, Recover(p)
  PROVE  MigrationInv'
<1> DEFINE s == cursor[p].at
           c == [what |-> IF Exists(s) THEN "complete" ELSE "execute", at |-> s]
<1>1. /\ cursor[p].what = "look" /\ holder' = holder /\ s \in Steps
      /\ journal[s] = "pending" /\ Kind(s) # "opaque"
      /\ cursor' = [cursor EXCEPT ![p] = c]
      /\ UNCHANGED <<journal, done, runs, foreign>>
  BY DEF Recover, Go, AtStep, Looking, Recoverable
<1>2. /\ c \in Cursors /\ c.at = s /\ c.what \in {"execute", "complete"}
      /\ c.what = "complete" <=> Exists(s)
  BY <1>1, StepShape DEF Cursors
<1>3. Kind(s) \in Kinds
  BY <1>1, StepShape DEF Kind
<1>4. runs[s] \in 0..2 /\ s \notin foreign
  BY <1>1 DEF MigrationInv, MigrationTypeOK, JournalTells
<1>5. Exists(s) => runs[s] > 0
  BY <1>4 DEF Exists
<1>6. ~Exists(s) => Kind(s) = "repeatable" \/ runs[s] = 0
  BY <1>1, <1>3, <1>4 DEF Exists, Kinds
<1>7. \A t \in Steps: Before(t, s) => journal[t] = "complete"
  BY <1>1 DEF MigrationInv, PastIsComplete
<1> HIDE DEF c
<1>8. MigrationTypeOK' /\ JournalTells' /\ BegunInOrder'
  BY <1>1, <1>2 DEF MigrationInv, MigrationTypeOK, JournalTells, BegunInOrder
<1>. QED BY <1>1, <1>2, <1>5, <1>6, <1>7, <1>8, MoveKeeps

\* The statement runs.
LEMMA ExecuteKeeps ==
  ASSUME MigrationInv, NEW p \in Processes, Execute(p)
  PROVE  MigrationInv'
<1> DEFINE s == cursor[p].at
           c == [what |-> "complete", at |-> s]
<1>1. /\ cursor[p].what = "execute" /\ holder' = holder
      /\ runs' = [runs EXCEPT ![s] = IF @ < 2 THEN @ + 1 ELSE @]
      /\ cursor' = [cursor EXCEPT ![p] = c]
      /\ UNCHANGED <<journal, done, foreign>>
  BY DEF Execute, Go
<1>2. /\ s \in Steps /\ journal[s] = "pending"
      /\ Kind(s) = "repeatable" \/ runs[s] = 0
  BY <1>1 DEF MigrationInv, AtWork
<1>3. c \in Cursors /\ c.what = "complete" /\ c.at = s
  BY <1>2, StepShape DEF Cursors
<1>4. /\ runs[s] \in 0..2
      /\ runs'[s] = IF runs[s] < 2 THEN runs[s] + 1 ELSE runs[s]
      /\ \A t \in Steps: t # s => runs'[t] = runs[t]
  BY <1>1, <1>2 DEF MigrationInv, MigrationTypeOK
<1>5. runs'[s] \in 1..2 /\ (Kind(s) # "repeatable" => runs'[s] <= 1)
  BY <1>2, <1>4
<1>6. \A t \in Steps: Before(t, s) => journal[t] = "complete"
  BY <1>1 DEF MigrationInv, PastIsComplete
<1> HIDE DEF c
<1>7. \A t \in Steps: Before(t, c.at) => journal'[t] = "complete"
  BY <1>1, <1>3, <1>6
<1>8. runs'[c.at] > 0
  BY <1>3, <1>5
<1>9. MigrationTypeOK'
  <2>1. runs' \in [Steps -> 0..2]
    BY <1>1, <1>2, <1>4, <1>5 DEF MigrationInv, MigrationTypeOK
  <2>. QED BY <1>1, <1>3, <2>1 DEF MigrationInv, MigrationTypeOK
<1>10. JournalTells'
  <2>1. ASSUME NEW t \in Steps
        PROVE  /\ journal'[t] = "none" => runs'[t] = 0
               /\ journal'[t] = "complete" => runs'[t] > 0
               /\ Kind(t) # "repeatable" => runs'[t] <= 1
    BY <1>1, <1>2, <1>4, <1>5 DEF MigrationInv, JournalTells
  <2>. QED BY <1>1, <2>1 DEF MigrationInv, JournalTells
<1>11. BegunInOrder'
  BY <1>1 DEF MigrationInv, BegunInOrder
<1>. QED BY <1>1, <1>2, <1>3, <1>7, <1>8, <1>9, <1>10, <1>11, MoveKeeps

\* The step that has run is recorded.
LEMMA CompleteKeeps ==
  ASSUME MigrationInv, NEW p \in Processes, Complete(p)
  PROVE  MigrationInv'
<1> DEFINE s == cursor[p].at
           c == [what |-> "look", at |-> NextStep(s)]
<1>1. /\ cursor[p].what = "complete" /\ holder' = holder
      /\ journal' = [journal EXCEPT ![s] = "complete"]
      /\ cursor' = [cursor EXCEPT ![p] = c]
      /\ UNCHANGED <<done, runs, foreign>>
  BY DEF Complete, Go
<1>2. s \in Steps /\ journal[s] = "pending" /\ runs[s] > 0
  BY <1>1 DEF MigrationInv, AtWork
<1>3. c \in Cursors /\ c.what = "look" /\ c.at = NextStep(s)
  BY <1>2, StepShape DEF Cursors, NextStep
<1>4. journal'[s] = "complete" /\ \A t \in Steps: t # s => journal'[t] = journal[t]
  BY <1>1, <1>2 DEF MigrationInv, MigrationTypeOK
<1>5. \A t \in Steps: Before(t, s) => journal'[t] = "complete"
  BY <1>1, <1>4 DEF MigrationInv, PastIsComplete
<1>6. \A t \in Steps: Before(t, NextStep(s)) => Before(t, s) \/ t = s
  BY <1>2, NextStepBefore
<1> HIDE DEF c
<1>7. \A t \in Steps: Before(t, c.at) => journal'[t] = "complete"
  BY <1>3, <1>4, <1>5, <1>6
<1>8. MigrationTypeOK'
  BY <1>1, <1>3 DEF MigrationInv, MigrationTypeOK
<1>9. JournalTells'
  BY <1>1, <1>2, <1>4 DEF MigrationInv, JournalTells
<1>10. BegunInOrder'
  BY <1>4, <1>5 DEF MigrationInv, BegunInOrder
<1>. QED BY <1>1, <1>3, <1>7, <1>8, <1>9, <1>10, MoveKeeps

\* The invariant holds in every state.
LEMMA MigrationInvariant == MigrationSpec => []MigrationInv
<1>1. MigrationInit => MigrationInv
  <2> SUFFICES ASSUME MigrationInit
               PROVE  MigrationInv
    OBVIOUS
  <2>1. \A p \in Processes: cursor[p] = Off /\ Off \in Cursors /\ cursor[p].what = "off"
    BY DEF MigrationInit, Off, Cursors
  <2>2. foreign \subseteq {s \in Steps: Kind(s) = "created"}
    BY DEF MigrationInit
  <2>3. MigrationTypeOK
    BY <2>1, <2>2 DEF MigrationInit, MigrationTypeOK
  <2>4. Alone /\ PastIsComplete /\ AtWork
    BY <2>1 DEF Alone, PastIsComplete, AtWork
  <2>5. JournalTells /\ BegunInOrder
    BY DEF MigrationInit, JournalTells, BegunInOrder
  <2>. QED BY <2>3, <2>4, <2>5 DEF MigrationInv
<1>2. MigrationInv /\ [MigrationNext]_migrationVars => MigrationInv'
  <2> SUFFICES ASSUME MigrationInv, [MigrationNext]_migrationVars
               PROVE  MigrationInv'
    OBVIOUS
  <2>1. CASE UNCHANGED migrationVars
    BY <2>1 DEF migrationVars, MigrationInv, MigrationTypeOK, Alone, PastIsComplete, AtWork,
                JournalTells, BegunInOrder
  <2>2. ASSUME NEW p \in Processes, Crash(p) \/ Refuse(p) \/ Ready(p)
        PROVE  MigrationInv'
    BY <2>2, StopKeeps DEF Crash, Refuse, Ready
  <2>. QED
    BY <2>1, <2>2, AcquireKeeps, FileKeeps, SkipKeeps, IntendKeeps, RecoverKeeps,
       ExecuteKeeps, CompleteKeeps DEF MigrationNext, Migrate
<1>. QED BY <1>1, <1>2, PTL DEF MigrationSpec

\* Every state of the migrations has the declared types.
THEOREM MigrationTypeCorrect == MigrationSpec => []MigrationTypeOK
<1>1. MigrationInv => MigrationTypeOK
  BY DEF MigrationInv
<1>. QED BY <1>1, MigrationInvariant, PTL

\* Whoever starts and dies when, a step that may not be repeated runs once at
\* most, after the steps ahead of it and over nothing it has not made, and a file
\* counts as applied when all of it has run.
THEOREM MigrationsApplyOnce == MigrationSpec => []AppliedOnceInOrder
<1>1. MigrationInv => AppliedOnceInOrder
  <2> SUFFICES ASSUME MigrationInv
               PROVE  AppliedOnceInOrder
    OBVIOUS
  <2>1. journal \in [Steps -> {"none", "pending", "complete"}] /\ runs \in [Steps -> 0..2]
    BY DEF MigrationInv, MigrationTypeOK
  <2>2. foreign \subseteq Steps
    BY DEF MigrationInv, MigrationTypeOK
  <2>. QED BY <2>1, <2>2 DEF MigrationInv, JournalTells, BegunInOrder, AppliedOnceInOrder
<1>. QED BY <1>1, MigrationInvariant, PTL

-----------------------------------------------------------------------------
(* Billing: the stored modules are those of the subscription heard of last *)

\* The status stored for a module is the one its subscription gives it.
StoredFollows ==
  heard # Unset /\ ~outrun /\ subscriptions[heard].status # "past_due" =>
    \A f \in Features \ byHand: access[f] = EntitlementsFor(subscriptions[heard])[f]

\* A trial's end, in a subscription or in the row of a module, was delivered.
EndsDelivered ==
  /\ \A s \in Subscriptions: subscriptions[s].trialEnd # Unset =>
       \E e \in applied: e.trialEnd = subscriptions[s].trialEnd
  /\ \A f \in Features: validUntil[f] # Unset => \E e \in applied: e.trialEnd = validUntil[f]

\* The inductive invariant.
BillingInv == BillingTypeOK /\ StoredFollows /\ EndsDelivered

\* An event makes a proper subscription of the one before.
LEMMA NextSubscriptionType ==
  ASSUME BillingTypeOK, NEW event \in Events
  PROVE  /\ NextSubscription(event) \in Subscription
         /\ event.type = "payment.failed" => NextSubscription(event).status = "past_due"
<1>1. /\ event.subscription \in Subscriptions
      /\ event.type \in EventTypes
      /\ event.status \in Statuses \cup {Unset}
      /\ event.features \in (SUBSET Features) \cup {Unset}
      /\ event.trialEnd \in Dates
  BY EventsAssumption
<1>2. Base(event) \in Subscription
  BY <1>1 DEF Base, BillingTypeOK, Subscription, Statuses, Dates
<1> DEFINE status == IF event.status = Unset THEN Base(event).status ELSE event.status
<1>3. status \in Statuses \cup {"none"}
  BY <1>1, <1>2 DEF Subscription
<1> HIDE DEF status
<1>4. /\ NextStatus(event) \in Statuses \cup {"none"}
      /\ event.type = "payment.failed" => NextStatus(event) = "past_due"
  <2>1. NextStatus(event) =
          CASE event.type = "subscription.cancelled" -> "cancelled"
            [] event.type = "payment.failed" -> "past_due"
            [] event.type = "payment.succeeded" /\ status = "past_due" -> "active"
            [] OTHER -> status
    BY DEF NextStatus, status
  <2>2. CASE event.type = "subscription.cancelled"
    BY <2>1, <2>2 DEF Statuses
  <2>3. CASE event.type = "payment.failed"
    BY <2>1, <2>3 DEF Statuses
  <2>4. CASE event.type = "payment.succeeded" /\ status = "past_due"
    BY <2>1, <2>4 DEF Statuses
  <2>5. CASE /\ event.type \notin {"subscription.cancelled", "payment.failed"}
             /\ ~(event.type = "payment.succeeded" /\ status = "past_due")
    BY <1>3, <2>1, <2>5
  <2>. QED BY <2>2, <2>3, <2>4, <2>5
<1>. QED BY <1>1, <1>2, <1>4 DEF NextSubscription, Subscription

\* The end of the trial of a subscription an event made was delivered by it or
\* before it.
LEMMA NextEndDelivered ==
  ASSUME BillingTypeOK, EndsDelivered, NEW event \in Events,
         NextSubscription(event).trialEnd # Unset
  PROVE  \E e \in applied \cup {event}: e.trialEnd = NextSubscription(event).trialEnd
<1>1. event.subscription \in Subscriptions
  BY EventsAssumption
<1>2. NextSubscription(event).trialEnd =
        IF event.trialEnd = Unset THEN Base(event).trialEnd ELSE event.trialEnd
  BY DEF NextSubscription
<1>3. Base(event).trialEnd \in {Unset, subscriptions[event.subscription].trialEnd}
  BY DEF Base
<1>. QED BY <1>1, <1>2, <1>3 DEF EndsDelivered

\* An event writes proper modules; with a snapshot that is not out of date it
\* leaves just those of its subscription, and an end is its trial's or was there.
LEMMA ModulesSet ==
  ASSUME BillingTypeOK, NEW w \in Deliveries, delivery[w].event \in Events, SetModules(w)
  PROVE  /\ access' \in [Features -> AccessStatuses]
         /\ validUntil' \in [Features -> Dates]
         /\ \A f \in Features: validUntil'[f] \in
              {validUntil[f], Unset, NextSubscription(delivery[w].event).trialEnd}
         /\ delivery[w].seen = access =>
              \A f \in Features: access'[f] = EntitlementsFor(NextSubscription(delivery[w].event))[f]
<1> DEFINE sub == NextSubscription(delivery[w].event)
           wanted == EntitlementsFor(sub)
<1>1. wanted \in [Features -> AccessStatuses]
  BY DEF EntitlementsFor, AccessStatuses
<1>2. sub.trialEnd \in Dates
  BY NextSubscriptionType DEF Subscription
<1>3. EndOf(sub) \in {Unset, sub.trialEnd} /\ Unset \in Dates
  BY DEF EndOf, Dates
<1>4. access \in [Features -> AccessStatuses] /\ validUntil \in [Features -> Dates]
  BY DEF BillingTypeOK
<1>5. /\ access' = [f \in Features |-> IF f \in Rewritten(w) THEN wanted[f] ELSE access[f]]
      /\ validUntil' = [f \in Features |-> IF f \in Rewritten(w) THEN EndOf(sub) ELSE validUntil[f]]
  BY DEF SetModules
<1>6. Rewritten(w) = {f \in Features: delivery[w].seen[f] # wanted[f]}
  BY DEF Rewritten
<1> HIDE DEF wanted, sub
<1>7. delivery[w].seen = access => \A f \in Features: access'[f] = wanted[f]
  BY <1>5, <1>6
<1>. QED BY <1>1, <1>2, <1>3, <1>4, <1>5, <1>7 DEF wanted, sub

\* An event leaves the modules of the subscription it makes, or a grace, or was
\* overtaken.
LEMMA ApplyKeeps ==
  ASSUME BillingInv, NEW w \in Deliveries, ApplyEvent(w)
  PROVE  BillingInv'
<1> USE UnsetAssumption
<1> DEFINE event == delivery[w].event
           sub == NextSubscription(event)
<1>1. /\ event # Unset
      /\ subscriptions' = [subscriptions EXCEPT ![event.subscription] = sub]
      /\ applied' = applied \cup {event}
      /\ delivery' = [delivery EXCEPT ![w] = NoDelivery]
      /\ today' = today
  BY DEF ApplyEvent
<1>2. BillingTypeOK /\ EndsDelivered /\ event \in Events
  BY <1>1 DEF BillingInv, BillingTypeOK
<1>3. event.subscription \in Subscriptions
  BY <1>2, EventsAssumption
<1>4. /\ sub \in Subscription
      /\ event.type = "payment.failed" => sub.status = "past_due"
      /\ sub.trialEnd # Unset => \E e \in applied': e.trialEnd = sub.trialEnd
  BY <1>1, <1>2, NextSubscriptionType, NextEndDelivered
<1> HIDE DEF sub
<1>5. NoDelivery \in [event: Events \cup {Unset}, seen: [Features -> AccessStatuses]]
  BY DEF NoDelivery, AccessStatuses
<1>6. /\ subscriptions' \in [Subscriptions -> Subscription]
      /\ subscriptions'[event.subscription] = sub
      /\ \A s \in Subscriptions \ {event.subscription}: subscriptions'[s] = subscriptions[s]
      /\ applied' \subseteq Events
      /\ delivery' \in [Deliveries -> [event: Events \cup {Unset}, seen: [Features -> AccessStatuses]]]
  BY <1>1, <1>2, <1>3, <1>4, <1>5 DEF BillingTypeOK
<1>7. \A s \in Subscriptions: subscriptions'[s].trialEnd # Unset =>
        \E e \in applied': e.trialEnd = subscriptions'[s].trialEnd
  BY <1>1, <1>2, <1>4, <1>6 DEF EndsDelivered
<1>8. CASE event.type = "payment.failed"
  <2>1. UNCHANGED <<access, validUntil, heard, byHand, outrun>>
    BY <1>8 DEF ApplyEvent
  <2>2. BillingTypeOK'
    BY <1>1, <1>2, <1>6, <2>1 DEF BillingTypeOK
  <2>3. StoredFollows'
    <3>1. CASE heard = event.subscription
      BY <1>4, <1>6, <1>8, <2>1, <3>1 DEF StoredFollows
    <3>2. CASE heard # event.subscription
      <4>1. heard # Unset => subscriptions'[heard] = subscriptions[heard]
        BY <1>2, <1>6, <3>2 DEF BillingTypeOK
      <4>. QED BY <2>1, <4>1 DEF BillingInv, StoredFollows, EntitlementsFor
    <3>. QED BY <3>1, <3>2
  <2>4. EndsDelivered'
    BY <1>1, <1>2, <1>7, <2>1 DEF EndsDelivered
  <2>. QED BY <2>2, <2>3, <2>4 DEF BillingInv
<1>9. CASE event.type # "payment.failed"
  <2>1. /\ SetModules(w)
        /\ heard' = event.subscription /\ byHand' = {} /\ outrun' = (delivery[w].seen # access)
    BY <1>9 DEF ApplyEvent
  <2>2. /\ access' \in [Features -> AccessStatuses]
        /\ validUntil' \in [Features -> Dates]
        /\ \A f \in Features: validUntil'[f] \in {validUntil[f], Unset, sub.trialEnd}
        /\ delivery[w].seen = access => \A f \in Features: access'[f] = EntitlementsFor(sub)[f]
    BY <1>2, <2>1, ModulesSet DEF sub
  <2>3. outrun' \in BOOLEAN
    BY <2>1
  <2>4. BillingTypeOK'
    BY <1>1, <1>2, <1>3, <1>6, <2>1, <2>2, <2>3 DEF BillingTypeOK
  <2>5. StoredFollows'
    <3>1. ~outrun' => \A f \in Features: access'[f] = EntitlementsFor(sub)[f]
      BY <2>1, <2>2
    <3>2. subscriptions'[heard'] = sub
      BY <1>6, <2>1
    <3>3. ASSUME NEW f \in Features, ~outrun'
          PROVE  access'[f] = EntitlementsFor(subscriptions'[heard'])[f]
      BY <3>1, <3>2, <3>3
    <3>. QED BY <3>3 DEF StoredFollows, EntitlementsFor
  <2>6. EndsDelivered'
    BY <1>1, <1>2, <1>4, <1>7, <2>2 DEF EndsDelivered
  <2>. QED BY <2>4, <2>5, <2>6 DEF BillingInv
<1>. QED BY <1>8, <1>9

\* The invariant holds in every state.
LEMMA BillingInvariant == BillingSpec => []BillingInv
<1>1. BillingInit => BillingInv
  <2> SUFFICES ASSUME BillingInit PROVE BillingInv
    OBVIOUS
  <2>1. /\ access \in [Features -> AccessStatuses]
        /\ validUntil \in [Features -> Dates]
        /\ delivery \in [Deliveries -> [event: Events \cup {Unset}, seen: [Features -> AccessStatuses]]]
        /\ subscriptions \in [Subscriptions -> Subscription]
    BY DEF BillingInit, NoDelivery, NoSubscription, Subscription, AccessStatuses, Dates
  <2>2. outrun \in BOOLEAN /\ applied = {} /\ byHand = {} /\ heard = Unset
    BY DEF BillingInit
  <2>4. today \in 0..LastDay
    BY LastDayAssumption DEF BillingInit
  <2>3. /\ \A s \in Subscriptions: subscriptions[s].trialEnd = Unset
        /\ \A f \in Features: validUntil[f] = Unset
    BY DEF BillingInit, NoSubscription
  <2>. QED BY <2>1, <2>2, <2>3, <2>4 DEF BillingInv, BillingTypeOK, StoredFollows, EndsDelivered
<1>2. BillingInv /\ [BillingNext]_billingVars => BillingInv'
  <2> SUFFICES ASSUME BillingInv, [BillingNext]_billingVars
               PROVE  BillingInv'
    OBVIOUS
  <2>1. ASSUME UNCHANGED <<subscriptions, access, validUntil, applied, heard, byHand, outrun>>
        PROVE  StoredFollows' /\ EndsDelivered'
    BY <2>1 DEF BillingInv, StoredFollows, EndsDelivered, EntitlementsFor
  <2>2. CASE UNCHANGED billingVars
    BY <2>1, <2>2 DEF billingVars, BillingInv, BillingTypeOK
  <2>3. CASE SetEntitlement
    <3>1. PICK f \in Features, status \in AccessStatuses:
            /\ access' = [access EXCEPT ![f] = status]
            /\ byHand' = byHand \cup {f}
            /\ UNCHANGED <<subscriptions, validUntil, today, applied, delivery, heard, outrun>>
      BY <2>3 DEF SetEntitlement
    <3>2. BillingTypeOK'
      BY <3>1 DEF BillingInv, BillingTypeOK
    <3>3. StoredFollows'
      BY <3>1 DEF BillingInv, BillingTypeOK, StoredFollows, EntitlementsFor
    <3>4. EndsDelivered'
      BY <3>1 DEF BillingInv, EndsDelivered
    <3>. QED BY <3>2, <3>3, <3>4 DEF BillingInv
  <2>4. CASE DayPasses
    <3>1. /\ UNCHANGED <<subscriptions, access, validUntil, applied, delivery, heard, byHand, outrun>>
          /\ today' \in 0..LastDay
      BY <2>4, LastDayAssumption DEF DayPasses, BillingInv, BillingTypeOK
    <3>2. BillingTypeOK'
      BY <3>1 DEF BillingInv, BillingTypeOK
    <3>. QED BY <2>1, <3>1, <3>2 DEF BillingInv
  <2>5. ASSUME NEW w \in Deliveries, BeginDelivery(w) \/ EndDelivery(w) PROVE BillingInv'
    <3>1. /\ UNCHANGED <<subscriptions, access, validUntil, today, applied, heard, byHand, outrun>>
          /\ delivery' \in [Deliveries -> [event: Events \cup {Unset}, seen: [Features -> AccessStatuses]]]
      BY <2>5 DEF BeginDelivery, EndDelivery, NoDelivery, AccessStatuses, BillingInv, BillingTypeOK
    <3>2. BillingTypeOK'
      BY <3>1 DEF BillingInv, BillingTypeOK
    <3>. QED BY <2>1, <3>1, <3>2 DEF BillingInv
  <2>. QED BY <2>2, <2>3, <2>4, <2>5, ApplyKeeps DEF BillingNext
<1>. QED BY <1>1, <1>2, PTL DEF BillingSpec

\* Every state of the subscriptions has the declared types.
THEOREM BillingTypeCorrect == BillingSpec => []BillingTypeOK
<1>1. BillingInv => BillingTypeOK
  BY DEF BillingInv
<1>. QED BY <1>1, BillingInvariant, PTL

\* Whatever is delivered late, twice or in another order, the modules are those of
\* the subscription heard of last, or fewer where the end of a trial that was
\* delivered is past, but for the named exceptions.
THEOREM AccessIsTheSubscriptions == BillingSpec => []AccessFollowsSubscription
<1>1. BillingInv => AccessFollowsSubscription
  <2> SUFFICES ASSUME BillingInv, heard # Unset, ~outrun,
                      subscriptions[heard].status # "past_due", NEW f \in Features \ byHand
               PROVE  LET wanted == EntitlementsFor(subscriptions[heard])[f] IN
                      \/ Access(f) = wanted
                      \/ /\ wanted = "active" /\ Access(f) = "read_only"
                         /\ \E e \in applied: Past(e.trialEnd) /\ e.trialEnd = validUntil[f]
    BY DEF AccessFollowsSubscription
  <2>1. access[f] = EntitlementsFor(subscriptions[heard])[f]
    BY DEF BillingInv, StoredFollows
  <2>2. CASE access[f] = "active" /\ Past(validUntil[f])
    <3>1. PICK e \in applied: e.trialEnd = validUntil[f]
      BY <2>2 DEF BillingInv, EndsDelivered, Past
    <3>2. Access(f) = "read_only" /\ Past(e.trialEnd)
      BY <2>2, <3>1 DEF Access
    <3>. QED BY <2>1, <2>2, <3>1, <3>2
  <2>3. CASE ~(access[f] = "active" /\ Past(validUntil[f]))
    BY <2>1, <2>3 DEF Access
  <2>. QED BY <2>2, <2>3
<1>. QED BY <1>1, BillingInvariant, PTL

=============================================================================
