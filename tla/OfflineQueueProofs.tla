------------------------- MODULE OfflineQueueProofs -------------------------
(***************************************************************************)
(* That nothing captured offline is dropped silently, for any number of    *)
(* items, tabs and users.  The strengthening says that a loop, a recovery  *)
(* and the queue hold captured items only, and that a loop which is about  *)
(* to remove an item was told so by a server that has it.  And that in a   *)
(* browser with one tab a refused item waits for its user.                 *)
(***************************************************************************)
EXTENDS OfflineQueue, TLAPS

LoopsHoldCaptured ==
  /\ Present(queue) \subseteq captured
  /\ \A t \in Tabs: /\ Present(snap[t]) \subseteq captured
                    /\ recover[t] \subseteq captured
                    /\ offered[t] \subseteq captured
                    /\ reply[t] # "none" => cur[t] \in captured

OkMeansAccepted == \A t \in Tabs: reply[t] = "ok" => accepted[cur[t]] # None

IInv == TypeOK /\ LoopsHoldCaptured /\ OkMeansAccepted /\ NotDroppedSilently

\* The facts about the server every step of it relies on: a record, once made,
\* stays.
LEMMA ServesKeeps ==
  ASSUME TypeOK, NEW i \in Items, NEW who \in Users, NEW what, Serves(i, who, what)
  PROVE  /\ accepted' \in [Items -> Someone]
         /\ \A j \in Items: accepted[j] # None => accepted'[j] # None
         /\ what = "ok" => accepted'[i] # None
BY NoneAssumption DEF TypeOK, Serves, Someone

\* The invariant holds of an empty queue.
LEMMA InitInvariant == Init => IInv
BY BoundAssumption, NoneAssumption
DEF Init, IInv, TypeOK, LoopsHoldCaptured, OkMeansAccepted, NotDroppedSilently, Nothing,
    Present, Statuses, Replies, Someone

\* What a tab's list offers was captured.
OffersCaptured == /\ offered \in [Tabs -> SUBSET Items]
                  /\ \A u \in Tabs: offered[u] \subseteq captured

\* Reading the list again offers only captured items.
LEMMA ReloadKeeps ==
  ASSUME OffersCaptured, NEW t \in Tabs, NEW q, Present(q) \subseteq captured',
         captured \subseteq captured', Reload(t, q) \/ ReloadIfDone(t, q)
  PROVE  OffersCaptured'
<1>1. Offered(t, q) \in SUBSET Items /\ Offered(t, q) \subseteq Present(q)
  BY DEF Offered, Mine, Present
<1>2. CASE offered' = [offered EXCEPT ![t] = Offered(t, q)]
  BY <1>1, <1>2 DEF OffersCaptured
<1>3. CASE UNCHANGED offered
  BY <1>3 DEF OffersCaptured
<1> QED BY <1>2, <1>3 DEF Reload, ReloadIfDone

\* Starting a loop: its snapshot is part of the queue.
LEMMA StartKeeps ==
  ASSUME IInv, NEW t \in Tabs, NEW items \in SUBSET Items, NEW forced \in SUBSET Items,
         Start(t, items, forced), retries' \in 0..MaxRetries
  PROVE  IInv'
<1>1. /\ snap' \in [Tabs -> [Items -> Statuses]]
      /\ \A u \in Tabs: Present(snap'[u]) \subseteq captured
  BY DEF IInv, TypeOK, LoopsHoldCaptured, Start, Present, Statuses
<1>2. force' \in [Tabs -> SUBSET Items]
  BY DEF IInv, TypeOK, Start
<1>3. OffersCaptured'
  BY ReloadKeeps DEF IInv, TypeOK, LoopsHoldCaptured, OffersCaptured, Start, queueVars
<1> QED
  BY <1>1, <1>2, <1>3
  DEF IInv, TypeOK, LoopsHoldCaptured, OffersCaptured, OkMeansAccepted, NotDroppedSilently,
      Start, queueVars, serverVars

\* The loop a tab leaves an item of visits a part of what it visited.
LEMMA LeaveKeeps ==
  ASSUME TypeOK, LoopsHoldCaptured, NEW t \in Tabs, NEW i \in Items, Leave(t, i)
  PROVE  /\ snap' \in [Tabs -> [Items -> Statuses]]
         /\ \A u \in Tabs: Present(snap'[u]) \subseteq captured
<1>1. snap' = [snap EXCEPT ![t] = [snap[t] EXCEPT ![i] = "absent"]]
  BY DEF Leave
<1>2. [snap[t] EXCEPT ![i] = "absent"] \in [Items -> Statuses]
  BY DEF TypeOK, Statuses
<1>3. Present([snap[t] EXCEPT ![i] = "absent"]) \subseteq Present(snap[t])
  BY DEF TypeOK, Present
<1> QED BY <1>1, <1>2, <1>3 DEF TypeOK, LoopsHoldCaptured

\* Capturing an item keeps the invariant.
LEMMA EnqueueKeeps ==
  ASSUME IInv, NEW t \in Tabs, NEW i \in Items, Enqueue(t, i)
  PROVE  IInv'
<1>1. Present(queue') \subseteq captured'
  BY DEF IInv, TypeOK, LoopsHoldCaptured, Enqueue, Put, Present
<1>2. OffersCaptured'
  BY <1>1, ReloadKeeps DEF IInv, TypeOK, LoopsHoldCaptured, OffersCaptured, Enqueue
<1>3. /\ queue' \in [Items -> Statuses]
      /\ captured' \subseteq Items /\ captured \subseteq captured'
      /\ discarded' \subseteq captured'
      /\ accepted' \in [Items -> Someone]
  BY DEF IInv, TypeOK, Enqueue, Put, Statuses, Someone
<1>4. TypeOK'
  BY <1>2, <1>3 DEF IInv, TypeOK, OffersCaptured, Enqueue, loopVars, bounds
<1>5. LoopsHoldCaptured'
  BY <1>1, <1>2, <1>3 DEF IInv, LoopsHoldCaptured, OffersCaptured, Enqueue, loopVars
<1>6. \A j \in captured: accepted'[j] = accepted[j] /\ queue'[j] = queue[j]
  BY DEF IInv, TypeOK, Enqueue, Put
<1>7. OkMeansAccepted'
  BY <1>6 DEF IInv, LoopsHoldCaptured, OkMeansAccepted, Enqueue, loopVars
<1>8. NotDroppedSilently'
  BY <1>6 DEF IInv, TypeOK, NotDroppedSilently, Enqueue, Put
<1> QED BY <1>4, <1>5, <1>7, <1>8 DEF IInv

\* Discarding an item keeps the invariant: it counts as discarded.
LEMMA DiscardKeeps ==
  ASSUME IInv, NEW t \in Tabs, NEW i \in Items, Discard(t, i)
  PROVE  IInv'
<1>1. i \in captured /\ Present(queue') \subseteq captured'
  BY DEF IInv, TypeOK, LoopsHoldCaptured, Discard, Put, Present
<1>2. OffersCaptured'
  BY <1>1, ReloadKeeps DEF IInv, TypeOK, LoopsHoldCaptured, OffersCaptured, Discard
<1>3. TypeOK' /\ LoopsHoldCaptured'
  BY <1>1, <1>2 DEF IInv, TypeOK, LoopsHoldCaptured, OffersCaptured, Discard, Put, Statuses,
     serverVars, loopVars, bounds
<1>4. OkMeansAccepted' /\ NotDroppedSilently'
  BY DEF IInv, TypeOK, OkMeansAccepted, NotDroppedSilently, Discard, Put, loopVars, serverVars
<1> QED BY <1>3, <1>4 DEF IInv

\* A loop that passes over an item keeps the invariant.
LEMMA SkipKeeps ==
  ASSUME IInv, NEW t \in Tabs, NEW i \in Items, Skip(t, i)
  PROVE  IInv'
<1>1. /\ snap' \in [Tabs -> [Items -> Statuses]]
      /\ \A u \in Tabs: Present(snap'[u]) \subseteq captured
  BY LeaveKeeps DEF IInv, Skip
<1>2. OffersCaptured'
  BY ReloadKeeps DEF IInv, TypeOK, LoopsHoldCaptured, OffersCaptured, Skip, queueVars
<1> QED
  BY <1>1, <1>2
  DEF IInv, TypeOK, LoopsHoldCaptured, OffersCaptured, OkMeansAccepted, NotDroppedSilently,
      Skip, queueVars, serverVars, bounds

\* A loop that starts to send an item keeps the invariant.
LEMMA TakeKeeps ==
  ASSUME IInv, NEW t \in Tabs, NEW i \in Items, Take(t, i)
  PROVE  IInv'
<1>1. /\ snap' \in [Tabs -> [Items -> Statuses]]
      /\ \A u \in Tabs: Present(snap'[u]) \subseteq captured
  BY LeaveKeeps DEF IInv, Take
<1>2. i \in captured
  BY DEF IInv, LoopsHoldCaptured, Take, Visiting
<1>3. TypeOK'
  BY <1>1 DEF IInv, TypeOK, Take, Put, Statuses, Replies, serverVars, bounds
<1>4. LoopsHoldCaptured'
  BY <1>1, <1>2 DEF IInv, TypeOK, LoopsHoldCaptured, Take, Put, Present
<1>5. OkMeansAccepted' /\ NotDroppedSilently'
  BY DEF IInv, TypeOK, OkMeansAccepted, NotDroppedSilently, Take, Put, serverVars
<1> QED BY <1>3, <1>4, <1>5 DEF IInv

\* A step of the server or the network: records stay, and only the tab that
\* is sending learns anything.
LEMMA AnswerKeeps ==
  ASSUME IInv, NEW t \in Tabs, reply[t] = "waiting", NEW what \in Replies, Answer(t, what),
         accepted' \in [Items -> Someone], late' \in SUBSET (Items \X Users),
         \A j \in Items: accepted[j] # None => accepted'[j] # None,
         what = "ok" => accepted'[cur[t]] # None,
         UNCHANGED <<queueVars, session, user, recover, snap, force, cur, offered, bounds>>
  PROVE  IInv'
<1>1. reply' = [reply EXCEPT ![t] = what] /\ cur[t] \in captured
  BY DEF IInv, LoopsHoldCaptured, Answer
<1>2. TypeOK' /\ LoopsHoldCaptured'
  BY <1>1 DEF IInv, TypeOK, LoopsHoldCaptured, queueVars, bounds
<1>3. OkMeansAccepted'
  BY <1>1 DEF IInv, TypeOK, LoopsHoldCaptured, OkMeansAccepted
<1>4. NotDroppedSilently'
  BY DEF IInv, TypeOK, NotDroppedSilently, queueVars
<1> QED BY <1>2, <1>3, <1>4 DEF IInv

\* The server's answer, or none, to the item being sent keeps the invariant.
LEMMA NetworkKeeps ==
  ASSUME IInv, NEW t \in Tabs, NetworkNext(t)
  PROVE  IInv'
<1> USE DEF Replies
<1>1. reply[t] = "waiting" /\ cur[t] \in Items
  BY DEF IInv, TypeOK, LoopsHoldCaptured, NetworkNext, Serve, ServerError, Disconnect
<1>2. CASE Serve(t)
  <2>1. session \in Users
    BY <1>2 DEF IInv, TypeOK, Serve, Someone
  <2>2. PICK what \in {"ok", "conflict"}: Serves(cur[t], session, what) /\ Answer(t, what)
    BY <1>2 DEF Serve
  <2> QED BY <1>1, <1>2, <2>1, <2>2, ServesKeeps, AnswerKeeps DEF IInv, TypeOK, Serve
<1>3. CASE ServerError(t)
  <2>1. session \in Users
    BY <1>3 DEF IInv, TypeOK, ServerError, Someone
  <2>2. /\ accepted' \in [Items -> Someone]
        /\ \A j \in Items: accepted[j] # None => accepted'[j] # None
    <3>1. CASE UNCHANGED accepted
      BY <3>1 DEF IInv, TypeOK
    <3>2. CASE Serves(cur[t], session, "ok")
      BY <1>1, <2>1, <3>2, ServesKeeps DEF IInv
    <3> QED BY <1>3, <3>1, <3>2 DEF ServerError
  <2> QED BY <1>1, <1>3, <2>2, AnswerKeeps DEF IInv, TypeOK, ServerError
<1>4. CASE Disconnect(t)
  <2>1. late' \in SUBSET (Items \X Users)
    BY <1>1, <1>4 DEF IInv, TypeOK, Disconnect, Someone
  <2> QED BY <1>1, <1>4, <2>1, AnswerKeeps DEF IInv, TypeOK, Disconnect
<1> QED BY <1>2, <1>3, <1>4 DEF NetworkNext

\* A request served after its tab gave up keeps the invariant.
LEMMA LateServeKeeps ==
  ASSUME IInv, NEW i \in Items, NEW who \in Users, LateServe(i, who)
  PROVE  IInv'
<1>1. /\ accepted' \in [Items -> Someone]
      /\ \A j \in Items: accepted[j] # None => accepted'[j] # None
  BY ServesKeeps DEF IInv, LateServe
<1>2. TypeOK' /\ LoopsHoldCaptured'
  BY <1>1 DEF IInv, TypeOK, LoopsHoldCaptured, LateServe, queueVars, loopVars, bounds
<1>3. OkMeansAccepted' /\ NotDroppedSilently'
  BY <1>1 DEF IInv, TypeOK, LoopsHoldCaptured, OkMeansAccepted, NotDroppedSilently, LateServe,
     queueVars, loopVars
<1> QED BY <1>2, <1>3 DEF IInv

\* Writing the outcome keeps the invariant: only a recorded item is removed.
LEMMA FinishKeeps ==
  ASSUME IInv, NEW t \in Tabs, Finish(t)
  PROVE  IInv'
<1>1. /\ cur[t] \in captured /\ cur[t] \in Items
      /\ queue' = [queue EXCEPT ![cur[t]] = Outcome(reply[t])]
      /\ Outcome(reply[t]) \in Statuses
  BY DEF IInv, TypeOK, LoopsHoldCaptured, Finish, Put, Outcome, Statuses
<1>2. Present(queue') \subseteq captured'
  BY <1>1 DEF IInv, TypeOK, LoopsHoldCaptured, Finish, Present
<1>3. /\ snap' \in [Tabs -> [Items -> Statuses]]
      /\ \A u \in Tabs: Present(snap'[u]) \subseteq captured
  BY DEF IInv, TypeOK, LoopsHoldCaptured, Finish, Nothing, Present, Statuses
<1>4. OffersCaptured'
  BY <1>2, ReloadKeeps DEF IInv, TypeOK, LoopsHoldCaptured, OffersCaptured, Finish
<1>5. TypeOK' /\ LoopsHoldCaptured'
  BY <1>1, <1>2, <1>3, <1>4 DEF IInv, TypeOK, LoopsHoldCaptured, OffersCaptured, Finish, Answer,
     Replies, serverVars, bounds
<1>6. OkMeansAccepted'
  BY DEF IInv, TypeOK, OkMeansAccepted, Finish, Answer, serverVars
<1>7. NotDroppedSilently'
  <2>1. reply[t] # "ok" => Outcome(reply[t]) # "absent"
    BY DEF Outcome
  <2> QED BY <1>1, <2>1 DEF IInv, TypeOK, OkMeansAccepted, NotDroppedSilently, Finish, serverVars
<1> QED BY <1>5, <1>6, <1>7 DEF IInv

\* The steps of a tab and of the session that leave the server alone.
LEMMA TabKeeps ==
  ASSUME IInv, NEW t \in Tabs,
         OpenTab(t) \/ CloseTab(t) \/ \E i \in Items: RecoverPut(t, i)
  PROVE  IInv'
<1>1. CASE OpenTab(t)
  <2>1. Interrupted \subseteq Present(queue)
    BY DEF Interrupted, Present
  <2> QED BY <1>1, <2>1, BoundAssumption DEF IInv, TypeOK, LoopsHoldCaptured, OkMeansAccepted,
          NotDroppedSilently, OpenTab, Interrupted, queueVars, serverVars, loopVars
<1>2. CASE CloseTab(t)
  <2>1. late' \in SUBSET (Items \X Users)
    BY <1>2 DEF IInv, TypeOK, LoopsHoldCaptured, CloseTab, Someone
  <2>2. Present(Nothing) = {} /\ Nothing \in [Items -> Statuses]
    BY DEF Present, Nothing, Statuses
  <2> QED BY <1>2, <2>1, <2>2 DEF IInv, TypeOK, LoopsHoldCaptured, OkMeansAccepted,
          NotDroppedSilently, CloseTab, Answer, Replies, Someone, queueVars, bounds
<1>3. ASSUME NEW i \in Items, RecoverPut(t, i) PROVE IInv'
  <2>1. i \in captured /\ queue' = [queue EXCEPT ![i] = "failed"]
    BY <1>3 DEF IInv, LoopsHoldCaptured, RecoverPut, Put
  <2>2. TypeOK' /\ LoopsHoldCaptured'
    BY <1>3, <2>1 DEF IInv, TypeOK, LoopsHoldCaptured, RecoverPut, Present, Statuses,
       serverVars, loopVars, bounds
  <2>3. OkMeansAccepted' /\ NotDroppedSilently'
    BY <1>3, <2>1 DEF IInv, TypeOK, OkMeansAccepted, NotDroppedSilently, RecoverPut,
       serverVars, loopVars
  <2> QED BY <2>2, <2>3 DEF IInv
<1> QED BY <1>1, <1>2, <1>3

\* Signing in or out, and stuttering, keep the invariant.
LEMMA SessionKeeps ==
  ASSUME IInv, NEW who \in Someone, ChangeSession(who) \/ UNCHANGED vars
  PROVE  IInv'
<1>1. /\ session' \in Someone /\ signIns' \in 0..MaxSignIns
      /\ UNCHANGED <<queueVars, serverVars, user, recover, loopVars, offered, opens, retries>>
  BY BoundAssumption DEF IInv, TypeOK, ChangeSession, vars, bounds
<1> QED BY <1>1 DEF IInv, TypeOK, LoopsHoldCaptured, OkMeansAccepted, NotDroppedSilently,
        queueVars, serverVars, loopVars

\* Every step keeps the invariant.
LEMMA NextInvariant == IInv /\ [Next]_vars => IInv'
<1> SUFFICES ASSUME IInv, [Next]_vars PROVE IInv'
  OBVIOUS
<1>1. ASSUME NEW t \in Tabs, UserNext(t) PROVE IInv'
  <2>1. ASSUME ForceSync(t) PROVE IInv'
    <3>1. PICK items \in {Mine(t)} \cup {{i}: i \in offered[t]}: Start(t, items, items)
      BY <2>1 DEF ForceSync
    <3>2. items \in SUBSET Items
      BY DEF Mine, IInv, TypeOK
    <3>3. retries' \in 0..MaxRetries
      BY <2>1, BoundAssumption DEF ForceSync, IInv, TypeOK
    <3> QED BY <3>1, <3>2, <3>3, StartKeeps
  <2> QED BY <1>1, <2>1, EnqueueKeeps, DiscardKeeps, TabKeeps DEF UserNext
<1>2. ASSUME NEW t \in Tabs, LoopNext(t) PROVE IInv'
  <2>1. ASSUME AutoSync(t) PROVE IInv'
    <3>1. Mine(t) \in SUBSET Items /\ {} \in SUBSET Items
      BY DEF Mine
    <3>2. Start(t, Mine(t), {}) /\ retries' \in 0..MaxRetries
      BY <2>1 DEF AutoSync, IInv, TypeOK
    <3> QED BY <3>1, <3>2, StartKeeps
  <2> QED BY <1>2, <2>1, SkipKeeps, TakeKeeps, TabKeeps, FinishKeeps DEF LoopNext
<1>3. ASSUME NEW who \in Someone, ChangeSession(who) PROVE IInv'
  BY <1>3, SessionKeeps
<1>4. CASE UNCHANGED vars
  BY <1>4, SessionKeeps DEF Someone
<1> QED BY <1>1, <1>2, <1>3, <1>4, NetworkKeeps, LateServeKeeps DEF Next

\* The inductive invariant holds in every state.
THEOREM Invariant == Spec => []IInv
<1> QED BY InitInvariant, NextInvariant, PTL DEF Spec

\* Type correctness of the queue, the tabs and the server's records.
THEOREM TypeCorrect == Spec => []TypeOK
<1>1. IInv => TypeOK
  BY DEF IInv
<1> QED BY <1>1, Invariant, PTL

\* Nothing captured is dropped silently, whatever the tabs of the browser,
\* lost answers, late requests, recoveries and sign-ins do to each other.
THEOREM NothingDropped == Spec => []NotDroppedSilently
<1>1. IInv => NotDroppedSilently
  BY DEF IInv
<1> QED BY <1>1, Invariant, PTL

\* Of a browser with one tab: what its loop has still to visit is refused if the
\* queue says so, and the item it is sending is none of that.
LoopSeesRefusals(t) ==
  /\ \A i \in Items: snap[t][i] # "absent" /\ queue[i] = "conflict" => snap[t][i] = "conflict"
  /\ cur[t] # None => snap[t][cur[t]] = "absent"

\* A step that takes no item up keeps it, if it writes no refusal and its loop
\* has no more to visit than before.
LEMMA SameLoopSees ==
  ASSUME IInv, NEW t \in Tabs, LoopSeesRefusals(t),
         \A i \in Items: snap'[t][i] # "absent" => snap'[t][i] = snap[t][i],
         \A i \in Items: snap[t][i] # "absent" =>
           queue'[i] = queue[i] \/ queue'[i] # "conflict",
         cur'[t] \in {cur[t], None}
  PROVE  LoopSeesRefusals(t)'
<1>1. cur[t] \in Items \cup {None}
  BY DEF IInv, TypeOK
<1>2. cur'[t] # None => snap'[t][cur'[t]] = "absent"
  BY <1>1 DEF LoopSeesRefusals
<1>3. \A i \in Items: snap'[t][i] # "absent" /\ queue'[i] = "conflict" => snap'[t][i] = "conflict"
  BY DEF LoopSeesRefusals
<1> QED BY <1>2, <1>3 DEF LoopSeesRefusals

\* Starting, leaving and taking up.
LEMMA LoopStillSees ==
  ASSUME IInv, NEW t \in Tabs, LoopSeesRefusals(t), LoopNext(t) \/ ForceSync(t)
  PROVE  LoopSeesRefusals(t)'
<1>0. /\ snap \in [Tabs -> [Items -> Statuses]] /\ queue \in [Items -> Statuses]
      /\ cur \in [Tabs -> Items \cup {None}] /\ reply \in [Tabs -> Replies]
  BY DEF IInv, TypeOK
<1>1. ASSUME NEW items, NEW forced, Start(t, items, forced) PROVE LoopSeesRefusals(t)'
  <2>1. /\ cur[t] = None /\ cur' = cur /\ queue' = queue
        /\ snap'[t] = [i \in Items |-> IF i \in items THEN queue[i] ELSE "absent"]
    BY <1>0, <1>1 DEF Start, Looping, queueVars
  <2> QED BY <2>1 DEF LoopSeesRefusals
<1>2. ASSUME NEW i \in Items, Leave(t, i)
      PROVE  /\ snap'[t][i] = "absent"
             /\ \A j \in Items \ {i}: snap'[t][j] = snap[t][j]
  BY <1>0, <1>2 DEF Leave
<1>3. ASSUME NEW i \in Items, Skip(t, i) PROVE LoopSeesRefusals(t)'
  <2>1. Leave(t, i) /\ queue' = queue /\ cur' = cur
    BY <1>3 DEF Skip, queueVars
  <2> QED BY <1>2, <2>1, SameLoopSees
<1>4. ASSUME NEW i \in Items, Take(t, i) PROVE LoopSeesRefusals(t)'
  <2>1. /\ Leave(t, i) /\ cur'[t] = i
        /\ queue'[i] = "syncing" /\ \A j \in Items \ {i}: queue'[j] = queue[j]
    BY <1>0, <1>4 DEF Take, Put
  <2>2. /\ snap'[t][i] = "absent"
        /\ \A j \in Items \ {i}: snap'[t][j] = snap[t][j]
    BY <1>2, <2>1
  <2> QED BY <2>1, <2>2 DEF LoopSeesRefusals
<1>5. ASSUME NEW i \in Items, RecoverPut(t, i) PROVE LoopSeesRefusals(t)'
  <2>1. /\ snap' = snap /\ cur' = cur
        /\ queue'[i] = "failed" /\ \A j \in Items \ {i}: queue'[j] = queue[j]
    BY <1>0, <1>5 DEF RecoverPut, Put, loopVars
  <2> QED BY <2>1, SameLoopSees
<1>6. CASE Finish(t)
  <2>1. /\ cur[t] \in Items /\ cur'[t] = None
        /\ \A i \in Items \ {cur[t]}: queue'[i] = queue[i]
        /\ snap'[t] = snap[t] \/ \A i \in Items: snap'[t][i] = "absent"
    BY <1>0, <1>6 DEF Finish, Put, Nothing, IInv, TypeOK, LoopsHoldCaptured
  <2>2. snap[t][cur[t]] = "absent"
    BY <2>1, NoneAssumption DEF LoopSeesRefusals
  <2> QED BY <2>1, <2>2, SameLoopSees
<1> QED BY <1>1, <1>3, <1>4, <1>5, <1>6 DEF LoopNext, AutoSync, ForceSync

\* With one tab in the browser, every step keeps it.
LEMMA StillSees ==
  ASSUME NEW t, Tabs = {t}, IInv, LoopSeesRefusals(t), [Next]_vars
  PROVE  LoopSeesRefusals(t)'
<1>0. /\ snap \in [Tabs -> [Items -> Statuses]] /\ queue \in [Items -> Statuses]
      /\ t \in Tabs /\ \A u \in Tabs: u = t
  BY DEF IInv, TypeOK
<1>1. ASSUME NEW i \in Items, Enqueue(t, i) PROVE LoopSeesRefusals(t)'
  <2>1. /\ snap' = snap /\ cur' = cur /\ snap[t][i] = "absent"
        /\ \A j \in Items \ {i}: queue'[j] = queue[j]
    BY <1>0, <1>1 DEF Enqueue, Put, loopVars, IInv, LoopsHoldCaptured, Present
  <2> QED BY <1>0, <2>1, SameLoopSees
<1>2. ASSUME NEW i \in Items, Discard(t, i) PROVE LoopSeesRefusals(t)'
  <2>1. /\ snap' = snap /\ cur' = cur
        /\ queue'[i] = "absent" /\ \A j \in Items \ {i}: queue'[j] = queue[j]
    BY <1>0, <1>2 DEF Discard, Put, loopVars
  <2> QED BY <1>0, <2>1, SameLoopSees
<1>3. CASE CloseTab(t)
  <2>1. queue' = queue /\ cur'[t] = None /\ \A i \in Items: snap'[t][i] = "absent"
    BY <1>0, <1>3 DEF CloseTab, queueVars, Nothing, IInv, TypeOK
  <2> QED BY <1>0, <2>1, SameLoopSees
<1>4. CASE UNCHANGED <<queue, snap, cur>>
  BY <1>0, <1>4, SameLoopSees
<1>5. ASSUME NEW u \in Tabs, UserNext(u) PROVE LoopSeesRefusals(t)'
  <2>1. CASE OpenTab(u)
    BY <1>4, <2>1 DEF OpenTab, queueVars, loopVars
  <2> QED BY <1>0, <1>1, <1>2, <1>3, <1>5, <2>1, LoopStillSees DEF UserNext
<1>6. ASSUME NEW u \in Tabs, NetworkNext(u) PROVE LoopSeesRefusals(t)'
  BY <1>4, <1>6 DEF NetworkNext, Serve, ServerError, Disconnect, queueVars
<1>7. ASSUME NEW i \in Items, NEW who \in Users, LateServe(i, who) PROVE LoopSeesRefusals(t)'
  BY <1>4, <1>7 DEF LateServe, queueVars, loopVars
<1>8. ASSUME NEW who \in Someone, ChangeSession(who) PROVE LoopSeesRefusals(t)'
  BY <1>4, <1>8 DEF ChangeSession, queueVars, loopVars
<1>9. CASE UNCHANGED vars
  BY <1>4, <1>9 DEF vars, queueVars, loopVars
<1> QED BY <1>0, <1>5, <1>6, <1>7, <1>8, <1>9, LoopStillSees DEF Next

\* An item is taken up by the loop of a tab only, which finds it due.
LEMMA TakenIfDue ==
  ASSUME IInv, [Next]_vars, NEW i \in Items, NEW t \in Tabs, cur[t] # i, cur'[t] = i
  PROVE  Take(t, i)
<1>0. cur \in [Tabs -> Items \cup {None}] /\ i # None
  BY NoneAssumption DEF IInv, TypeOK
<1>1. ASSUME UNCHANGED cur PROVE FALSE
  BY <1>1
<1>2. ASSUME NEW u \in Tabs, UserNext(u) PROVE FALSE
  <2>1. CASE CloseTab(u)
    BY <1>0, <2>1 DEF CloseTab
  <2>2. CASE \E j \in Items: Enqueue(u, j) \/ Discard(u, j)
    BY <1>1, <2>2 DEF Enqueue, Discard, loopVars
  <2>3. CASE ForceSync(u) \/ OpenTab(u)
    BY <1>1, <2>3 DEF ForceSync, Start, OpenTab, loopVars
  <2> QED BY <1>2, <2>1, <2>2, <2>3 DEF UserNext
<1>3. ASSUME NEW u \in Tabs, NetworkNext(u) PROVE FALSE
  BY <1>1, <1>3 DEF NetworkNext, Serve, ServerError, Disconnect
<1>4. ASSUME NEW j \in Items, NEW who \in Users, LateServe(j, who) PROVE FALSE
  BY <1>1, <1>4 DEF LateServe, loopVars
<1>5. ASSUME NEW who \in Someone, ChangeSession(who) PROVE FALSE
  BY <1>1, <1>5 DEF ChangeSession, loopVars
<1>6. ASSUME NEW u \in Tabs, LoopNext(u) PROVE Take(t, i)
  <2>1. CASE Finish(u)
    BY <1>0, <2>1 DEF Finish
  <2>2. CASE AutoSync(u) \/ \E j \in Items: Skip(u, j) \/ RecoverPut(u, j)
    BY <1>1, <2>2 DEF AutoSync, Start, Skip, RecoverPut, loopVars
  <2>3. ASSUME NEW j \in Items, Take(u, j) PROVE Take(t, i)
    <3>1. cur' = [cur EXCEPT ![u] = j]
      BY <2>3 DEF Take
    <3>2. u = t /\ j = i
      BY <1>0, <3>1
    <3> QED BY <2>3, <3>2
  <2> QED BY <1>6, <2>1, <2>2, <2>3 DEF LoopNext
<1> QED BY <1>1, <1>2, <1>3, <1>4, <1>5, <1>6 DEF Next, vars, loopVars

\* The browser has one tab.
OneTab == \E t: Tabs = {t}

\* What it keeps to.
RefusalStands ==
  \A i \in Items, t \in Tabs:
    (queue[i] = "conflict" /\ cur[t] # i /\ cur'[t] = i) => i \in force[t]

\* In a browser with one tab, an item the server has refused is sent again only
\* by a loop its user forced. (With two it is not so: a loop goes by what it read
\* when it started.)
THEOREM RefusedWaits == OneTab /\ Spec => ConflictWaitsForUser
<1> DEFINE Sees == \A t \in Tabs: LoopSeesRefusals(t)
<1>1. Init => Sees
  BY DEF Init, Nothing, LoopSeesRefusals
<1>2. OneTab /\ IInv /\ Sees /\ [Next]_vars => Sees'
  BY StillSees DEF OneTab
<1>3. IInv /\ Sees /\ [Next]_vars => [RefusalStands]_vars
  <2> SUFFICES ASSUME IInv, Sees, [Next]_vars, NEW i \in Items, NEW t \in Tabs,
                      queue[i] = "conflict", cur[t] # i, cur'[t] = i
               PROVE  i \in force[t]
    BY DEF RefusalStands
  <2>1. Take(t, i)
    BY TakenIfDue
  <2>2. snap[t][i] = "conflict"
    BY <2>1 DEF Take, Visiting, Present, LoopSeesRefusals
  <2> QED BY <2>1, <2>2 DEF Take, Due
<1>4. OneTab => OneTab'
  BY DEF OneTab
<1> HIDE DEF Sees
<1> QED BY <1>1, <1>2, <1>3, <1>4, Invariant, PTL DEF Spec, ConflictWaitsForUser, RefusalStands
=============================================================================
