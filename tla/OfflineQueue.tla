---------------------------- MODULE OfflineQueue ----------------------------
(***************************************************************************)
(* Offline field capture: lib/v1/offline-sync.ts (the queue's rules) and   *)
(* components/v1/offline.tsx (the browser that runs them).  The tabs of    *)
(* one browser share one IndexedDB queue and one session cookie; each runs *)
(* its own sync loop, reads the queue once when the loop starts and writes *)
(* whole items back from what it read.                                     *)
(***************************************************************************)
EXTENDS Integers

CONSTANTS
  Items,        \* queue items, numbered in the order they are captured
  Tabs,         \* tabs of the browser
  Users,        \* people who sign in on the device
  OwnerOf,      \* the user who captures an item
  None,         \* no user, no item
  Reachable,    \* items whose requests the server answers if sent often enough
  MaxOpens,     \* bound: times a tab is opened
  MaxSignIns,   \* bound: changes of the session
  MaxRetries    \* bound: syncs a user forces

ASSUME ItemsAssumption == Items \subseteq Nat
ASSUME OwnerAssumption == OwnerOf \in [Items -> Users]
ASSUME NoneAssumption == None \notin Users \cup Items
ASSUME ReachableAssumption == Reachable \subseteq Items
ASSUME BoundAssumption == MaxOpens \in Nat /\ MaxSignIns \in Nat /\ MaxRetries \in Nat

VARIABLES
  queue,     \* IndexedDB: the status of each item, or absent
  captured,  \* items put in the queue so far
  discarded, \* items a user discarded
  accepted,  \* the user the server recorded an item for
  session,   \* the user of the session cookie, None when signed out
  user,      \* the user a tab was opened by; None: the tab is closed
  recover,   \* items a tab's recoverInterrupted has read and not yet put
  snap,      \* what a tab's sync loop read: the items it has still to visit
  force,     \* the items it was asked to send whatever their status
  cur,       \* the item it is sending
  reply,     \* what became of that request
  offered,   \* items the tab's list offers to retry or discard
  late,      \* requests the client gave up on, still on their way
  opens, signIns, retries

queueVars == <<queue, captured, discarded>>
serverVars == <<accepted, late>>
bounds == <<opens, signIns, retries>>
loopVars == <<snap, force, cur, reply>>
vars == <<queueVars, serverVars, session, user, recover, loopVars, offered, bounds>>

Statuses == {"absent", "pending", "syncing", "failed", "conflict"}
Replies == {"none", "waiting", "ok", "conflict", "error", "offline"}
Someone == Users \cup {None}

TypeOK ==
  /\ queue \in [Items -> Statuses]
  /\ captured \subseteq Items /\ discarded \subseteq captured
  /\ accepted \in [Items -> Someone]
  /\ session \in Someone
  /\ user \in [Tabs -> Someone]
  /\ recover \in [Tabs -> SUBSET Items]
  /\ snap \in [Tabs -> [Items -> Statuses]]
  /\ force \in [Tabs -> SUBSET Items]
  /\ cur \in [Tabs -> Items \cup {None}]
  /\ reply \in [Tabs -> Replies]
  /\ offered \in [Tabs -> SUBSET Items]
  /\ late \subseteq Items \X Users
  /\ opens \in 0..MaxOpens /\ signIns \in 0..MaxSignIns /\ retries \in 0..MaxRetries

Nothing == [i \in Items |-> "absent"]

Init ==
  /\ queue = Nothing
  /\ captured = {} /\ discarded = {}
  /\ accepted = [i \in Items |-> None]
  /\ session \in Users
  /\ user = [t \in Tabs |-> None]
  /\ recover = [t \in Tabs |-> {}]
  /\ snap = [t \in Tabs |-> Nothing]
  /\ force = [t \in Tabs |-> {}]
  /\ cur = [t \in Tabs |-> None]
  /\ reply = [t \in Tabs |-> "none"]
  /\ offered = [t \in Tabs |-> {}]
  /\ late = {}
  /\ opens = 0 /\ signIns = 0 /\ retries = 0

Present(q) == {i \in Items: q[i] # "absent"}
Mine(t) == {i \in Items: OwnerOf[i] = user[t]}
Put(i, status) == queue' = [queue EXCEPT ![i] = status]

\* The tab shows its user's items; those being sent can't be touched.
Offered(t, q) == {i \in Mine(t): q[i] \notin {"absent", "syncing"}}
Reload(t, q) == offered' = [offered EXCEPT ![t] = Offered(t, q)]
ReloadIfDone(t, q) == IF Present(snap'[t]) = {} THEN Reload(t, q) ELSE UNCHANGED offered

Looping(t) == Present(snap[t]) # {} \/ cur[t] # None
\* The item the loop visits next: the oldest it has left.
Visiting(t, i) ==
  /\ cur[t] = None /\ i \in Present(snap[t])
  /\ \A j \in Present(snap[t]): i <= j

-----------------------------------------------------------------------------
(* Capture, and what the user does with the list                            *)

\* A form queues its item, at once when offline, or after a direct attempt
\* that failed on the network and may have reached the server.
Enqueue(t, i) ==
  /\ user[t] = OwnerOf[i]
  /\ i \notin captured /\ \A j \in captured: j < i
  /\ Put(i, "pending")
  /\ captured' = captured \cup {i}
  /\ \E who \in {None, session}: accepted' = [accepted EXCEPT ![i] = who]
  /\ Reload(t, queue')
  /\ UNCHANGED <<discarded, late, session, user, recover, loopVars, bounds>>

\* The button is disabled by the list the tab last loaded.
Discard(t, i) ==
  /\ i \in offered[t]
  /\ Put(i, "absent")
  /\ discarded' = discarded \cup {i}
  /\ Reload(t, queue')
  /\ UNCHANGED <<captured, serverVars, session, user, recover, loopVars, bounds>>

-----------------------------------------------------------------------------
(* The sync loop                                                            *)

\* sync(): on a timer, on reconnection or by hand; one loop per tab.
Start(t, items, forced) ==
  /\ user[t] # None /\ ~Looping(t)
  /\ snap' = [snap EXCEPT ![t] = [i \in Items |-> IF i \in items THEN queue[i] ELSE "absent"]]
  /\ force' = [force EXCEPT ![t] = forced]
  /\ ReloadIfDone(t, queue)
  /\ UNCHANGED <<queueVars, serverVars, session, user, recover, cur, reply, opens, signIns>>

AutoSync(t) == Start(t, Mine(t), {}) /\ UNCHANGED retries

\* "Send now" takes every item, "Retry" one; both ignore status and backoff.
ForceSync(t) ==
  /\ retries < MaxRetries /\ retries' = retries + 1
  /\ \E items \in {Mine(t)} \cup {{i}: i \in offered[t]}: Start(t, items, items)

Leave(t, i) == snap' = [snap EXCEPT ![t] = [@ EXCEPT ![i] = "absent"]]

\* Mutants: no backoff, so a failed item is due in every loop; a loop that
\* picks refused items up again.
MaySkipConflictOnly(t, i) == i \notin force[t] /\ snap[t][i] = "conflict"
DueAlways(t, i) == i \in Present(snap[t])

\* Not due: a conflict, or a failure whose backoff has not run out.
MaySkip(t, i) == i \notin force[t] /\ snap[t][i] \in {"conflict", "failed", "syncing"}
Due(t, i) == i \in force[t] \/ snap[t][i] # "conflict"

Skip(t, i) ==
  /\ Visiting(t, i) /\ MaySkip(t, i)
  /\ Leave(t, i)
  /\ ReloadIfDone(t, queue)
  /\ UNCHANGED <<queueVars, serverVars, session, user, recover, force, cur, reply, bounds>>

\* put({...item, status: 'syncing'}) from the snapshot, then the request.
Take(t, i) ==
  /\ Visiting(t, i) /\ Due(t, i)
  /\ Put(i, "syncing")
  /\ cur' = [cur EXCEPT ![t] = i]
  /\ reply' = [reply EXCEPT ![t] = "waiting"]
  /\ Leave(t, i)
  /\ UNCHANGED <<captured, discarded, serverVars, session, user, recover, force, offered, bounds>>

Answer(t, what) == reply' = [reply EXCEPT ![t] = what]

\* What the server does with an item for a user: it records it once, replays
\* to that user, and refuses an id another user sent; it may refuse any.
Serves(i, who, what) ==
  \/ /\ what = "ok" /\ accepted[i] \in {None, who}
     /\ accepted' = [accepted EXCEPT ![i] = who]
  \/ /\ what = "conflict"
     /\ UNCHANGED accepted

\* The cookie, not the item, says who is sending.
Serve(t) ==
  /\ reply[t] = "waiting" /\ session # None
  /\ \E what \in {"ok", "conflict"}: Serves(cur[t], session, what) /\ Answer(t, what)
  /\ UNCHANGED <<queueVars, late, session, user, recover, snap, force, cur, offered, bounds>>

\* 408, 429 or 5xx, before the record is made or after.
ServerError(t) ==
  /\ reply[t] = "waiting" /\ session # None
  /\ \/ UNCHANGED accepted
     \/ Serves(cur[t], session, "ok")
  /\ Answer(t, "error")
  /\ UNCHANGED <<queueVars, late, session, user, recover, snap, force, cur, offered, bounds>>

\* No signal, or no answer within 20 s: the request may still arrive. A 401
\* is treated as a lost connection too.
Disconnect(t) ==
  /\ reply[t] = "waiting"
  /\ Answer(t, "offline")
  /\ late' \in IF session = None THEN {late} ELSE {late, late \cup {<<cur[t], session>>}}
  /\ UNCHANGED <<queueVars, accepted, session, user, recover, snap, force, cur, offered, bounds>>

LateServe(i, who) ==
  /\ <<i, who>> \in late
  /\ late' = late \ {<<i, who>>}
  /\ \E what \in {"ok", "conflict"}: Serves(i, who, what)
  /\ UNCHANGED <<queueVars, session, user, recover, loopVars, offered, bounds>>

\* Mutant: a refused item is removed.
OutcomeDropsRefused(r) == IF r \in {"ok", "conflict"} THEN "absent" ELSE "failed"

\* classify().
Outcome(r) == CASE r = "ok" -> "absent" [] r = "conflict" -> "conflict" [] OTHER -> "failed"

\* remove, or put from the snapshot; a lost connection ends the loop.
Finish(t) ==
  /\ reply[t] \notin {"none", "waiting"}
  /\ Put(cur[t], Outcome(reply[t]))
  /\ cur' = [cur EXCEPT ![t] = None]
  /\ Answer(t, "none")
  /\ snap' = IF reply[t] = "offline" THEN [snap EXCEPT ![t] = Nothing] ELSE snap
  /\ ReloadIfDone(t, queue')
  /\ UNCHANGED <<captured, discarded, serverVars, session, user, recover, force, bounds>>

-----------------------------------------------------------------------------
(* Tabs and the session                                                     *)

Interrupted == {i \in Items: queue[i] = "syncing"}

\* The page loads, asks for the session once, and starts recoverInterrupted.
OpenTab(t) ==
  /\ user[t] = None /\ session # None
  /\ opens < MaxOpens /\ opens' = opens + 1
  /\ user' = [user EXCEPT ![t] = session]
  /\ recover' = [recover EXCEPT ![t] = Interrupted]
  /\ UNCHANGED <<queueVars, serverVars, session, loopVars, offered, signIns, retries>>

\* recoverInterrupted puts one item of those it listed.
RecoverPut(t, i) ==
  /\ i \in recover[t]
  /\ Put(i, "failed")
  /\ recover' = [recover EXCEPT ![t] = @ \ {i}]
  /\ UNCHANGED <<captured, discarded, serverVars, session, user, loopVars, offered, bounds>>

\* A closed or killed tab loses its loop; a request may be on its way. (One
\* that could not be opened again, for the bound, is not closed.)
CloseTab(t) ==
  /\ user[t] # None /\ opens < MaxOpens
  /\ late' \in IF reply[t] = "waiting" /\ session # None
               THEN {late, late \cup {<<cur[t], session>>}} ELSE {late}
  /\ user' = [user EXCEPT ![t] = None]
  /\ recover' = [recover EXCEPT ![t] = {}]
  /\ snap' = [snap EXCEPT ![t] = Nothing]
  /\ force' = [force EXCEPT ![t] = {}]
  /\ cur' = [cur EXCEPT ![t] = None]
  /\ Answer(t, "none")
  /\ offered' = [offered EXCEPT ![t] = {}]
  /\ UNCHANGED <<queueVars, accepted, session, bounds>>

\* Sign-in, sign-out or expiry: the cookie changes under every open tab.
ChangeSession(who) ==
  /\ who # session
  /\ signIns < MaxSignIns /\ signIns' = signIns + 1
  /\ session' = who
  /\ UNCHANGED <<queueVars, serverVars, user, recover, loopVars, offered, opens, retries>>

UserNext(t) ==
  \/ \E i \in Items: Enqueue(t, i) \/ Discard(t, i)
  \/ ForceSync(t) \/ OpenTab(t) \/ CloseTab(t)

LoopNext(t) ==
  \/ AutoSync(t)
  \/ \E i \in Items: Skip(t, i) \/ Take(t, i) \/ RecoverPut(t, i)
  \/ Finish(t)

NetworkNext(t) == Serve(t) \/ ServerError(t) \/ Disconnect(t)

Next ==
  \/ \E t \in Tabs: UserNext(t) \/ LoopNext(t) \/ NetworkNext(t)
  \/ \E i \in Items, who \in Users: LateServe(i, who)
  \/ \E who \in Someone: ChangeSession(who)

Spec == Init /\ [][Next]_vars

-----------------------------------------------------------------------------
(* Fairness: the browser runs the loop, its timer restarts it every 30 s,   *)
(* fetch always settles, and a page that was closed is opened again while   *)
(* opens are left. An item is due, and is skipped, again and again: its     *)
(* backoff is capped at 5 min, and outgrows the 30 s timer.                 *)

Sending(i) == \E t \in Tabs: cur[t] = i /\ Serve(t)

Fairness ==
  /\ \A t \in Tabs:
       /\ WF_vars(AutoSync(t)) /\ WF_vars(Finish(t)) /\ WF_vars(NetworkNext(t))
       /\ WF_vars(OpenTab(t))
       /\ \A i \in Items:
            /\ WF_vars(RecoverPut(t, i))
            /\ WF_vars(Take(t, i) \/ Skip(t, i))
            /\ SF_vars(Take(t, i)) /\ SF_vars(Skip(t, i))
  /\ \A i \in Reachable: SF_vars(Sending(i))

FairSpec == Spec /\ Fairness

-----------------------------------------------------------------------------
(* Properties                                                               *)

\* "Nothing is ever dropped silently": a captured item is in the queue until
\* the server has it or a user discarded it, whatever the tabs, recoveries,
\* lost answers and late requests do to each other.
NotDroppedSilently ==
  \A i \in captured: queue[i] = "absent" => accepted[i] # None \/ i \in discarded

\* "4xx stop automatic retries": an item shown as not accepted is sent again
\* only by a loop the user forced.
ConflictWaitsForUser ==
  [][\A i \in Items, t \in Tabs:
       (queue[i] = "conflict" /\ cur[t] # i /\ cur'[t] = i) => i \in force[t]]_vars

\* "Items belong to the user who created them and only sync for that user"
\* (offline-sync.ts:9). It does not hold: a tab keeps the user it was opened with
\* and sends under the session the browser has, which another tab may change.
RecordedForOwner == \A i \in Items: accepted[i] \in {None, OwnerOf[i]}

\* An item whose requests are answered is not held up by one whose requests
\* are not: in the end it leaves the queue or is shown to the user.
Settles ==
  \A i \in Reachable: i \in captured ~> queue[i] \in {"absent", "conflict"}
=============================================================================
