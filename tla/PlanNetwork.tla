---------------------------- MODULE PlanNetwork ----------------------------
(***************************************************************************)
(* The activities of a methodology plan, what each waits for, and when it  *)
(* can be done: lib/v1/planning.ts, which the browser runs at every edit   *)
(* (components/v1/planning.tsx) and the server at every save.  An activity *)
(* is its place in the document, where a new one goes last.  Costs are     *)
(* left out; the order of the dependencies, which only chooses the loop to *)
(* report, is that of the document.                                        *)
(***************************************************************************)
EXTENDS Integers, FiniteSetsExt, SequencesExt

CONSTANTS
  MaxActivities,  \* bound: activities of the plan
  Durations,      \* days an activity may take; 0 are those of a milestone
  Unknown         \* a value nobody has entered

ASSUME ActivitiesAssumption == MaxActivities \in Nat
ASSUME DurationsAssumption == Durations \subseteq Nat \ {0} /\ Unknown \notin Nat

VARIABLE
  network  \* the days of each activity, and who waits for whom: <<from, to>>

networkVars == <<network>>

Days == Durations \cup {0, Unknown}
Places(n) == DOMAIN n.days

NetworkTypeOK ==
  /\ network.days \in UNION {[1..k -> Days]: k \in 0..MaxActivities}
  /\ network.depends \subseteq Places(network) \X Places(network)

\* emptyDocument.
NetworkInit == network = [days |-> <<>>, depends |-> {}]

-----------------------------------------------------------------------------
(* The search for a loop                                                    *)

\* A loop of the program: what its k-th turn leaves, each made of the one before.
Turns(turn, first) ==
  LET after[k \in Nat] == IF k = 0 THEN first ELSE turn[k][after[k - 1]] IN after

\* What follows an activity.
Followers(n, i) == {k \in Places(n): <<i, k>> \in n.depends}

\* search: the activities left behind (state 2), the path to the one being
\* visited (state 1), and the loop once there is one.
Searches(n) == [behind: SUBSET Places(n), path: Seq(Places(n)), loop: Seq(Places(n))]
Unsearched == [behind |-> {}, path |-> <<>>, loop |-> <<>>]

\* The part of the path that begins with an activity on it.
From(path, i) == SubSeq(path, CHOOSE k \in DOMAIN path: path[k] = i, Len(path))

\* What the activity being visited, or the whole search, has still to visit.
Ahead(n, search) ==
  (IF search.path = <<>> THEN Places(n) ELSE Followers(n, Last(search.path))) \ search.behind

\* visit: it finds a loop, visits what is ahead, or is done with the activity.
Visit(n, search) ==
  LET i == Min(Ahead(n, search)) IN
  IF search.loop # <<>> THEN search
  ELSE IF Ahead(n, search) # {} THEN
         IF i \in ToSet(search.path)
         THEN [search EXCEPT !.loop = Append(From(search.path, i), i)]
         ELSE [search EXCEPT !.path = Append(@, i)]
  ELSE IF search.path # <<>>
       THEN [search EXCEPT !.path = Front(@), !.behind = @ \cup {Last(search.path)}]
  ELSE search

\* findCycle: the first loop, its first activity repeated at the end, or nothing.
\* Every activity is visited and left once at most.
FindLoop(n) ==
  Turns([k \in Nat |-> [search \in Searches(n) |-> Visit(n, search)]], Unsearched)
    [2 * Len(n.days)].loop

-----------------------------------------------------------------------------
(* The calculation                                                          *)

Predecessors(n, i) == {p \in Places(n): <<p, i>> \in n.depends}

\* Mutant: an activity may begin with the end of the first it waits for.
UnblockedByOne(n, order) ==
  {i \in Places(n) \ ToSet(order):
     Predecessors(n, i) = {} \/ Predecessors(n, i) \cap ToSet(order) # {}}

\* Those whose count of unfinished predecessors is zero.
Unblocked(n, order) ==
  {i \in Places(n) \ ToSet(order): Predecessors(n, i) \subseteq ToSet(order)}

\* topologicalOrder: of those not blocked, the first in the document comes next.
Extended(n, order) ==
  IF Unblocked(n, order) = {} THEN order ELSE Append(order, Min(Unblocked(n, order)))
Order(n) ==
  Turns([k \in Nat |-> [order \in Seq(Places(n)) |-> Extended(n, order)]], <<>>)[Len(n.days)]

\* calculatePlan: parallel paths join at the latest finish, and what waits for
\* something unknown is unknown.
Start(finish, before) ==
  LET finishes == {finish[p]: p \in before}
  IN  IF Unknown \in finishes THEN Unknown ELSE Max({0} \cup finishes)

Timed(n, finish, i) ==
  LET start == Start(finish, Predecessors(n, i)) IN
  [finish EXCEPT ![i] = IF Unknown \in {start, n.days[i]} THEN Unknown ELSE start + n.days[i]]

Finishes(n) ==
  LET order == Order(n) IN
  Turns([k \in DOMAIN order |->
           [finish \in [Places(n) -> Nat \cup {Unknown}] |-> Timed(n, finish, order[k])]],
        [i \in Places(n) |-> Unknown])[Len(order)]

\* The duration of the plan.
PlanDays(finish) ==
  IF ToSet(finish) = {} \/ Unknown \in ToSet(finish) THEN Unknown ELSE Max(ToSet(finish))

-----------------------------------------------------------------------------
(* The editor                                                               *)

\* add: blankActivity knows the days of a milestone only.
AddActivity ==
  /\ Len(network.days) < MaxActivities
  /\ \E d \in {0, Unknown}: network' = [network EXCEPT !.days = Append(@, d)]

\* patch: the days of an activity are entered, derived or cleared.
SetDays ==
  \E i \in Places(network), d \in Durations \cup {Unknown}:
    /\ network.days[i] # 0
    /\ network' = [network EXCEPT !.days[i] = d]

\* remove: the dependencies of the activity go with it.
RemoveActivity ==
  \E i \in Places(network):
    LET place(k) == IF k > i THEN k - 1 ELSE k
    IN  network' =
          [days |-> RemoveAt(network.days, i),
           depends |-> {<<place(d[1]), place(d[2])>>: d \in {e \in network.depends: i \notin {e[1], e[2]}}}]

\* connect: a dependency that would close a loop is refused.
Connected(n, from, to) == [n EXCEPT !.depends = @ \cup {<<from, to>>}]

Connect ==
  \E from, to \in Places(network):
    /\ from # to
    /\ <<from, to>> \notin network.depends
    /\ FindLoop(Connected(network, from, to)) = <<>>
    /\ network' = Connected(network, from, to)

\* onUnlink.
Disconnect ==
  \E d \in network.depends: network' = [network EXCEPT !.depends = @ \ {d}]

NetworkNext == AddActivity \/ SetDays \/ RemoveActivity \/ Connect \/ Disconnect
NetworkSpec == NetworkInit /\ [][NetworkNext]_networkVars

-----------------------------------------------------------------------------
(* Properties                                                               *)

\* A chain is a path of distinct activities, each waiting for the one before.
Routes ==
  {r \in UNION {[1..k -> 1..MaxActivities]: k \in 1..MaxActivities}: IsInjective(r)}
Chains(n) ==
  {r \in Routes: /\ ToSet(r) \subseteq Places(n)
                 /\ \A k \in 1..(Len(r) - 1): <<r[k], r[k + 1]>> \in n.depends}

\* The loop reported is one: it closes, and each step of it is a dependency.
IsLoop(n, loop) ==
  /\ Len(loop) > 1 /\ loop[1] = loop[Len(loop)]
  /\ \A k \in 1..(Len(loop) - 1): <<loop[k], loop[k + 1]>> \in n.depends

\* Where a chain leads, and the days along it.
Along(n, c) == IF \E k \in DOMAIN c: n.days[c[k]] = Unknown THEN Unknown
               ELSE SumFunction([k \in DOMAIN c |-> n.days[c[k]]])
Paths(n) == {[from |-> c[1], to |-> c[Len(c)], days |-> Along(n, c)]: c \in Chains(n)}

Longest(lengths) == IF lengths = {} \/ Unknown \in lengths THEN Unknown ELSE Max(lengths)

\* The timeline is what the dependencies say: every activity is in the order,
\* after those it waits for; it finishes at the end of the longest chain that
\* leads to it, or is unknown with anything on one of them, and so does the plan;
\* a dependency is refused exactly when it would close a loop, which is named.
TimelineIsLongestChain ==
  Places(network) # {} =>
  LET order == Order(network)
      finish == Finishes(network)
      paths == Paths(network)
  IN  /\ ToSet(order) = Places(network)
      /\ \A j, k \in DOMAIN order: j < k => <<order[k], order[j]>> \notin network.depends
      /\ \A i \in Places(network):
           finish[i] = Longest({p.days: p \in {q \in paths: q.to = i}})
      /\ PlanDays(finish) = Longest({p.days: p \in paths})
      /\ \A from, to \in Places(network): from # to =>
           LET n == Connected(network, from, to)
               loop == FindLoop(n)
           IN  IF \E p \in paths: p.from = to /\ p.to = from THEN IsLoop(n, loop) ELSE loop = <<>>
=============================================================================
