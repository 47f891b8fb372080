-------------------------- MODULE EstimatingProofs --------------------------
(***************************************************************************)
(* What is proved of estimating.  Of the plan network, for plans of any    *)
(* size: after every sequence of edits the timeline is what the            *)
(* dependencies say.  Searches and orders are what a loop of the program   *)
(* leaves turn by turn, so what every turn keeps is shown by induction     *)
(* over their number; that there is no loop is said of sets: of any        *)
(* activities one waits for no other.  Then of the approval of an estimate *)
(* and the award of its tender, for every number of users, contents,       *)
(* revisions and clock readings.                                           *)
(***************************************************************************)
EXTENDS PlanNetwork, TenderAward, SumTheorems, SequenceTheorems, FunctionTheorems

-----------------------------------------------------------------------------
(* Loops of the program                                                     *)

\* A function that repeats the turns.
Repeats(f, turn, first) == f = [k \in Nat |-> IF k = 0 THEN first ELSE turn[k][f[k - 1]]]

\* A loop of the program exists, ...
LEMMA TurnsExist ==
  ASSUME NEW turn, NEW first
  PROVE  \E f: Repeats(f, turn, first)
<1> DEFINE Upto(f, n) == f = [k \in 0..n |-> IF k = 0 THEN first ELSE turn[k][f[k - 1]]]
           N == {n \in Nat: \E f: Upto(f, n)}
           at(n) == CHOOSE f: Upto(f, n)
<1>1. 0 \in N
  <2>1. Upto([k \in 0..0 |-> first], 0)
    OBVIOUS
  <2> QED BY <2>1
<1>2. ASSUME NEW n \in N PROVE n + 1 \in N
  <2>1. PICK f: Upto(f, n)
    OBVIOUS
  <2>2. PICK g: g = [k \in 0..(n + 1) |-> IF k = 0 THEN first ELSE turn[k][f[k - 1]]]
    OBVIOUS
  <2>3. \A k \in 1..(n + 1): k - 1 \in 0..n /\ k - 1 \in 0..(n + 1)
    OBVIOUS
  <2>4. \A k \in 0..n: g[k] = f[k]
    BY <2>1, <2>2
  <2>5. \A k \in 0..(n + 1): g[k] = IF k = 0 THEN first ELSE turn[k][g[k - 1]]
    <3>1. ASSUME NEW k \in 1..(n + 1) PROVE g[k] = turn[k][g[k - 1]] /\ k # 0
      <4>1. g[k] = turn[k][f[k - 1]] /\ k # 0
        BY <2>2
      <4>2. g[k - 1] = f[k - 1]
        BY <2>3, <2>4
      <4> QED BY <4>1, <4>2, Zenon
    <3>2. g[0] = first
      BY <2>2
    <3> QED BY <3>1, <3>2
  <2>6. Upto(g, n + 1)
    BY <2>2, <2>5
  <2> HIDE DEF Upto
  <2> QED BY <2>6
<1>3. N = Nat
  <2> HIDE DEF N
  <2>1. N \in SUBSET Nat BY DEF N
  <2> QED BY <1>1, <1>2, <2>1, NatSetInduction
<1>4. ASSUME NEW m \in Nat PROVE Upto(at(m), m)
  <2> HIDE DEF Upto
  <2> QED BY <1>3
<1>5. ASSUME NEW m \in Nat, NEW n \in Nat PROVE \A k \in Nat: k <= m /\ k <= n => at(m)[k] = at(n)[k]
  <2> DEFINE K == {k \in Nat: k <= m /\ k <= n => at(m)[k] = at(n)[k]}
  <2>0. Upto(at(m), m) /\ Upto(at(n), n)
    BY <1>4
  <2> HIDE DEF at
  <2>1. 0 \in K
    BY <2>0
  <2>2. \A k \in K: k + 1 \in K
    BY <2>0
  <2>3. K = Nat
    <3> HIDE DEF K
    <3>1. K \in SUBSET Nat BY DEF K
    <3> QED BY <2>1, <2>2, <3>1, NatSetInduction
  <2> QED BY <2>3
<1>6. PICK f: f = [k \in Nat |-> at(k)[k]]
  OBVIOUS
<1>7. ASSUME NEW k \in Nat PROVE f[k] = IF k = 0 THEN first ELSE turn[k][f[k - 1]]
  <2>1. Upto(at(k), k)
    BY <1>4
  <2> HIDE DEF at
  <2>2. k # 0 => at(k)[k] = turn[k][at(k)[k - 1]]
    BY <2>1
  <2>3. k = 0 => at(k)[k] = first
    BY <2>1
  <2> HIDE DEF Upto
  <2>4. k # 0 => k - 1 \in Nat /\ k - 1 <= k /\ k - 1 <= k - 1
    OBVIOUS
  <2>5. k # 0 => at(k)[k - 1] = at(k - 1)[k - 1]
    BY <1>5, <2>4
  <2> QED BY <1>6, <2>2, <2>3, <2>4, <2>5
<1>8. f = [k \in Nat |-> IF k = 0 THEN first ELSE turn[k][f[k - 1]]]
  <2>1. PICK g: g = [k \in Nat |-> IF k = 0 THEN first ELSE turn[k][f[k - 1]]]
    OBVIOUS
  <2>2. \A k \in Nat: f[k] = g[k]
    BY <1>7, <2>1
  <2>3. f = [k \in Nat |-> f[k]] /\ g = [k \in Nat |-> g[k]]
    BY <1>6, <2>1
  <2>4. f = g
    BY <2>2, <2>3
  <2> QED BY <2>1, <2>4, Zenon
<1> QED BY <1>8 DEF Repeats

\* ... begins as it says and goes on turn by turn.
LEMMA TurnByTurn ==
  ASSUME NEW turn, NEW first
  PROVE  /\ Turns(turn, first)[0] = first
         /\ \A k \in Nat: Turns(turn, first)[k + 1] = turn[k + 1][Turns(turn, first)[k]]
<1>1. Turns(turn, first) = CHOOSE f: Repeats(f, turn, first)
  BY DEF Turns, Repeats
<1>3. Repeats(Turns(turn, first), turn, first)
  BY <1>1, TurnsExist
<1>4. PICK f: f = Turns(turn, first)
  OBVIOUS
<1>5. f = [k \in Nat |-> IF k = 0 THEN first ELSE turn[k][f[k - 1]]]
  BY <1>3, <1>4 DEF Repeats
<1>6. f[0] = first
  BY <1>5
<1>7. ASSUME NEW k \in Nat PROVE f[k + 1] = turn[k + 1][f[k]]
  <2>1. k + 1 \in Nat /\ k + 1 # 0 /\ (k + 1) - 1 = k
    OBVIOUS
  <2>2. f[k + 1] = turn[k + 1][f[(k + 1) - 1]]
    BY <1>5, <2>1
  <2> QED BY <2>1, <2>2
<1> QED BY <1>4, <1>6, <1>7

\* Numbers have a smallest; ...
LEMMA MinOf ==
  ASSUME NEW S \in SUBSET Nat, S # {}
  PROVE  Min(S) \in S
BY SmallestOf DEF Min

\* ... finitely many values have a largest.
LEMMA LargestOf ==
  ASSUME NEW P, NEW f, IsFiniteSet(P), P # {}, \A p \in P: f[p] \in Nat
  PROVE  \E q \in P: \A p \in P: f[p] <= f[q]
<1> DEFINE T == {U \in SUBSET P: U # {} => \E q \in U: \A p \in U: f[p] <= f[q]}
<1>1. ASSUME NEW U \in SUBSET P, \A x \in U: U \ {x} \in T PROVE U \in T
  <2> SUFFICES ASSUME U # {} PROVE \E q \in U: \A p \in U: f[p] <= f[q]
    OBVIOUS
  <2>1. PICK x \in U: TRUE
    OBVIOUS
  <2>2. CASE U \ {x} = {}
    BY <2>1, <2>2
  <2>3. CASE U \ {x} # {}
    <3>1. PICK q \in U \ {x}: \A p \in U \ {x}: f[p] <= f[q]
      BY <1>1, <2>1, <2>3
    <3>2. f[q] \in Nat /\ f[x] \in Nat
      OBVIOUS
    <3> QED BY <3>1, <3>2
  <2> QED BY <2>2, <2>3
<1>2. T = SUBSET P
  <2> HIDE DEF T
  <2>1. T \in SUBSET SUBSET P BY DEF T
  <2> QED BY <1>1, <2>1, SubsetInduction
<1> QED BY <1>2

\* What one turn after another keeps, all of them keep.
LEMMA TurnsKeep ==
  ASSUME NEW turn, NEW first, NEW Good, NEW top \in Nat, first \in Good[0],
         \A k \in Nat: k < top => \A x \in Good[k]: turn[k + 1][x] \in Good[k + 1]
  PROVE  Turns(turn, first)[top] \in Good[top]
<1> DEFINE T == {k \in Nat: k <= top => Turns(turn, first)[k] \in Good[k]}
<1>1. T = Nat
  <2>1. 0 \in T
    BY TurnByTurn
  <2>2. ASSUME NEW k \in T PROVE k + 1 \in T
    BY TurnByTurn
  <2>3. T \in SUBSET Nat
    OBVIOUS
  <2> HIDE DEF T
  <2> QED BY <2>1, <2>2, <2>3, NatSetInduction
<1> QED BY <1>1

\* A sequence without repetitions is as long as its elements are many.
LEMMA LenIsCardinality ==
  ASSUME NEW T, IsFiniteSet(T), NEW s \in Seq(T), IsInjective(s)
  PROVE  /\ IsFiniteSet(ToSet(s))
         /\ Cardinality(ToSet(s)) = Len(s)
         /\ Len(s) <= Cardinality(T)
<1>1. DOMAIN s = 1..Len(s) /\ Len(s) \in Nat /\ s \in [1..Len(s) -> T]
  OBVIOUS
<1>2. ToSet(s) \in SUBSET T /\ s \in [1..Len(s) -> ToSet(s)]
  BY <1>1 DEF ToSet
<1>3. IsFiniteSet(1..Len(s)) /\ Cardinality(1..Len(s)) = Len(s)
  BY <1>1, FS_Interval
<1>4. \A a, b \in 1..Len(s): s[a] = s[b] => a = b
  BY <1>1 DEF IsInjective
<1>5. s \in Injection(1..Len(s), T)
  BY <1>1, <1>4, Fun_IsInj
<1>6. Len(s) <= Cardinality(T)
  BY <1>3, <1>5, FS_Injection
<1>7. s \in Surjection(1..Len(s), ToSet(s))
  BY <1>1, <1>2, Fun_IsSurj DEF ToSet
<1>8. s \in Bijection(1..Len(s), ToSet(s))
  BY <1>2, <1>4, <1>7, Fun_IsBij
<1>9. ExistsBijection(1..Len(s), ToSet(s))
  BY <1>8, Fun_ExistsBij
<1> QED BY <1>3, <1>6, <1>9, FS_Bijection

\* What Append does to the elements of a sequence.
LEMMA AppendElements ==
  ASSUME NEW T, NEW s \in Seq(T), NEW x \in T
  PROVE  /\ Append(s, x) \in Seq(T) /\ Append(s, x) # <<>>
         /\ Len(Append(s, x)) = Len(s) + 1 /\ Append(s, x)[Len(s) + 1] = x
         /\ \A k \in 1..Len(s): Append(s, x)[k] = s[k]
         /\ ToSet(Append(s, x)) = ToSet(s) \cup {x}
         /\ IsInjective(s) /\ x \notin ToSet(s) => IsInjective(Append(s, x))
<1>1. /\ Append(s, x) \in Seq(T) /\ Append(s, x) # <<>>
      /\ Len(Append(s, x)) = Len(s) + 1 /\ Append(s, x)[Len(s) + 1] = x
      /\ \A k \in 1..Len(s): Append(s, x)[k] = s[k]
  BY AppendProperties
<1>2. PICK t \in Seq(T): t = Append(s, x)
  BY <1>1
<1>3. DOMAIN t = 1..(Len(s) + 1) /\ DOMAIN s = 1..Len(s) /\ Len(s) \in Nat
  BY <1>1, <1>2
<1>4. t[Len(s) + 1] = x /\ \A k \in 1..Len(s): t[k] = s[k]
  BY <1>1, <1>2
<1>5. \A k \in 1..(Len(s) + 1): k \in 1..Len(s) \/ k = Len(s) + 1
  BY <1>3
<1>6. ToSet(t) = ToSet(s) \cup {x}
  BY <1>3, <1>4, <1>5 DEF ToSet
<1>7. IsInjective(s) /\ x \notin ToSet(s) => IsInjective(t)
  BY <1>3, <1>4, <1>5 DEF ToSet, IsInjective
<1> QED BY <1>1, <1>2, <1>6, <1>7

\* Of such a sequence Front leaves out the last.
LEMMA FrontElements ==
  ASSUME NEW T, NEW s \in Seq(T), s # <<>>
  PROVE  /\ Len(s) \in Nat \ {0} /\ Last(s) \in T /\ Last(s) \in ToSet(s)
         /\ Front(s) \in Seq(T) /\ Len(Front(s)) = Len(s) - 1
         /\ \A k \in 1..(Len(s) - 1): Front(s)[k] = s[k]
         /\ IsInjective(s) => IsInjective(Front(s)) /\ ToSet(Front(s)) = ToSet(s) \ {Last(s)}
<1>1. Len(s) \in Nat \ {0} /\ DOMAIN s = 1..Len(s)
  OBVIOUS
<1>2. \A k \in 1..Len(s): s[k] \in T
  OBVIOUS
<1>3. PICK n \in Nat: n = Len(s) - 1
  <2>1. Len(s) - 1 \in Nat
    BY <1>1
  <2> QED BY <2>1
<1>4. n \in Int /\ 1 \in Int /\ \A k \in 1..n: s[k] \in T
  BY <1>2, <1>3
<1>5. /\ SubSeq(s, 1, n) \in Seq(T)
      /\ Len(SubSeq(s, 1, n)) = IF 1 <= n THEN n - 1 + 1 ELSE 0
      /\ \A k \in 1..n - 1 + 1: SubSeq(s, 1, n)[k] = s[1 + k - 1]
  BY <1>4, SubSeqProperties
<1>6. PICK t \in Seq(T): t = Front(s)
  BY <1>3, <1>5 DEF Front
<1>7. Len(t) = n /\ DOMAIN t = 1..n /\ \A k \in 1..n: t[k] = s[k]
  BY <1>3, <1>5, <1>6 DEF Front
<1>8. \A k \in 1..Len(s): k \in 1..n \/ k = Len(s)
  BY <1>3
<1>9. ASSUME IsInjective(s) PROVE IsInjective(t) /\ ToSet(t) = ToSet(s) \ {s[Len(s)]}
  <2>1. \A a, b \in 1..Len(s): s[a] = s[b] => a = b
    BY <1>1, <1>9 DEF IsInjective
  <2>2. \A a \in 1..n: a \in 1..Len(s) /\ a # Len(s)
    BY <1>3
  <2>3. IsInjective(t)
    BY <1>7, <2>1, <2>2 DEF IsInjective
  <2>4. ToSet(s) = {s[k]: k \in 1..Len(s)} /\ ToSet(t) = {s[k]: k \in 1..n}
    BY <1>1, <1>7 DEF ToSet
  <2>5. Len(s) \in 1..Len(s)
    BY <1>1
  <2>6. ToSet(t) = ToSet(s) \ {s[Len(s)]}
    BY <1>8, <2>1, <2>2, <2>4, <2>5
  <2> QED BY <2>3, <2>6
<1>10. s[Len(s)] \in T /\ s[Len(s)] \in ToSet(s)
  BY <1>1 DEF ToSet
<1> QED BY <1>1, <1>3, <1>6, <1>7, <1>9, <1>10 DEF Last

-----------------------------------------------------------------------------
(* Networks                                                                 *)

\* The type of a network, said of any.
IsNetwork(n) ==
  /\ n \in [days: Seq(Days), depends: SUBSET (Nat \X Nat)]
  /\ n.depends \subseteq Places(n) \X Places(n)
  /\ Len(n.days) <= MaxActivities

\* One of the activities waits for none of them.
Sourced(n, S) == \E i \in S: Predecessors(n, i) \cap S = {}
Acyclic(n) == \A S \in SUBSET Places(n): S # {} => Sourced(n, S)

\* The activities are numbered from one.
LEMMA PlacesOf ==
  ASSUME NEW n, IsNetwork(n)
  PROVE  /\ Places(n) = 1..Len(n.days) /\ Len(n.days) \in Nat
         /\ IsFiniteSet(Places(n)) /\ Cardinality(Places(n)) = Len(n.days)
         /\ Places(n) \subseteq Nat
<1>1. n.days \in Seq(Days)
  BY DEF IsNetwork
<1>2. Places(n) = 1..Len(n.days) /\ Len(n.days) \in Nat
  BY <1>1 DEF Places
<1> QED BY <1>2, FS_Interval

\* A loop has no source.
LEMMA LoopsAreCyclic ==
  ASSUME NEW n, NEW loop \in Seq(Places(n)), IsLoop(n, loop)
  PROVE  ~ Acyclic(n)
<1> DEFINE S == {loop[k]: k \in 1..Len(loop)}
<1>1. /\ Len(loop) \in Nat /\ Len(loop) > 1 /\ loop[1] = loop[Len(loop)]
      /\ \A k \in 1..(Len(loop) - 1): <<loop[k], loop[k + 1]>> \in n.depends
      /\ \A k \in 1..Len(loop): loop[k] \in Places(n)
  BY DEF IsLoop
<1>2. ASSUME NEW k \in 1..Len(loop) PROVE Predecessors(n, loop[k]) \cap S # {}
  <2>1. CASE k = 1
    <3>1. Len(loop) - 1 \in 1..(Len(loop) - 1) /\ (Len(loop) - 1) + 1 = Len(loop)
      BY <1>1
    <3>2. <<loop[Len(loop) - 1], loop[k]>> \in n.depends
      BY <1>1, <2>1, <3>1
    <3>3. Len(loop) - 1 \in 1..Len(loop)
      BY <1>1
    <3>4. loop[Len(loop) - 1] \in Predecessors(n, loop[k])
      BY <1>1, <3>2, <3>3 DEF Predecessors
    <3> QED BY <3>3, <3>4
  <2>2. CASE k # 1
    <3>1. k - 1 \in 1..(Len(loop) - 1) /\ k - 1 \in 1..Len(loop) /\ (k - 1) + 1 = k
      BY <1>1, <2>2
    <3>2. <<loop[k - 1], loop[k]>> \in n.depends
      BY <1>1, <3>1
    <3>3. loop[k - 1] \in Predecessors(n, loop[k])
      BY <1>1, <3>1, <3>2 DEF Predecessors
    <3> QED BY <3>1, <3>3
  <2> QED BY <2>1, <2>2
<1>3. S \in SUBSET Places(n) /\ loop[1] \in S
  BY <1>1
<1>4. ~ Sourced(n, S)
  BY <1>2 DEF Sourced
<1> HIDE DEF S
<1> QED BY <1>3, <1>4 DEF Acyclic

\* The part of a path from an activity on it.
LEMMA FromPath ==
  ASSUME NEW T, NEW path \in Seq(T), NEW i \in ToSet(path)
  PROVE  \E j \in 1..Len(path):
           /\ path[j] = i /\ From(path, i) \in Seq(T)
           /\ Len(From(path, i)) = (Len(path) - j) + 1
           /\ \A m \in 1..((Len(path) - j) + 1): From(path, i)[m] = path[j + m - 1]
<1>1. DOMAIN path = 1..Len(path) /\ Len(path) \in Nat
  OBVIOUS
<1>2. PICK j: j = CHOOSE k \in DOMAIN path: path[k] = i
  OBVIOUS
<1>3. j \in 1..Len(path) /\ path[j] = i
  BY <1>1, <1>2 DEF ToSet
<1>4. From(path, i) = SubSeq(path, j, Len(path))
  BY <1>2 DEF From
<1>5. j \in Int /\ Len(path) \in Int /\ j <= Len(path) /\ \A k \in j..Len(path): path[k] \in T
  BY <1>1, <1>3
<1>6. /\ SubSeq(path, j, Len(path)) \in Seq(T)
      /\ Len(SubSeq(path, j, Len(path))) = IF j <= Len(path) THEN Len(path) - j + 1 ELSE 0
      /\ \A m \in 1..Len(path) - j + 1: SubSeq(path, j, Len(path))[m] = path[j + m - 1]
  BY <1>5, SubSeqProperties
<1> QED BY <1>3, <1>4, <1>5, <1>6

-----------------------------------------------------------------------------
(* The search: who is left behind is followed by those left behind, and of *)
(* any of them one waits for none of the others.                           *)

SearchOK(n, s) ==
  /\ IsInjective(s.path) /\ ToSet(s.path) \cap s.behind = {}
  /\ \A j \in 1..(Len(s.path) - 1): <<s.path[j], s.path[j + 1]>> \in n.depends
  /\ \A i \in s.behind: Followers(n, i) \subseteq s.behind
  /\ \A S \in SUBSET s.behind: S # {} => Sourced(n, S)
  /\ s.loop # <<>> => IsLoop(n, s.loop)

\* After k turns.
Searched(n) ==
  [k \in Nat |->
     {s \in Searches(n):
        /\ SearchOK(n, s)
        /\ \/ s.loop # <<>> \/ s.behind = Places(n)
           \/ 2 * Cardinality(s.behind) + Len(s.path) = k}]

\* An activity met again closes a loop.
LEMMA MeetingClosesLoop ==
  ASSUME NEW n, NEW s \in Searches(n), SearchOK(n, s), NEW i \in ToSet(s.path),
         <<Last(s.path), i>> \in n.depends
  PROVE  /\ Append(From(s.path, i), i) \in Seq(Places(n))
         /\ IsLoop(n, Append(From(s.path, i), i))
<1>1. PICK path \in Seq(Places(n)): path = s.path
  BY DEF Searches
<1>2. \A j \in 1..(Len(path) - 1): <<path[j], path[j + 1]>> \in n.depends
  BY <1>1 DEF SearchOK
<1>3. PICK j \in 1..Len(path):
           /\ path[j] = i /\ From(path, i) \in Seq(Places(n))
           /\ Len(From(path, i)) = (Len(path) - j) + 1
           /\ \A m \in 1..((Len(path) - j) + 1): From(path, i)[m] = path[j + m - 1]
  <2>1. i \in ToSet(path)
    BY <1>1
  <2> QED BY <2>1, FromPath
<1>4. PICK part \in Seq(Places(n)): part = From(path, i)
  BY <1>3
<1>5. Len(path) \in Nat /\ i \in Places(n)
  BY <1>1 DEF ToSet
<1>6. PICK L \in Nat \ {0}: L = Len(part) /\ L = (Len(path) - j) + 1
  BY <1>3, <1>4, <1>5
<1>7. PICK loop \in Seq(Places(n)): loop = Append(part, i)
  BY <1>4, <1>5, AppendElements
<1>8. /\ Len(loop) = L + 1 /\ loop[L + 1] = i
      /\ \A k \in 1..L: loop[k] = part[k]
  <2>1. Len(Append(part, i)) = Len(part) + 1 /\ Append(part, i)[Len(part) + 1] = i
    BY <1>5, AppendElements
  <2>2. \A k \in 1..Len(part): Append(part, i)[k] = part[k]
    BY <1>5, AppendElements
  <2> QED BY <1>6, <1>7, <2>1, <2>2
<1>9. \A k \in 1..L: loop[k] = path[j + k - 1]
  BY <1>3, <1>4, <1>6, <1>8
<1>10. loop[1] = i
  <2>1. 1 \in 1..L /\ j + 1 - 1 = j
    BY <1>6
  <2> QED BY <1>3, <1>9, <2>1
<1>11. ASSUME NEW k \in 1..L PROVE <<loop[k], loop[k + 1]>> \in n.depends
  <2>1. CASE k = L
    <3>1. j + k - 1 = Len(path)
      BY <1>5, <1>6, <2>1
    <3>2. loop[k] = Last(path)
      BY <1>9, <3>1 DEF Last
    <3> QED BY <1>1, <1>8, <2>1, <3>2
  <2>2. CASE k # L
    <3>1. k + 1 \in 1..L /\ j + k - 1 \in 1..(Len(path) - 1) /\ j + (k + 1) - 1 = (j + k - 1) + 1
      <4>0. j \in Nat /\ 1 <= j
        BY <1>3, <1>5
      <4>1. k \in Nat /\ k < L /\ 1 <= k
        BY <2>2
      <4>2. L = (Len(path) - j) + 1 /\ Len(path) \in Nat
        BY <1>5, <1>6
      <4> QED BY <4>0, <4>1, <4>2
    <3>2. loop[k] = path[j + k - 1] /\ loop[k + 1] = path[(j + k - 1) + 1]
      BY <1>9, <3>1
    <3> QED BY <1>2, <3>1, <3>2
  <2> QED BY <2>1, <2>2
<1>12. IsLoop(n, loop)
  <2>1. Len(loop) > 1 /\ Len(loop) - 1 = L
    BY <1>6, <1>8
  <2> QED BY <1>8, <1>10, <1>11, <2>1 DEF IsLoop
<1> QED BY <1>1, <1>4, <1>7, <1>12

\* Each way on of the search: it finds a loop.
LEMMA VisitFinds ==
  ASSUME NEW n, IsNetwork(n), NEW s \in Searches(n), SearchOK(n, s),
         NEW i \in ToSet(s.path), i \in Ahead(n, s)
  PROVE  LET t == [s EXCEPT !.loop = Append(From(s.path, i), i)] IN
         t \in Searches(n) /\ SearchOK(n, t) /\ t.loop # <<>>
<1>1. s.path # <<>> /\ i \in Followers(n, Last(s.path))
  BY DEF Ahead, ToSet
<1>2. <<Last(s.path), i>> \in n.depends
  BY <1>1 DEF Followers
<1>3. PICK loop \in Seq(Places(n)): loop = Append(From(s.path, i), i) /\ IsLoop(n, loop)
  BY <1>2, MeetingClosesLoop
<1>4. loop # <<>>
  BY <1>3 DEF IsLoop
<1>5. PICK t \in Searches(n): t = [s EXCEPT !.loop = loop]
  BY DEF Searches
<1>6. t.behind = s.behind /\ t.path = s.path /\ t.loop = loop
  BY <1>5 DEF Searches
<1>7. SearchOK(n, t)
  BY <1>3, <1>6 DEF SearchOK
<1> QED BY <1>3, <1>4, <1>5, <1>6, <1>7

\* It goes on to an activity that is new.
LEMMA VisitGoes ==
  ASSUME NEW n, IsNetwork(n), NEW s \in Searches(n), SearchOK(n, s),
         NEW i \in Places(n), i \notin ToSet(s.path), i \in Ahead(n, s)
  PROVE  LET t == [s EXCEPT !.path = Append(@, i)] IN
         /\ t \in Searches(n) /\ SearchOK(n, t)
         /\ t.behind = s.behind /\ t.loop = s.loop /\ Len(t.path) = Len(s.path) + 1
<1>1. PICK path \in Seq(Places(n)): path = s.path
  BY DEF Searches
<1>2. PICK new \in Seq(Places(n)): new = Append(path, i)
  BY AppendElements
<1>3. /\ Len(new) = Len(path) + 1 /\ new[Len(path) + 1] = i
      /\ \A k \in 1..Len(path): new[k] = path[k]
      /\ ToSet(new) = ToSet(path) \cup {i}
      /\ IsInjective(path) /\ i \notin ToSet(path) => IsInjective(new)
  BY <1>2, AppendElements
<1>4. PICK t \in Searches(n): t = [s EXCEPT !.path = new]
  BY DEF Searches
<1>5. t.behind = s.behind /\ t.path = new /\ t.loop = s.loop
  BY <1>4 DEF Searches
<1>6. IsInjective(new) /\ ToSet(new) \cap s.behind = {}
  <2>1. IsInjective(path) /\ ToSet(path) \cap s.behind = {} /\ i \notin ToSet(path)
    BY <1>1 DEF SearchOK
  <2>2. i \notin s.behind
    BY DEF Ahead
  <2> QED BY <1>3, <2>1, <2>2
<1>7. ASSUME NEW k \in 1..(Len(new) - 1) PROVE <<new[k], new[k + 1]>> \in n.depends
  <2>0. Len(path) \in Nat /\ k \in 1..Len(path)
    BY <1>3
  <2>1. CASE k = Len(path)
    <3>1. path # <<>> /\ new[k] = Last(path) /\ new[k + 1] = i
      BY <1>3, <2>0, <2>1 DEF Last
    <3>2. i \in Followers(n, Last(path))
      BY <1>1, <3>1 DEF Ahead
    <3> QED BY <3>1, <3>2 DEF Followers
  <2>2. CASE k # Len(path)
    <3>1. k \in 1..(Len(path) - 1) /\ k + 1 \in 1..Len(path)
      BY <2>0, <2>2
    <3>2. <<path[k], path[k + 1]>> \in n.depends
      BY <1>1, <3>1 DEF SearchOK
    <3> QED BY <1>3, <2>0, <3>1, <3>2
  <2> QED BY <2>1, <2>2
<1>8. SearchOK(n, t)
  BY <1>5, <1>6, <1>7 DEF SearchOK
<1>9. t = [s EXCEPT !.path = Append(@, i)]
  BY <1>1, <1>2, <1>4
<1> QED BY <1>1, <1>3, <1>4, <1>5, <1>8, <1>9

\* An activity is left when all that follow it are behind.
LEMMA VisitLeaves ==
  ASSUME NEW n, IsNetwork(n), NEW s \in Searches(n), SearchOK(n, s),
         s.path # <<>>, Ahead(n, s) = {}
  PROVE  LET t == [s EXCEPT !.path = Front(@), !.behind = @ \cup {Last(s.path)}] IN
         /\ t \in Searches(n) /\ SearchOK(n, t) /\ t.loop = s.loop
         /\ Cardinality(t.behind) = Cardinality(s.behind) + 1 /\ Cardinality(s.behind) \in Nat
         /\ Len(t.path) = Len(s.path) - 1 /\ Len(s.path) \in Nat
<1>1. PICK path \in Seq(Places(n)): path = s.path
  BY DEF Searches
<1>2. PICK i \in Places(n): i = Last(path) /\ i \in ToSet(path)
  BY <1>1, FrontElements
<1>3. PICK new \in Seq(Places(n)): new = Front(path)
  BY <1>1, FrontElements
<1>4. /\ Len(path) \in Nat \ {0} /\ Len(new) = Len(path) - 1
      /\ \A k \in 1..(Len(path) - 1): new[k] = path[k]
      /\ IsInjective(path) => IsInjective(new) /\ ToSet(new) = ToSet(path) \ {i}
  BY <1>1, <1>2, <1>3, FrontElements
<1>5. PICK behind \in SUBSET Places(n): behind = s.behind \cup {i}
  BY DEF Searches
<1>6. PICK t \in Searches(n): t = [s EXCEPT !.path = new, !.behind = behind]
  BY DEF Searches
<1>7. t.behind = behind /\ t.path = new /\ t.loop = s.loop
  BY <1>6 DEF Searches
<1>8. IsInjective(path) /\ ToSet(path) \cap s.behind = {}
  BY <1>1 DEF SearchOK
<1>9. IsInjective(new) /\ ToSet(new) \cap behind = {}
  BY <1>4, <1>5, <1>8
<1>10. ASSUME NEW k \in 1..(Len(new) - 1) PROVE <<new[k], new[k + 1]>> \in n.depends
  <2>1. k \in 1..(Len(path) - 1) /\ k + 1 \in 1..(Len(path) - 1)
    BY <1>4
  <2>2. <<path[k], path[k + 1]>> \in n.depends
    BY <1>1, <2>1 DEF SearchOK
  <2> QED BY <1>4, <2>1, <2>2
<1>11. Followers(n, i) \subseteq s.behind /\ i \notin s.behind
  BY <1>1, <1>2, <1>8 DEF Ahead
<1>12. \A p \in s.behind: Followers(n, p) \subseteq s.behind
  BY DEF SearchOK
<1>13. \A p \in behind: Followers(n, p) \subseteq behind
  BY <1>5, <1>11, <1>12
<1>14. ASSUME NEW S \in SUBSET behind, S # {} PROVE Sourced(n, S)
  <2>1. CASE i \in S
    <3>1. ASSUME NEW p \in Predecessors(n, i), p \in S PROVE FALSE
      <4>1. i \in Followers(n, p) /\ p \in behind
        BY <3>1 DEF Predecessors, Followers
      <4> QED BY <1>5, <1>11, <1>12, <4>1
    <3> QED BY <2>1, <3>1 DEF Sourced
  <2>2. CASE i \notin S
    <3>1. S \in SUBSET s.behind
      BY <1>5, <2>2
    <3> QED BY <1>14, <3>1 DEF SearchOK
  <2> QED BY <2>1, <2>2
<1>15. SearchOK(n, t)
  BY <1>7, <1>9, <1>10, <1>13, <1>14 DEF SearchOK
<1>16. Cardinality(behind) = Cardinality(s.behind) + 1 /\ Cardinality(s.behind) \in Nat
  <2>1. IsFiniteSet(s.behind)
    BY PlacesOf, FS_Subset DEF Searches
  <2> QED BY <1>5, <1>11, <2>1, FS_AddElement, FS_CardinalityType
<1>17. t = [s EXCEPT !.path = Front(@), !.behind = @ \cup {Last(s.path)}]
  BY <1>1, <1>2, <1>3, <1>5, <1>6
<1> QED BY <1>1, <1>4, <1>6, <1>7, <1>15, <1>16, <1>17

\* Every turn of the search keeps what is said of it.
LEMMA VisitKeeps ==
  ASSUME NEW n, IsNetwork(n), NEW k \in Nat, NEW s \in Searched(n)[k]
  PROVE  Visit(n, s) \in Searched(n)[k + 1]
<1>1. /\ s \in Searches(n) /\ SearchOK(n, s)
      /\ s.loop # <<>> \/ s.behind = Places(n) \/ 2 * Cardinality(s.behind) + Len(s.path) = k
  BY DEF Searched
<1> DEFINE Kept(t) == /\ t \in Searches(n) /\ SearchOK(n, t)
                      /\ \/ t.loop # <<>> \/ t.behind = Places(n)
                         \/ 2 * Cardinality(t.behind) + Len(t.path) = k + 1
<1>2. \A t: Kept(t) => t \in Searched(n)[k + 1]
  BY DEF Searched
<1>3. Len(s.path) \in Nat
  BY <1>1 DEF Searches
<1>4. CASE s.loop # <<>>
  BY <1>1, <1>2, <1>4 DEF Visit
<1>5. CASE s.loop = <<>> /\ Ahead(n, s) # {}
  <2>1. PICK i: i = Min(Ahead(n, s))
    OBVIOUS
  <2>2. Ahead(n, s) \in SUBSET Nat /\ Ahead(n, s) \subseteq Places(n)
    <3>1. Ahead(n, s) \subseteq Places(n)
      BY DEF Ahead, Followers
    <3> QED BY <3>1, PlacesOf
  <2>3. i \in Ahead(n, s) /\ i \in Places(n)
    BY <1>5, <2>1, <2>2, MinOf
  <2>4. CASE i \in ToSet(s.path)
    <3>1. Visit(n, s) = [s EXCEPT !.loop = Append(From(s.path, i), i)]
      BY <1>5, <2>1, <2>4 DEF Visit
    <3>2. Kept(Visit(n, s))
      BY <1>1, <2>3, <2>4, <3>1, VisitFinds
    <3> QED BY <1>2, <3>2
  <2>5. CASE i \notin ToSet(s.path)
    <3>1. Visit(n, s) = [s EXCEPT !.path = Append(@, i)]
      BY <1>5, <2>1, <2>5 DEF Visit
    <3>2. PICK t: t = Visit(n, s)
      OBVIOUS
    <3>3. /\ t \in Searches(n) /\ SearchOK(n, t)
          /\ t.behind = s.behind /\ t.loop = s.loop /\ Len(t.path) = Len(s.path) + 1
      BY <1>1, <2>3, <2>5, <3>1, <3>2, VisitGoes
    <3>4. Cardinality(s.behind) \in Nat
      BY <1>1, PlacesOf, FS_Subset, FS_CardinalityType DEF Searches
    <3>5. Kept(t)
      BY <1>1, <1>3, <3>3, <3>4
    <3> QED BY <1>2, <3>2, <3>5
  <2> QED BY <2>4, <2>5
<1>6. CASE s.loop = <<>> /\ Ahead(n, s) = {} /\ s.path # <<>>
  <2>1. Visit(n, s) = [s EXCEPT !.path = Front(@), !.behind = @ \cup {Last(s.path)}]
    BY <1>6 DEF Visit
  <2>2. PICK t: t = Visit(n, s)
    OBVIOUS
  <2>3. /\ t \in Searches(n) /\ SearchOK(n, t) /\ t.loop = s.loop
        /\ Cardinality(t.behind) = Cardinality(s.behind) + 1 /\ Cardinality(s.behind) \in Nat
        /\ Len(t.path) = Len(s.path) - 1 /\ Len(s.path) \in Nat
    BY <1>1, <1>6, <2>1, <2>2, VisitLeaves
  <2>4. s.behind # Places(n)
    <3>1. s.path \in Seq(Places(n)) /\ Last(s.path) \in Places(n) /\ Last(s.path) \in ToSet(s.path)
      BY <1>1, <1>6, FrontElements DEF Searches
    <3> QED BY <1>1, <3>1 DEF SearchOK
  <2>5. Kept(t)
    BY <1>1, <1>6, <2>3, <2>4
  <2> QED BY <1>2, <2>2, <2>5
<1>7. CASE s.loop = <<>> /\ Ahead(n, s) = {} /\ s.path = <<>>
  <2>1. Visit(n, s) = s /\ s.behind = Places(n)
    BY <1>1, <1>7 DEF Visit, Ahead, Searches
  <2> QED BY <1>1, <1>2, <2>1
<1> QED BY <1>4, <1>5, <1>6, <1>7

\* The search reports a loop when there is one, and nothing else.
THEOREM FindLoopRight ==
  ASSUME NEW n, IsNetwork(n)
  PROVE  IF Acyclic(n) THEN FindLoop(n) = <<>> ELSE IsLoop(n, FindLoop(n))
<1> DEFINE turn == [k \in Nat |-> [search \in Searches(n) |-> Visit(n, search)]]
           last == 2 * Len(n.days)
<1>1. Len(n.days) \in Nat /\ last \in Nat /\ Places(n) = 1..Len(n.days)
  BY PlacesOf
<1>2. Unsearched \in Searched(n)[0]
  <2>1. Unsearched \in Searches(n)
    BY DEF Unsearched, Searches
  <2>2. ToSet(<<>>) = {} /\ IsInjective(<<>>) /\ Len(<<>>) = 0
    BY DEF ToSet, IsInjective
  <2>3. SearchOK(n, Unsearched)
    BY <2>2 DEF SearchOK, Unsearched
  <2>4. 2 * Cardinality({}) + Len(<<>>) = 0
    BY <2>2, FS_EmptySet
  <2> QED BY <2>1, <2>3, <2>4 DEF Searched, Unsearched
<1>3. ASSUME NEW k \in Nat, NEW x \in Searched(n)[k]
      PROVE  turn[k + 1][x] \in Searched(n)[k + 1]
  <2>1. x \in Searches(n)
    BY DEF Searched
  <2>2. turn[k + 1][x] = Visit(n, x)
    BY <2>1
  <2> QED BY <2>2, VisitKeeps
<1>4. Turns(turn, Unsearched)[last] \in Searched(n)[last]
  <2> HIDE DEF turn, last
  <2> QED BY <1>1, <1>2, <1>3, TurnsKeep
<1>5. PICK s: s = Turns(turn, Unsearched)[last]
  OBVIOUS
<1>6. FindLoop(n) = s.loop
  BY <1>5 DEF FindLoop
<1>7. /\ s \in Searches(n) /\ SearchOK(n, s)
      /\ s.loop # <<>> \/ s.behind = Places(n) \/ 2 * Cardinality(s.behind) + Len(s.path) = last
  BY <1>1, <1>4, <1>5 DEF Searched
<1>8. CASE s.loop # <<>>
  <2>1. IsLoop(n, s.loop) /\ s.loop \in Seq(Places(n))
    BY <1>7, <1>8 DEF SearchOK, Searches
  <2> QED BY <1>6, <2>1, LoopsAreCyclic
<1>9. CASE s.loop = <<>>
  <2>1. PICK path \in Seq(Places(n)), behind \in SUBSET Places(n): path = s.path /\ behind = s.behind
    BY <1>7 DEF Searches
  <2>2. IsInjective(path) /\ ToSet(path) \cap behind = {}
    BY <1>7, <2>1 DEF SearchOK
  <2>3. IsFiniteSet(Places(n)) /\ Cardinality(Places(n)) = Len(n.days)
    BY PlacesOf
  <2>4. IsFiniteSet(behind) /\ Cardinality(behind) \in Nat
    BY <2>3, FS_Subset, FS_CardinalityType
  <2>5. IsFiniteSet(ToSet(path)) /\ Cardinality(ToSet(path)) = Len(path) /\ Len(path) \in Nat
    BY <2>2, <2>3, LenIsCardinality
  <2>6. Cardinality(ToSet(path) \cup behind) = Len(path) + Cardinality(behind)
    BY <2>2, <2>4, <2>5, FS_Union, FS_EmptySet
  <2>7. ToSet(path) \cup behind \in SUBSET Places(n)
    BY DEF ToSet
  <2>8. Len(path) + Cardinality(behind) <= Len(n.days)
    BY <2>3, <2>6, <2>7, FS_Subset
  <2>9. behind = Places(n)
    <3>1. CASE 2 * Cardinality(behind) + Len(path) = last
      <4>1. Cardinality(behind) = Len(n.days)
        BY <1>1, <2>4, <2>5, <2>8, <3>1
      <4> QED BY <2>3, <4>1, FS_Subset
    <3> QED BY <1>7, <1>9, <2>1, <3>1
  <2>10. Acyclic(n)
    BY <1>7, <2>1, <2>9 DEF SearchOK, Acyclic
  <2> QED BY <1>6, <1>9, <2>10
<1> QED BY <1>8, <1>9

-----------------------------------------------------------------------------
(* The order: each activity once, after those it waits for.                *)

InOrder(n, order) ==
  /\ IsInjective(order)
  /\ \A j \in DOMAIN order: Predecessors(n, order[j]) \subseteq {order[k]: k \in 1..(j - 1)}

Ordered(n) ==
  [k \in Nat |-> {order \in Seq(Places(n)):
                   InOrder(n, order) /\ (Len(order) = k \/ Unblocked(n, order) = {})}]

\* Every turn that puts an activity in order keeps what is said of orders.
LEMMA OrderExtends ==
  ASSUME NEW n, IsNetwork(n), NEW k \in Nat, NEW order \in Ordered(n)[k]
  PROVE  Extended(n, order) \in Ordered(n)[k + 1]
<1>1. /\ order \in Seq(Places(n)) /\ InOrder(n, order)
      /\ Len(order) = k \/ Unblocked(n, order) = {}
  BY DEF Ordered
<1>2. CASE Unblocked(n, order) = {}
  BY <1>1, <1>2 DEF Extended, Ordered
<1>3. CASE Unblocked(n, order) # {}
  <2>1. PICK i: i = Min(Unblocked(n, order))
    OBVIOUS
  <2>2. Unblocked(n, order) \in SUBSET Nat
    BY PlacesOf DEF Unblocked
  <2>3. i \in Unblocked(n, order)
    BY <1>3, <2>1, <2>2, MinOf
  <2>4. i \in Places(n) /\ i \notin ToSet(order) /\ Predecessors(n, i) \subseteq ToSet(order)
    BY <2>3 DEF Unblocked
  <2>5. PICK new \in Seq(Places(n)): new = Append(order, i)
    BY <1>1, <2>4, AppendElements
  <2>6. /\ Len(new) = Len(order) + 1 /\ new[Len(order) + 1] = i
        /\ \A j \in 1..Len(order): new[j] = order[j]
        /\ IsInjective(order) /\ i \notin ToSet(order) => IsInjective(new)
    BY <1>1, <2>4, <2>5, AppendElements
  <2>7. IsInjective(new) /\ Len(order) = k
    BY <1>1, <1>3, <2>4, <2>6 DEF InOrder
  <2>8. DOMAIN order = 1..k /\ DOMAIN new = 1..(k + 1)
    BY <1>1, <2>5, <2>6, <2>7
  <2>9. ASSUME NEW j \in 1..(k + 1)
        PROVE  Predecessors(n, new[j]) \subseteq {new[m]: m \in 1..(j - 1)}
    <3>1. CASE j = k + 1
      <4>1. ToSet(order) = {new[m]: m \in 1..k}
        BY <2>6, <2>7, <2>8 DEF ToSet
      <4>2. new[j] = i /\ j - 1 = k
        BY <2>6, <2>7, <3>1
      <4> QED BY <2>4, <4>1, <4>2
    <3>2. CASE j # k + 1
      <4>1. j \in 1..k /\ \A m \in 1..(j - 1): m \in 1..k
        BY <3>2
      <4>2. new[j] = order[j] /\ \A m \in 1..(j - 1): new[m] = order[m]
        BY <2>6, <2>7, <4>1
      <4>3. Predecessors(n, order[j]) \subseteq {order[m]: m \in 1..(j - 1)}
        BY <1>1, <2>8, <4>1 DEF InOrder
      <4> QED BY <4>2, <4>3
    <3> QED BY <3>1, <3>2
  <2>10. Extended(n, order) = new
    BY <1>3, <2>1, <2>5 DEF Extended
  <2>11. InOrder(n, new)
    BY <2>7, <2>8, <2>9 DEF InOrder
  <2>12. Len(new) = k + 1 /\ k + 1 \in Nat
    BY <2>6, <2>7
  <2> QED BY <2>5, <2>10, <2>11, <2>12 DEF Ordered
<1> QED BY <1>2, <1>3

\* Without a loop every activity gets its place in the order.
THEOREM OrderComplete ==
  ASSUME NEW n, IsNetwork(n), Acyclic(n)
  PROVE  /\ Order(n) \in Seq(Places(n)) /\ InOrder(n, Order(n))
         /\ ToSet(Order(n)) = Places(n)
<1> DEFINE turn == [k \in Nat |-> [order \in Seq(Places(n)) |-> Extended(n, order)]]
           last == Len(n.days)
<1>1. last \in Nat /\ IsFiniteSet(Places(n)) /\ Cardinality(Places(n)) = last
  BY PlacesOf
<1>2. <<>> \in Ordered(n)[0]
  <2>1. <<>> \in Seq(Places(n)) /\ DOMAIN <<>> = {} /\ Len(<<>>) = 0
    OBVIOUS
  <2>2. InOrder(n, <<>>)
    BY <2>1 DEF InOrder, IsInjective
  <2> QED BY <2>1, <2>2 DEF Ordered
<1>3. ASSUME NEW k \in Nat, NEW x \in Ordered(n)[k]
      PROVE  turn[k + 1][x] \in Ordered(n)[k + 1]
  <2>1. x \in Seq(Places(n))
    BY DEF Ordered
  <2>2. turn[k + 1][x] = Extended(n, x)
    BY <2>1
  <2> QED BY <2>2, OrderExtends
<1>4. Turns(turn, <<>>)[last] \in Ordered(n)[last]
  <2> HIDE DEF turn, last
  <2> QED BY <1>1, <1>2, <1>3, TurnsKeep
<1>5. PICK order: order = Order(n)
  OBVIOUS
<1>6. order \in Ordered(n)[last]
  BY <1>4, <1>5 DEF Order
<1>7. /\ order \in Seq(Places(n)) /\ InOrder(n, order)
      /\ Len(order) = last \/ Unblocked(n, order) = {}
  BY <1>1, <1>6 DEF Ordered
<1>8. ToSet(order) \in SUBSET Places(n)
  BY <1>7 DEF ToSet
<1>9. CASE Len(order) = last
  <2>1. Cardinality(ToSet(order)) = last
    BY <1>1, <1>7, <1>9, LenIsCardinality DEF InOrder
  <2>2. ToSet(order) = Places(n)
    BY <1>1, <1>8, <2>1, FS_Subset
  <2> QED BY <1>5, <1>7, <2>2
<1>10. CASE Unblocked(n, order) = {}
  <2>1. ASSUME Places(n) \ ToSet(order) # {} PROVE FALSE
    <3>1. PICK i \in Places(n) \ ToSet(order): Predecessors(n, i) \cap (Places(n) \ ToSet(order)) = {}
      BY <2>1 DEF Acyclic, Sourced
    <3>2. Predecessors(n, i) \subseteq Places(n)
      BY DEF Predecessors
    <3> QED BY <1>10, <3>1, <3>2 DEF Unblocked
  <2> QED BY <1>5, <1>7, <1>8, <2>1
<1> QED BY <1>7, <1>9, <1>10

\* Nothing comes before what it waits for.
LEMMA OrderRespects ==
  ASSUME NEW n, NEW order \in Seq(Places(n)), InOrder(n, order), NEW j \in DOMAIN order,
         NEW k \in DOMAIN order, j < k
  PROVE  <<order[k], order[j]>> \notin n.depends
<1> SUFFICES ASSUME <<order[k], order[j]>> \in n.depends PROVE FALSE
  OBVIOUS
<1>1. DOMAIN order = 1..Len(order) /\ order[k] \in Places(n)
  OBVIOUS
<1>2. order[k] \in Predecessors(n, order[j])
  BY <1>1 DEF Predecessors
<1>3. PICK m \in 1..(j - 1): order[k] = order[m]
  BY <1>2 DEF InOrder
<1>4. m \in DOMAIN order /\ m # k
  BY <1>1
<1> QED BY <1>3, <1>4 DEF InOrder, IsInjective

-----------------------------------------------------------------------------
(* Chains                                                                   *)

\* A chain is short enough to be one of the routes.
LEMMA ChainIs ==
  ASSUME NEW n, IsNetwork(n), NEW c
  PROVE  c \in Chains(n) <=> /\ c \in Seq(Places(n)) /\ c # <<>> /\ IsInjective(c)
                             /\ \A k \in 1..(Len(c) - 1): <<c[k], c[k + 1]>> \in n.depends
<1>1. /\ Places(n) = 1..Len(n.days) /\ Len(n.days) \in Nat /\ Len(n.days) <= MaxActivities
      /\ IsFiniteSet(Places(n)) /\ Cardinality(Places(n)) = Len(n.days) /\ MaxActivities \in Nat
  BY PlacesOf, ActivitiesAssumption DEF IsNetwork
<1>2. ASSUME c \in Chains(n) PROVE c \in Seq(Places(n)) /\ c # <<>>
  <2>1. PICK k \in 1..MaxActivities: c \in [1..k -> 1..MaxActivities]
    BY <1>2 DEF Chains, Routes
  <2>2. \A j \in 1..k: c[j] \in Places(n)
    BY <1>2, <2>1 DEF Chains, ToSet
  <2>3. c \in [1..k -> Places(n)] /\ k \in Nat /\ k # 0
    BY <1>1, <2>1, <2>2
  <2>4. c \in Seq(Places(n)) /\ Len(c) = k
    BY <2>3
  <2> QED BY <2>3, <2>4
<1>3. ASSUME c \in Seq(Places(n)), c # <<>>, IsInjective(c)
      PROVE  c \in Routes /\ ToSet(c) \subseteq Places(n)
  <2>1. Len(c) <= MaxActivities /\ Len(c) \in Nat /\ Len(c) # 0
    BY <1>1, <1>3, LenIsCardinality
  <2>2. \A j \in 1..Len(c): c[j] \in Places(n) /\ c[j] \in 1..MaxActivities
    BY <1>1, <1>3
  <2>3. c \in [1..Len(c) -> 1..MaxActivities] /\ Len(c) \in 1..MaxActivities
    BY <1>1, <1>3, <2>1, <2>2
  <2>4. ToSet(c) \subseteq Places(n)
    BY <1>3, <2>2 DEF ToSet
  <2> QED BY <1>3, <2>3, <2>4 DEF Routes
<1>4. c \in Chains(n) => IsInjective(c) /\ \A k \in 1..(Len(c) - 1): <<c[k], c[k + 1]>> \in n.depends
  BY DEF Chains, Routes
<1> QED BY <1>2, <1>3, <1>4 DEF Chains

\* An activity is a chain of its own.
LEMMA ChainOfOne ==
  ASSUME NEW n, IsNetwork(n), NEW i \in Places(n)
  PROVE  <<i>> \in Chains(n)
<1>1. <<i>> \in Seq(Places(n)) /\ <<i>> # <<>> /\ Len(<<i>>) = 1 /\ DOMAIN <<i>> = 1..1
  OBVIOUS
<1>2. IsInjective(<<i>>)
  BY <1>1 DEF IsInjective
<1>3. \A k \in 1..(Len(<<i>>) - 1): FALSE
  BY <1>1
<1> QED BY <1>1, <1>2, <1>3, ChainIs

\* A chain may go on with what waits for its last activity.
LEMMA ChainExtends ==
  ASSUME NEW n, IsNetwork(n), NEW c \in Chains(n), NEW i \in Places(n),
         <<Last(c), i>> \in n.depends, i \notin ToSet(c)
  PROVE  Append(c, i) \in Chains(n)
<1>1. /\ c \in Seq(Places(n)) /\ c # <<>> /\ IsInjective(c)
      /\ \A k \in 1..(Len(c) - 1): <<c[k], c[k + 1]>> \in n.depends
  BY ChainIs
<1>2. PICK new \in Seq(Places(n)): new = Append(c, i)
  BY <1>1, AppendElements
<1>3. /\ new # <<>> /\ Len(new) = Len(c) + 1 /\ new[Len(c) + 1] = i
      /\ \A k \in 1..Len(c): new[k] = c[k]
      /\ IsInjective(new) /\ Len(c) \in Nat \ {0}
  BY <1>1, <1>2, AppendElements
<1>4. ASSUME NEW k \in 1..(Len(new) - 1) PROVE <<new[k], new[k + 1]>> \in n.depends
  <2>0. k \in 1..Len(c)
    BY <1>3
  <2>1. CASE k = Len(c)
    <3>1. new[k] = Last(c) /\ new[k + 1] = i
      BY <1>3, <2>0, <2>1 DEF Last
    <3> QED BY <3>1
  <2>2. CASE k # Len(c)
    <3>1. k \in 1..(Len(c) - 1) /\ k + 1 \in 1..Len(c)
      BY <1>3, <2>0, <2>2
    <3> QED BY <1>1, <1>3, <2>0, <3>1
  <2> QED BY <2>1, <2>2
<1> QED BY <1>2, <1>3, <1>4, ChainIs

\* Without a loop a chain goes on to activities that are not on it.
LEMMA ChainGoesOn ==
  ASSUME NEW n, IsNetwork(n), Acyclic(n), NEW c \in Chains(n), NEW i \in ToSet(c)
  PROVE  <<Last(c), i>> \notin n.depends
<1> SUFFICES ASSUME <<Last(c), i>> \in n.depends PROVE FALSE
  OBVIOUS
<1>1. /\ c \in Seq(Places(n)) /\ c # <<>>
      /\ \A k \in 1..(Len(c) - 1): <<c[k], c[k + 1]>> \in n.depends
  BY ChainIs
<1>2. DOMAIN c = 1..Len(c) /\ Len(c) \in Nat \ {0} /\ \A k \in 1..Len(c): c[k] \in Places(n)
  BY <1>1
<1>3. PICK j \in 1..Len(c): c[j] = i
  BY <1>2 DEF ToSet
<1> DEFINE S == {c[k]: k \in j..Len(c)}
<1>4. ASSUME NEW k \in j..Len(c) PROVE \E p \in S: p \in Predecessors(n, c[k])
  <2>1. CASE k = j
    <3>1. Len(c) \in j..Len(c)
      BY <1>2
    <3>2. c[Len(c)] \in Predecessors(n, c[k])
      BY <1>2, <1>3, <2>1 DEF Predecessors, Last
    <3> QED BY <3>1, <3>2
  <2>2. CASE k # j
    <3>1. k - 1 \in j..Len(c) /\ k - 1 \in 1..(Len(c) - 1) /\ k - 1 \in 1..Len(c) /\ (k - 1) + 1 = k
      BY <1>2, <2>2
    <3>2. <<c[k - 1], c[k]>> \in n.depends
      BY <1>1, <3>1
    <3>3. c[k - 1] \in Predecessors(n, c[k])
      BY <1>2, <3>1, <3>2 DEF Predecessors
    <3> QED BY <3>1, <3>3
  <2> QED BY <2>1, <2>2
<1>5. S \in SUBSET Places(n) /\ c[j] \in S
  BY <1>2
<1>6. ~ Sourced(n, S)
  <2>1. \A s \in S: \E p \in S: p \in Predecessors(n, s)
    BY <1>4
  <2> HIDE DEF S
  <2> QED BY <2>1 DEF Sourced
<1> HIDE DEF S
<1> QED BY <1>5, <1>6 DEF Acyclic

\* And a longer chain goes on from a shorter one.
LEMMA ChainShortens ==
  ASSUME NEW n, IsNetwork(n), NEW c \in Chains(n), Len(c) # 1
  PROVE  /\ Front(c) \in Chains(n) /\ Last(Front(c)) \in Predecessors(n, Last(c))
         /\ c = Append(Front(c), Last(c)) /\ Last(c) \in Places(n)
<1>1. /\ c \in Seq(Places(n)) /\ c # <<>> /\ IsInjective(c)
      /\ \A k \in 1..(Len(c) - 1): <<c[k], c[k + 1]>> \in n.depends
  BY ChainIs
<1>2. PICK d \in Seq(Places(n)): d = Front(c)
  BY <1>1, FrontElements
<1>3. /\ Len(c) \in Nat \ {0} /\ Last(c) \in Places(n) /\ Len(d) = Len(c) - 1
      /\ \A k \in 1..(Len(c) - 1): d[k] = c[k]
      /\ IsInjective(d)
  BY <1>1, <1>2, FrontElements
<1>4. d # <<>> /\ Len(d) \in Nat \ {0}
  BY <1>3
<1>5. ASSUME NEW k \in 1..(Len(d) - 1) PROVE <<d[k], d[k + 1]>> \in n.depends
  <2>1. k \in 1..(Len(c) - 1) /\ k + 1 \in 1..(Len(c) - 1)
    BY <1>3, <1>4
  <2> QED BY <1>1, <1>3, <2>1
<1>6. d \in Chains(n)
  BY <1>3, <1>4, <1>5, ChainIs
<1>7. Last(d) \in Predecessors(n, Last(c))
  <2>1. Len(d) \in 1..(Len(c) - 1) /\ Len(d) + 1 = Len(c)
    BY <1>3, <1>4
  <2>2. <<d[Len(d)], c[Len(c)]>> \in n.depends
    BY <1>1, <1>3, <2>1
  <2>3. d[Len(d)] \in Places(n)
    BY <1>4
  <2> QED BY <2>2, <2>3 DEF Last, Predecessors
<1>8. c = Append(d, Last(c))
  <2>1. PICK e \in Seq(Places(n)): e = Append(d, Last(c))
    BY <1>3, AppendElements
  <2>2. /\ Len(e) = Len(d) + 1 /\ e[Len(d) + 1] = Last(c)
        /\ \A k \in 1..Len(d): e[k] = d[k]
    BY <1>3, <2>1, AppendElements
  <2>3. Len(e) = Len(c) /\ \A k \in 1..Len(c): e[k] = c[k]
    BY <1>3, <2>2 DEF Last
  <2>4. e = c
    BY <1>1, <2>3
  <2> QED BY <2>1, <2>4
<1> QED BY <1>2, <1>3, <1>6, <1>7, <1>8

-----------------------------------------------------------------------------
(* The days along a chain                                                   *)

Plus(x, y) == IF Unknown \in {x, y} THEN Unknown ELSE x + y

\* The days of an activity are a number or unknown.
LEMMA DaysOf ==
  ASSUME NEW n, IsNetwork(n), NEW i \in Places(n)
  PROVE  n.days[i] \in Nat \cup {Unknown}
<1>1. n.days \in Seq(Days)
  BY DEF IsNetwork
<1>2. n.days[i] \in Days
  BY <1>1 DEF Places
<1>3. Days \subseteq Nat \cup {Unknown}
  <2>1. \A d \in Durations: d \in Nat
    BY DurationsAssumption
  <2>2. 0 \in Nat
    OBVIOUS
  <2> QED BY <2>1, <2>2 DEF Days
<1> QED BY <1>2, <1>3

\* The days of one activity are those along its chain; ...
LEMMA AlongOne ==
  ASSUME NEW n, IsNetwork(n), NEW i \in Places(n)
  PROVE  Along(n, <<i>>) = n.days[i]
<1>1. DOMAIN <<i>> = {1} /\ <<i>>[1] = i
  OBVIOUS
<1>2. PICK f: f = [k \in DOMAIN <<i>> |-> n.days[<<i>>[k]]]
  OBVIOUS
<1>3. DOMAIN f = {1} /\ f[1] = n.days[i]
  BY <1>1, <1>2
<1>4. CASE n.days[i] = Unknown
  BY <1>1, <1>4 DEF Along
<1>5. CASE n.days[i] # Unknown
  <2>1. n.days[i] \in Int
    BY <1>5, DaysOf
  <2>2. IsFiniteSet({1}) /\ {1} \ {1} = {} /\ 1 \in {1}
    BY FS_Singleton
  <2>3. \A x \in {1}: f[x] \in Int
    BY <1>3, <2>1
  <2>4. SumFunctionOnSet(f, {1}) = f[1] + SumFunctionOnSet(f, {1} \ {1})
    BY <2>2, <2>3, SumTakesAny
  <2>5. SumFunctionOnSet(f, {1}) = n.days[i]
    BY <1>3, <2>1, <2>2, <2>4, SumOfNone
  <2>6. SumFunction(f) = n.days[i]
    BY <1>3, <2>5, SumOverDomain
  <2>7. ~ \E k \in DOMAIN <<i>>: n.days[<<i>>[k]] = Unknown
    BY <1>1, <1>5
  <2> QED BY <1>2, <2>6, <2>7 DEF Along
<1> QED BY <1>4, <1>5

\* ... one more activity adds its own.
LEMMA AlongAppend ==
  ASSUME NEW n, IsNetwork(n), NEW c \in Seq(Places(n)), NEW i \in Places(n)
  PROVE  Along(n, Append(c, i)) = Plus(Along(n, c), n.days[i])
<1>1. PICK L \in Nat: L = Len(c)
  OBVIOUS
<1>2. PICK new \in Seq(Places(n)): new = Append(c, i)
  BY AppendElements
<1>3. Len(new) = L + 1 /\ new[L + 1] = i /\ \A k \in 1..L: new[k] = c[k]
  BY <1>1, <1>2, AppendElements
<1>4. DOMAIN c = 1..L /\ DOMAIN new = 1..(L + 1) /\ (1..(L + 1)) \ {L + 1} = 1..L /\ L + 1 \in 1..(L + 1)
  BY <1>1, <1>3
<1>5. /\ \A k \in 1..L: n.days[c[k]] \in Nat \cup {Unknown}
      /\ n.days[i] \in Nat \cup {Unknown}
  BY <1>4, DaysOf
<1>6. CASE \E k \in 1..L: n.days[c[k]] = Unknown
  <2>1. Along(n, c) = Unknown
    BY <1>4, <1>6 DEF Along
  <2>2. Along(n, new) = Unknown
    BY <1>3, <1>4, <1>6 DEF Along
  <2> QED BY <1>2, <2>1, <2>2 DEF Plus
<1>7. CASE n.days[i] = Unknown
  <2>1. Along(n, new) = Unknown
    BY <1>3, <1>4, <1>7 DEF Along
  <2> QED BY <1>2, <1>7, <2>1 DEF Plus
<1>8. CASE n.days[i] # Unknown /\ ~ \E k \in 1..L: n.days[c[k]] = Unknown
  <2>1. PICK f: f = [k \in DOMAIN new |-> n.days[new[k]]]
    OBVIOUS
  <2>2. PICK g: g = [k \in DOMAIN c |-> n.days[c[k]]]
    OBVIOUS
  <2>3. DOMAIN f = 1..(L + 1) /\ f[L + 1] = n.days[i] /\ \A k \in 1..L: f[k] = n.days[c[k]]
    BY <1>3, <1>4, <2>1
  <2>4. DOMAIN g = 1..L /\ \A k \in 1..L: g[k] = n.days[c[k]]
    BY <1>4, <2>2
  <2>5. \A k \in 1..L: f[k] = g[k] /\ f[k] \in Nat /\ g[k] \in Nat
    BY <1>5, <1>8, <2>3, <2>4
  <2>6. n.days[i] \in Nat
    BY <1>5, <1>8
  <2>7. \A k \in 1..(L + 1): f[k] \in Int
    BY <2>3, <2>5, <2>6
  <2>8. IsFiniteSet(1..L) /\ IsFiniteSet(1..(L + 1))
    BY FS_Interval
  <2>9. SumFunctionOnSet(f, 1..(L + 1)) = f[L + 1] + SumFunctionOnSet(f, (1..(L + 1)) \ {L + 1})
    BY <1>4, <2>7, <2>8, SumTakesAny
  <2>10. SumFunctionOnSet(f, 1..L) = SumFunctionOnSet(g, 1..L)
    BY <2>5, <2>8, SumsAgree
  <2>11. SumFunctionOnSet(g, 1..L) \in Nat
    BY <2>5, <2>8, SumIsNat
  <2>12. SumFunction(f) = SumFunctionOnSet(f, 1..(L + 1)) /\ SumFunction(g) = SumFunctionOnSet(g, 1..L)
    BY <2>3, <2>4, SumOverDomain
  <2>13. SumFunction(f) = SumFunction(g) + n.days[i] /\ SumFunction(g) \in Nat
    <3>1. SumFunctionOnSet(f, (1..(L + 1)) \ {L + 1}) = SumFunctionOnSet(f, 1..L)
      BY <1>4
    <3> QED BY <2>3, <2>6, <2>9, <2>10, <2>11, <2>12, <3>1
  <2>14. ~ \E k \in 1..(L + 1): n.days[new[k]] = Unknown
    <3>1. \A k \in 1..(L + 1): k \in 1..L \/ k = L + 1
      OBVIOUS
    <3> QED BY <1>3, <1>8, <3>1
  <2>15. Along(n, new) = SumFunction(f) /\ Along(n, c) = SumFunction(g)
    BY <1>4, <1>8, <2>1, <2>2, <2>14 DEF Along
  <2>16. Unknown \notin {SumFunction(g), n.days[i]}
    BY <1>8, <2>13, DurationsAssumption
  <2> QED BY <1>2, <2>13, <2>15, <2>16 DEF Plus
<1> QED BY <1>6, <1>7, <1>8

\* The days of the chains that lead to an activity.
DaysTo(n, i) == {Along(n, c): c \in {d \in Chains(n): Last(d) = i}}

\* They are its own, or its own after those to one it waits for.
LEMMA DaysToSplit ==
  ASSUME NEW n, IsNetwork(n), Acyclic(n), NEW i \in Places(n)
  PROVE  /\ n.days[i] \in DaysTo(n, i)
         /\ \A p \in Predecessors(n, i): \A d \in DaysTo(n, p): Plus(d, n.days[i]) \in DaysTo(n, i)
         /\ \A d \in DaysTo(n, i):
              \/ d = n.days[i]
              \/ \E p \in Predecessors(n, i): \E e \in DaysTo(n, p): d = Plus(e, n.days[i])
<1>1. n.days[i] \in DaysTo(n, i)
  <2>1. <<i>> \in Chains(n) /\ Last(<<i>>) = i
    BY ChainOfOne DEF Last
  <2>2. Along(n, <<i>>) = n.days[i]
    BY AlongOne
  <2> QED BY <2>1, <2>2 DEF DaysTo
<1>2. ASSUME NEW p \in Predecessors(n, i), NEW d \in DaysTo(n, p)
      PROVE  Plus(d, n.days[i]) \in DaysTo(n, i)
  <2>1. PICK c \in Chains(n): Last(c) = p /\ d = Along(n, c)
    BY DEF DaysTo
  <2>2. <<Last(c), i>> \in n.depends
    BY <2>1 DEF Predecessors
  <2>3. i \notin ToSet(c)
    BY <2>2, ChainGoesOn
  <2>4. Append(c, i) \in Chains(n)
    BY <2>2, <2>3, ChainExtends
  <2>5. c \in Seq(Places(n))
    BY ChainIs
  <2>6. Along(n, Append(c, i)) = Plus(d, n.days[i])
    BY <2>1, <2>5, AlongAppend
  <2>7. Last(Append(c, i)) = i
    BY <2>5, AppendElements DEF Last
  <2> QED BY <2>4, <2>6, <2>7 DEF DaysTo
<1>3. ASSUME NEW d \in DaysTo(n, i)
      PROVE  \/ d = n.days[i]
             \/ \E p \in Predecessors(n, i): \E e \in DaysTo(n, p): d = Plus(e, n.days[i])
  <2>1. PICK c \in Chains(n): Last(c) = i /\ d = Along(n, c)
    BY DEF DaysTo
  <2>2. CASE Len(c) = 1
    <3>1. c \in Seq(Places(n)) /\ c[1] = i
      BY <2>1, <2>2, ChainIs DEF Last
    <3>2. c = <<i>>
      BY <2>2, <3>1
    <3> QED BY <2>1, <3>2, AlongOne
  <2>3. CASE Len(c) # 1
    <3>1. PICK f: f = Front(c)
      OBVIOUS
    <3>2. f \in Chains(n) /\ Last(f) \in Predecessors(n, i) /\ c = Append(f, i)
      BY <2>1, <2>3, <3>1, ChainShortens
    <3>3. f \in Seq(Places(n))
      BY <3>2, ChainIs
    <3>4. Along(n, c) = Plus(Along(n, f), n.days[i])
      BY <3>2, <3>3, AlongAppend
    <3>5. Along(n, f) \in DaysTo(n, Last(f))
      BY <3>2 DEF DaysTo
    <3> QED BY <2>1, <3>2, <3>4, <3>5
  <2> QED BY <2>2, <2>3
<1> QED BY <1>1, <1>2, <1>3

\* The longest of several lengths.
LongestIs(v, D) ==
  /\ D # {} /\ D \subseteq Nat \cup {Unknown}
  /\ IF Unknown \in D THEN v = Unknown ELSE v \in D /\ \A d \in D: d <= v

\* There is but one.
LEMMA LongestUnique ==
  ASSUME NEW v, NEW D, LongestIs(v, D)
  PROVE  v = Longest(D) /\ v \in Nat \cup {Unknown}
<1>1. CASE Unknown \in D
  BY <1>1 DEF LongestIs, Longest
<1>2. CASE Unknown \notin D
  <2>1. D \subseteq Nat /\ v \in D /\ \A d \in D: d <= v
    BY <1>2 DEF LongestIs
  <2>2. PICK m: m = Max(D)
    OBVIOUS
  <2>3. m \in D /\ \A d \in D: m >= d
    <3>1. \E x \in D: \A y \in D: x >= y
      BY <2>1
    <3> QED BY <2>2, <3>1 DEF Max
  <2>4. m = v
    <3>1. m \in Nat /\ v \in Nat /\ m <= v /\ m >= v
      BY <2>1, <2>3
    <3> QED BY <3>1
  <2> QED BY <1>2, <2>1, <2>2, <2>4 DEF Longest
<1> QED BY <1>1, <1>2

\* The start of what waits for some, as long as all of them finish.
LEMMA StartIsLargest ==
  ASSUME NEW P, IsFiniteSet(P), NEW finish, \A p \in P: finish[p] \in Nat
  PROVE  /\ Start(finish, P) \in Nat /\ \A p \in P: finish[p] <= Start(finish, P)
         /\ Start(finish, P) = 0 \/ \E p \in P: Start(finish, P) = finish[p]
<1> DEFINE F == {finish[p]: p \in P}
<1>1. Unknown \notin F /\ F \subseteq Nat
  BY DurationsAssumption
<1>2. Start(finish, P) = Max({0} \cup F)
  BY <1>1 DEF Start
<1>3. \E x \in {0} \cup F: \A y \in {0} \cup F: x >= y
  <2>1. CASE P = {}
    BY <2>1
  <2>2. CASE P # {}
    <3>1. PICK q \in P: \A p \in P: finish[p] <= finish[q]
      BY <2>2, LargestOf
    <3>2. finish[q] \in F /\ \A y \in {0} \cup F: finish[q] >= y
      BY <1>1, <3>1
    <3> QED BY <3>2
  <2> QED BY <2>1, <2>2
<1>4. PICK m: m = Max({0} \cup F)
  OBVIOUS
<1>5. m \in {0} \cup F /\ \A y \in {0} \cup F: m >= y
  <2> HIDE DEF F
  <2> QED BY <1>3, <1>4 DEF Max
<1>6. m \in Nat /\ \A p \in P: finish[p] <= m
  BY <1>1, <1>5
<1>7. m = 0 \/ \E p \in P: m = finish[p]
  BY <1>5
<1> QED BY <1>2, <1>4, <1>6, <1>7

\* The longest chain to an activity ends with the longest to one it waits for.
LEMMA LongestThrough ==
  ASSUME NEW n, IsNetwork(n), Acyclic(n), NEW i \in Places(n), NEW finish,
         \A p \in Predecessors(n, i): LongestIs(finish[p], DaysTo(n, p))
  PROVE  LongestIs(Plus(Start(finish, Predecessors(n, i)), n.days[i]), DaysTo(n, i))
<1> DEFINE P == Predecessors(n, i)
           D == DaysTo(n, i)
           start == Start(finish, P)
<1>1. /\ n.days[i] \in D
      /\ \A p \in P: \A d \in DaysTo(n, p): Plus(d, n.days[i]) \in D
      /\ \A d \in D: d = n.days[i] \/ \E p \in P: \E e \in DaysTo(n, p): d = Plus(e, n.days[i])
  BY DaysToSplit
<1>2. n.days[i] \in Nat \cup {Unknown} /\ Unknown \notin Nat
  BY DaysOf, DurationsAssumption
<1>3. \A p \in P: DaysTo(n, p) \subseteq Nat \cup {Unknown}
  BY DEF LongestIs
<1>4. ASSUME NEW d \in Nat \cup {Unknown} PROVE Plus(d, n.days[i]) \in Nat \cup {Unknown}
  BY <1>2 DEF Plus
<1>5. D # {} /\ D \subseteq Nat \cup {Unknown}
  <2> HIDE DEF D, P
  <2> QED BY <1>1, <1>2, <1>3, <1>4
<1>6. IsFiniteSet(P)
  BY PlacesOf, FS_Subset DEF Predecessors
<1>7. CASE n.days[i] = Unknown
  <2>1. Plus(start, n.days[i]) = Unknown /\ Unknown \in D
    BY <1>1, <1>7 DEF Plus
  <2> HIDE DEF D, start, P
  <2> QED BY <1>5, <2>1 DEF LongestIs, D, start, P
<1>8. CASE \E p \in P: finish[p] = Unknown
  <2>1. PICK p \in P: finish[p] = Unknown
    BY <1>8
  <2>2. Unknown \in DaysTo(n, p)
    BY <2>1 DEF LongestIs
  <2>3. Plus(Unknown, n.days[i]) \in D
    BY <1>1, <2>2
  <2>4. Plus(Unknown, n.days[i]) = Unknown /\ start = Unknown
    BY <2>1 DEF Plus, Start
  <2> HIDE DEF D, start, P
  <2>5. LongestIs(Plus(start, n.days[i]), D)
    BY <1>5, <2>3, <2>4 DEF LongestIs
  <2> QED BY <2>5 DEF D, start, P
<1>9. CASE n.days[i] # Unknown /\ ~ \E p \in P: finish[p] = Unknown
  <2>1. n.days[i] \in Nat
    BY <1>2, <1>9
  <2>2. ASSUME NEW p \in P
        PROVE  /\ finish[p] \in DaysTo(n, p) /\ finish[p] \in Nat /\ DaysTo(n, p) \subseteq Nat
               /\ \A e \in DaysTo(n, p): e <= finish[p]
    <3>1. LongestIs(finish[p], DaysTo(n, p)) /\ finish[p] # Unknown
      BY <1>9
    <3> HIDE DEF P
    <3> QED BY <3>1 DEF LongestIs
  <2>3. /\ start \in Nat /\ \A p \in P: finish[p] <= start
        /\ start = 0 \/ \E p \in P: start = finish[p]
    <3> HIDE DEF P
    <3> QED BY <1>6, <2>2, StartIsLargest
  <2> HIDE DEF start, P, D
  <2>4. \A d \in Nat: Plus(d, n.days[i]) = d + n.days[i]
    BY <1>2, <2>1 DEF Plus
  <2>5. start + n.days[i] \in D
    <3>1. CASE start = 0
      BY <1>1, <2>1, <3>1
    <3>2. CASE start # 0
      <4>1. PICK p \in P: start = finish[p]
        BY <2>3, <3>2
      <4> QED BY <1>1, <2>2, <2>4, <4>1
    <3> QED BY <3>1, <3>2
  <2>6. ASSUME NEW d \in D PROVE d \in Nat /\ d <= start + n.days[i]
    <3>1. CASE d = n.days[i]
      BY <2>1, <2>3, <3>1
    <3>2. ASSUME NEW p \in P, NEW e \in DaysTo(n, p), d = Plus(e, n.days[i])
          PROVE  d \in Nat /\ d <= start + n.days[i]
      <4>1. e \in Nat /\ e <= finish[p] /\ finish[p] \in Nat /\ finish[p] <= start
        BY <2>2, <2>3
      <4>2. d = e + n.days[i]
        BY <2>4, <3>2, <4>1
      <4> QED BY <2>1, <2>3, <4>1, <4>2
    <3> QED BY <1>1, <3>1, <3>2
  <2>7. Unknown \notin D
    BY <1>2, <2>6
  <2>8. LongestIs(start + n.days[i], D)
    BY <1>5, <2>5, <2>6, <2>7 DEF LongestIs
  <2>9. Plus(start, n.days[i]) = start + n.days[i]
    BY <2>3, <2>4
  <2> QED BY <2>8, <2>9 DEF start, P, D
<1> QED BY <1>7, <1>8, <1>9

\* The finishes after k of the order's activities.
FinishedSome(n, order) ==
  [k \in Nat |->
     {finish \in [Places(n) -> Nat \cup {Unknown}]:
        \A j \in DOMAIN order: j <= k => LongestIs(finish[order[j]], DaysTo(n, order[j]))}]

\* What was timed stays, and the next is timed by those it waits for.
LEMMA TimedKeeps ==
  ASSUME NEW n, IsNetwork(n), Acyclic(n), NEW order \in Seq(Places(n)), InOrder(n, order),
         NEW k \in Nat, k < Len(order), NEW finish \in FinishedSome(n, order)[k]
  PROVE  Timed(n, finish, order[k + 1]) \in FinishedSome(n, order)[k + 1]
<1>1. DOMAIN order = 1..Len(order) /\ Len(order) \in Nat /\ k + 1 \in 1..Len(order)
  OBVIOUS
<1>2. PICK i \in Places(n): i = order[k + 1]
  BY <1>1
<1>3. /\ finish \in [Places(n) -> Nat \cup {Unknown}]
      /\ \A j \in DOMAIN order: j <= k => LongestIs(finish[order[j]], DaysTo(n, order[j]))
  BY DEF FinishedSome
<1>4. ASSUME NEW p \in Predecessors(n, i) PROVE LongestIs(finish[p], DaysTo(n, p))
  <2>1. PICK j \in 1..((k + 1) - 1): p = order[j]
    BY <1>1, <1>2 DEF InOrder
  <2>2. j \in DOMAIN order /\ j <= k
    BY <1>1
  <2> QED BY <1>3, <2>1, <2>2
<1>5. PICK v: v = Plus(Start(finish, Predecessors(n, i)), n.days[i])
  OBVIOUS
<1>6. LongestIs(v, DaysTo(n, i))
  BY <1>4, <1>5, LongestThrough
<1>7. v \in Nat \cup {Unknown}
  BY <1>6, LongestUnique
<1>8. Timed(n, finish, i) = [finish EXCEPT ![i] = v]
  BY <1>5 DEF Timed, Plus
<1>9. PICK new \in [Places(n) -> Nat \cup {Unknown}]: new = [finish EXCEPT ![i] = v]
  BY <1>3, <1>7
<1>10. new[i] = v /\ \A p \in Places(n): p # i => new[p] = finish[p]
  BY <1>3, <1>9
<1>11. ASSUME NEW j \in DOMAIN order, j <= k + 1 PROVE LongestIs(new[order[j]], DaysTo(n, order[j]))
  <2>1. CASE j = k + 1
    BY <1>2, <1>6, <1>10, <2>1
  <2>2. CASE j # k + 1
    <3>1. j <= k /\ order[j] # order[k + 1] /\ order[j] \in Places(n)
      BY <1>1, <1>11, <2>2 DEF InOrder, IsInjective
    <3> QED BY <1>2, <1>3, <1>10, <3>1
  <2> QED BY <2>1, <2>2
<1>12. k + 1 \in Nat
  OBVIOUS
<1>13. FinishedSome(n, order)[k + 1] =
         {f \in [Places(n) -> Nat \cup {Unknown}]:
            \A j \in DOMAIN order: j <= k + 1 => LongestIs(f[order[j]], DaysTo(n, order[j]))}
  BY <1>12 DEF FinishedSome
<1>14. new \in FinishedSome(n, order)[k + 1]
  BY <1>11, <1>13
<1> QED BY <1>2, <1>8, <1>9, <1>14

\* Every activity finishes at the end of the longest chain that leads to it.
THEOREM FinishesLongest ==
  ASSUME NEW n, IsNetwork(n), Acyclic(n)
  PROVE  /\ Finishes(n) \in [Places(n) -> Nat \cup {Unknown}]
         /\ \A i \in Places(n): LongestIs(Finishes(n)[i], DaysTo(n, i))
<1>1. PICK order: order = Order(n)
  OBVIOUS
<1>2. order \in Seq(Places(n)) /\ InOrder(n, order) /\ ToSet(order) = Places(n)
  BY <1>1, OrderComplete
<1> DEFINE turn == [k \in DOMAIN order |->
                      [finish \in [Places(n) -> Nat \cup {Unknown}] |-> Timed(n, finish, order[k])]]
           first == [i \in Places(n) |-> Unknown]
           last == Len(order)
           Good == FinishedSome(n, order)
<1>3. last \in Nat /\ DOMAIN order = 1..last
  BY <1>2
<1>4. first \in Good[0]
  <2>1. \A j \in DOMAIN order: ~ (j <= 0)
    BY <1>3
  <2>2. 0 \in Nat /\ first \in [Places(n) -> Nat \cup {Unknown}]
    OBVIOUS
  <2> QED BY <2>1, <2>2 DEF FinishedSome
<1>5. ASSUME NEW k \in Nat, k < last, NEW x \in Good[k]
      PROVE  turn[k + 1][x] \in Good[k + 1]
  <2>1. x \in [Places(n) -> Nat \cup {Unknown}] /\ k + 1 \in DOMAIN order
    BY <1>3, <1>5 DEF FinishedSome
  <2>2. turn[k + 1][x] = Timed(n, x, order[k + 1])
    BY <2>1
  <2> QED BY <1>2, <1>5, <2>2, TimedKeeps
<1>6. Turns(turn, first)[last] \in Good[last]
  <2> HIDE DEF turn, first, last, Good
  <2> QED BY <1>3, <1>4, <1>5, TurnsKeep
<1>7. Finishes(n) = Turns(turn, first)[last]
  BY <1>1 DEF Finishes
<1>8. PICK finish: finish = Finishes(n)
  OBVIOUS
<1>9. finish \in Good[last]
  <2> HIDE DEF turn, first, last, Good
  <2> QED BY <1>6, <1>7, <1>8
<1>10. /\ finish \in [Places(n) -> Nat \cup {Unknown}]
       /\ \A j \in DOMAIN order: j <= last => LongestIs(finish[order[j]], DaysTo(n, order[j]))
  BY <1>3, <1>9 DEF FinishedSome
<1>11. ASSUME NEW i \in Places(n) PROVE LongestIs(finish[i], DaysTo(n, i))
  <2>1. PICK j \in DOMAIN order: order[j] = i
    BY <1>2 DEF ToSet
  <2> QED BY <1>3, <1>10, <2>1
<1> QED BY <1>8, <1>10, <1>11

AllDays(n) == {Along(n, c): c \in Chains(n)}

\* And the plan at the end of the longest.
LEMMA PlanDaysLongest ==
  ASSUME NEW n, IsNetwork(n), Acyclic(n), Places(n) # {},
         NEW finish \in [Places(n) -> Nat \cup {Unknown}],
         \A i \in Places(n): LongestIs(finish[i], DaysTo(n, i))
  PROVE  LongestIs(PlanDays(finish), AllDays(n))
<1>1. \A i \in Places(n): DaysTo(n, i) \subseteq AllDays(n)
  BY DEF DaysTo, AllDays
<1>2. ASSUME NEW d \in AllDays(n) PROVE \E i \in Places(n): d \in DaysTo(n, i)
  <2>1. PICK c \in Chains(n): d = Along(n, c)
    BY DEF AllDays
  <2>2. c \in Seq(Places(n)) /\ c # <<>>
    BY ChainIs
  <2>3. Last(c) \in Places(n)
    BY <2>2, FrontElements
  <2> QED BY <2>1, <2>3 DEF DaysTo
<1>3. ASSUME NEW i \in Places(n)
      PROVE  /\ DaysTo(n, i) # {} /\ DaysTo(n, i) \subseteq Nat \cup {Unknown}
             /\ IF Unknown \in DaysTo(n, i) THEN finish[i] = Unknown
                ELSE finish[i] \in DaysTo(n, i) /\ \A d \in DaysTo(n, i): d <= finish[i]
  BY DEF LongestIs
<1>4. AllDays(n) # {} /\ AllDays(n) \subseteq Nat \cup {Unknown}
  BY <1>1, <1>2, <1>3
<1>5. ToSet(finish) = {finish[i]: i \in Places(n)}
  BY DEF ToSet
<1>6. CASE Unknown \in ToSet(finish)
  <2>1. PICK i \in Places(n): finish[i] = Unknown
    BY <1>5, <1>6
  <2>2. Unknown \in DaysTo(n, i)
    BY <1>3, <2>1
  <2>3. Unknown \in AllDays(n) /\ PlanDays(finish) = Unknown
    BY <1>1, <1>6, <2>2 DEF PlanDays
  <2> QED BY <1>4, <2>3 DEF LongestIs
<1>7. CASE Unknown \notin ToSet(finish)
  <2>1. \A i \in Places(n): /\ finish[i] \in Nat /\ finish[i] \in DaysTo(n, i)
                            /\ \A d \in DaysTo(n, i): d <= finish[i]
                            /\ Unknown \notin DaysTo(n, i)
    BY <1>3, <1>5, <1>7
  <2>2. PICK q \in Places(n): \A p \in Places(n): finish[p] <= finish[q]
    BY <2>1, PlacesOf, LargestOf
  <2>3. PICK m: m = Max(ToSet(finish))
    OBVIOUS
  <2>4. m \in ToSet(finish) /\ \A y \in ToSet(finish): m >= y
    <3>1. finish[q] \in ToSet(finish) /\ \A y \in ToSet(finish): finish[q] >= y
      BY <1>5, <2>1, <2>2
    <3> QED BY <2>3, <3>1 DEF Max
  <2>5. PlanDays(finish) = m
    BY <1>7, <2>3, <2>4 DEF PlanDays
  <2>6. m \in AllDays(n) /\ m \in Nat
    BY <1>1, <1>5, <2>1, <2>4
  <2>7. ASSUME NEW d \in AllDays(n) PROVE d <= m /\ d # Unknown
    <3>1. PICK i \in Places(n): d \in DaysTo(n, i)
      BY <1>2
    <3>2. d <= finish[i] /\ finish[i] <= m /\ finish[i] \in Nat /\ d \in Nat /\ d # Unknown
      BY <1>3, <1>5, <2>1, <2>4, <3>1
    <3> QED BY <2>6, <3>2
  <2>8. Unknown \notin AllDays(n)
    BY <2>7
  <2> QED BY <1>4, <2>5, <2>6, <2>7, <2>8 DEF LongestIs
<1> QED BY <1>6, <1>7

-----------------------------------------------------------------------------
(* A dependency closes a loop when a chain leads from its end to its start. *)

LeadsTo(n, from, to) == \E c \in Chains(n): c[1] = from /\ Last(c) = to

\* What a dependency adds.
LEMMA ConnectedIsNetwork ==
  ASSUME NEW n, IsNetwork(n), NEW from \in Places(n), NEW to \in Places(n)
  PROVE  /\ IsNetwork(Connected(n, from, to)) /\ Places(Connected(n, from, to)) = Places(n)
         /\ \A i: Predecessors(Connected(n, from, to), i) =
                   Predecessors(n, i) \cup (IF i = to THEN {from} ELSE {})
<1>1. n \in [days: Seq(Days), depends: SUBSET (Nat \X Nat)]
  BY DEF IsNetwork
<1>2. PICK m: m = Connected(n, from, to)
  OBVIOUS
<1>3. m.days = n.days /\ m.depends = n.depends \cup {<<from, to>>}
  BY <1>1, <1>2 DEF Connected
<1>4. from \in Nat /\ to \in Nat
  BY PlacesOf
<1>5. m \in [days: Seq(Days), depends: SUBSET (Nat \X Nat)]
  BY <1>1, <1>2, <1>4 DEF Connected
<1>6. Places(m) = Places(n)
  BY <1>3 DEF Places
<1>7. IsNetwork(m)
  BY <1>3, <1>5, <1>6 DEF IsNetwork
<1>8. \A i: Predecessors(m, i) = Predecessors(n, i) \cup (IF i = to THEN {from} ELSE {})
  BY <1>3, <1>6 DEF Predecessors
<1> QED BY <1>2, <1>6, <1>7, <1>8

\* With such a chain it does close one; ...
LEMMA ClosingIsCyclic ==
  ASSUME NEW n, IsNetwork(n), NEW from \in Places(n), NEW to \in Places(n), LeadsTo(n, to, from)
  PROVE  ~ Acyclic(Connected(n, from, to))
<1>1. PICK c \in Chains(n): c[1] = to /\ Last(c) = from
  BY DEF LeadsTo
<1>2. /\ c \in Seq(Places(n)) /\ c # <<>>
      /\ \A k \in 1..(Len(c) - 1): <<c[k], c[k + 1]>> \in n.depends
  BY ChainIs
<1>3. DOMAIN c = 1..Len(c) /\ Len(c) \in Nat \ {0} /\ \A k \in 1..Len(c): c[k] \in Places(n)
  BY <1>2
<1>4. PICK m: m = Connected(n, from, to)
  OBVIOUS
<1>5. /\ Places(m) = Places(n)
      /\ \A i: Predecessors(m, i) = Predecessors(n, i) \cup (IF i = to THEN {from} ELSE {})
  BY <1>4, ConnectedIsNetwork
<1> DEFINE S == {c[k]: k \in 1..Len(c)}
<1>6. ASSUME NEW k \in 1..Len(c) PROVE \E p \in S: p \in Predecessors(m, c[k])
  <2>1. CASE k = 1
    <3>1. from = c[Len(c)] /\ Len(c) \in 1..Len(c)
      BY <1>1, <1>3 DEF Last
    <3>2. from \in Predecessors(m, c[k])
      BY <1>1, <1>5, <2>1
    <3> QED BY <3>1, <3>2
  <2>2. CASE k # 1
    <3>1. k - 1 \in 1..Len(c) /\ k - 1 \in 1..(Len(c) - 1) /\ (k - 1) + 1 = k
      BY <1>3, <2>2
    <3>2. <<c[k - 1], c[k]>> \in n.depends
      BY <1>2, <3>1
    <3>3. c[k - 1] \in Predecessors(n, c[k])
      BY <1>3, <3>1, <3>2 DEF Predecessors
    <3> QED BY <1>5, <3>1, <3>3
  <2> QED BY <2>1, <2>2
<1>7. S \in SUBSET Places(m) /\ S # {}
  BY <1>3, <1>5
<1>8. ~ Sourced(m, S)
  <2>1. \A s \in S: \E p \in S: p \in Predecessors(m, s)
    BY <1>6
  <2> HIDE DEF S
  <2> QED BY <2>1 DEF Sourced
<1> HIDE DEF S
<1> QED BY <1>4, <1>7, <1>8 DEF Acyclic

\* ... without it none is closed: those the chains from its end do not
\* lead to have a source, which still waits for none of the others.
LEMMA OpenStaysAcyclic ==
  ASSUME NEW n, IsNetwork(n), Acyclic(n), NEW from \in Places(n), NEW to \in Places(n),
         ~ LeadsTo(n, to, from)
  PROVE  Acyclic(Connected(n, from, to))
<1>1. PICK m: m = Connected(n, from, to)
  OBVIOUS
<1>2. /\ Places(m) = Places(n)
      /\ \A i: Predecessors(m, i) = Predecessors(n, i) \cup (IF i = to THEN {from} ELSE {})
  BY <1>1, ConnectedIsNetwork
<1>3. ASSUME NEW S \in SUBSET Places(n), S # {} PROVE Sourced(m, S)
  <2>1. CASE from \notin S
    <3>1. PICK i \in S: Predecessors(n, i) \cap S = {}
      BY <1>3 DEF Acyclic, Sourced
    <3>2. Predecessors(m, i) \cap S = {}
      BY <1>2, <2>1, <3>1
    <3> QED BY <3>2 DEF Sourced
  <2>2. CASE from \in S
    <3> DEFINE T == {i \in S: ~ LeadsTo(n, to, i)}
    <3>1. from \in T /\ T \in SUBSET Places(n)
      BY <2>2
    <3>2. PICK i \in T: Predecessors(n, i) \cap T = {}
      <4> HIDE DEF T
      <4> QED BY <3>1 DEF Acyclic, Sourced
    <3>3. i # to
      <4>1. <<to>> \in Chains(n) /\ <<to>>[1] = to /\ Last(<<to>>) = to
        BY ChainOfOne DEF Last
      <4>2. LeadsTo(n, to, to)
        BY <4>1 DEF LeadsTo
      <4> QED BY <4>2
    <3>4. ASSUME NEW p \in Predecessors(n, i), p \in S PROVE FALSE
      <4>1. LeadsTo(n, to, p)
        BY <3>2, <3>4
      <4>2. PICK c \in Chains(n): c[1] = to /\ Last(c) = p
        BY <4>1 DEF LeadsTo
      <4>3. <<Last(c), i>> \in n.depends
        BY <4>2 DEF Predecessors
      <4>4. i \notin ToSet(c) /\ i \in Places(n)
        BY <4>3, ChainGoesOn
      <4>5. Append(c, i) \in Chains(n)
        BY <4>3, <4>4, ChainExtends
      <4>6. c \in Seq(Places(n)) /\ c # <<>>
        BY ChainIs
      <4>7. 1 \in 1..Len(c)
        BY <4>6
      <4>8. Append(c, i)[1] = to /\ Last(Append(c, i)) = i
        BY <4>2, <4>4, <4>6, <4>7, AppendElements DEF Last
      <4>9. LeadsTo(n, to, i)
        BY <4>5, <4>8 DEF LeadsTo
      <4> QED BY <4>9
    <3>5. Predecessors(m, i) = Predecessors(n, i)
      BY <1>2, <3>3
    <3>6. i \in S
      OBVIOUS
    <3> QED BY <3>4, <3>5, <3>6 DEF Sourced
  <2> QED BY <2>1, <2>2
<1> QED BY <1>1, <1>2, <1>3 DEF Acyclic

-----------------------------------------------------------------------------
(* Every edit keeps the plan free of loops.                                *)

NetworkInv == IsNetwork(network) /\ Acyclic(network)

\* The empty plan has no loop.
LEMMA EmptyPlan == NetworkInit => NetworkInv
<1> SUFFICES ASSUME NetworkInit PROVE NetworkInv
  OBVIOUS
<1>1. network = [days |-> <<>>, depends |-> {}] /\ MaxActivities \in Nat
  BY ActivitiesAssumption DEF NetworkInit
<1>2. <<>> \in Seq(Days) /\ Len(<<>>) = 0 /\ DOMAIN <<>> = {}
  OBVIOUS
<1>3. network.days = <<>> /\ network.depends = {} /\ Places(network) = {}
  BY <1>1, <1>2 DEF Places
<1>4. network \in [days: Seq(Days), depends: SUBSET (Nat \X Nat)]
  BY <1>1, <1>2
<1>5. IsNetwork(network)
  BY <1>1, <1>2, <1>3, <1>4 DEF IsNetwork
<1>6. Acyclic(network)
  BY <1>3 DEF Acyclic
<1> QED BY <1>5, <1>6 DEF NetworkInv

\* The same places with no more dependencies.
LEMMA FewerDependencies ==
  ASSUME NEW n, IsNetwork(n), Acyclic(n),
         NEW m \in [days: Seq(Days), depends: SUBSET (Nat \X Nat)],
         Len(m.days) = Len(n.days), m.depends \subseteq n.depends
  PROVE  IsNetwork(m) /\ Acyclic(m)
<1>1. Places(m) = Places(n)
  BY DEF IsNetwork, Places
<1>2. IsNetwork(m)
  BY <1>1 DEF IsNetwork
<1>3. \A i: Predecessors(m, i) \subseteq Predecessors(n, i)
  BY <1>1 DEF Predecessors
<1>4. ASSUME NEW S \in SUBSET Places(m), S # {} PROVE Sourced(m, S)
  <2>1. PICK i \in S: Predecessors(n, i) \cap S = {}
    BY <1>1, <1>4 DEF Acyclic, Sourced
  <2>2. Predecessors(m, i) \cap S = {}
    BY <1>3, <2>1
  <2> QED BY <2>2 DEF Sourced
<1> QED BY <1>2, <1>4 DEF Acyclic

\* A new activity waits for nothing.
LEMMA AddKeeps == NetworkInv /\ AddActivity => NetworkInv'
<1> SUFFICES ASSUME NetworkInv, NEW d \in {0, Unknown}, Len(network.days) < MaxActivities,
                    network' = [network EXCEPT !.days = Append(@, d)]
             PROVE  NetworkInv'
  BY DEF AddActivity
<1>1. PICK n: n = network
  OBVIOUS
<1>2. PICK m: m = [n EXCEPT !.days = Append(@, d)]
  OBVIOUS
<1>3. /\ n \in [days: Seq(Days), depends: SUBSET (Nat \X Nat)]
      /\ n.depends \subseteq Places(n) \X Places(n) /\ IsNetwork(n) /\ Acyclic(n)
  BY <1>1 DEF NetworkInv, IsNetwork
<1>4. d \in Days /\ n.days \in Seq(Days)
  BY <1>3 DEF Days
<1>5. PICK L \in Nat: L = Len(n.days) /\ L < MaxActivities
  BY <1>1, <1>4
<1>6. Append(n.days, d) \in Seq(Days) /\ Len(Append(n.days, d)) = L + 1
  BY <1>4, <1>5, AppendProperties
<1>7. /\ m \in [days: Seq(Days), depends: SUBSET (Nat \X Nat)]
      /\ Len(m.days) = L + 1 /\ m.depends = n.depends /\ m.days \in Seq(Days)
  BY <1>2, <1>3, <1>6
<1>8. Places(n) = 1..L /\ Places(m) = 1..(L + 1)
  BY <1>4, <1>5, <1>7 DEF Places
<1>9. IsNetwork(m)
  <2>1. Places(n) \subseteq Places(m) /\ Len(m.days) <= MaxActivities
    BY <1>5, <1>7, <1>8, ActivitiesAssumption
  <2> QED BY <1>3, <1>7, <2>1 DEF IsNetwork
<1>10. ASSUME NEW i PROVE Predecessors(m, i) = Predecessors(n, i) /\ (i = L + 1 => Predecessors(m, i) = {})
  <2>1. \A p: <<p, i>> \in n.depends => p \in Places(n) /\ i \in Places(n)
    BY <1>3
  <2>2. L + 1 \notin Places(n) /\ Places(n) \subseteq Places(m)
    BY <1>8
  <2> QED BY <1>7, <2>1, <2>2 DEF Predecessors
<1>11. ASSUME NEW S \in SUBSET Places(m), S # {} PROVE Sourced(m, S)
  <2>1. CASE L + 1 \in S
    BY <1>10, <2>1 DEF Sourced
  <2>2. CASE L + 1 \notin S
    <3>1. S \in SUBSET Places(n)
      BY <1>8, <2>2
    <3>2. PICK i \in S: Predecessors(n, i) \cap S = {}
      BY <1>3, <1>11, <3>1 DEF Acyclic, Sourced
    <3> QED BY <1>10, <3>2 DEF Sourced
  <2> QED BY <2>1, <2>2
<1>12. network' = m /\ Acyclic(m)
  BY <1>1, <1>2, <1>11 DEF Acyclic
<1> QED BY <1>9, <1>12 DEF NetworkInv

\* Days change no dependency.
LEMMA DaysKeep == NetworkInv /\ SetDays => NetworkInv'
<1> SUFFICES ASSUME NetworkInv, NEW i \in Places(network), NEW d \in Durations \cup {Unknown},
                    network' = [network EXCEPT !.days[i] = d]
             PROVE  NetworkInv'
  BY DEF SetDays
<1>1. PICK n: n = network
  OBVIOUS
<1>2. PICK m: m = [n EXCEPT !.days = [n.days EXCEPT ![i] = d]]
  OBVIOUS
<1>3. n \in [days: Seq(Days), depends: SUBSET (Nat \X Nat)] /\ IsNetwork(n) /\ Acyclic(n)
  BY <1>1 DEF NetworkInv, IsNetwork
<1>4. PICK days \in Seq(Days): days = [n.days EXCEPT ![i] = d] /\ Len(days) = Len(n.days)
  <2>1. n.days \in Seq(Days) /\ d \in Days /\ i \in DOMAIN n.days
    BY <1>1, <1>3 DEF Days, Places
  <2>2. [n.days EXCEPT ![i] = d] \in Seq(Days) /\ Len([n.days EXCEPT ![i] = d]) = Len(n.days)
    BY <2>1
  <2> QED BY <2>2
<1>5. /\ m \in [days: Seq(Days), depends: SUBSET (Nat \X Nat)]
      /\ Len(m.days) = Len(n.days) /\ m.depends = n.depends
  BY <1>2, <1>3, <1>4
<1>6. network' = m
  BY <1>1, <1>2
<1>7. IsNetwork(m) /\ Acyclic(m)
  BY <1>3, <1>5, FewerDependencies
<1> QED BY <1>6, <1>7 DEF NetworkInv

\* One dependency less closes nothing.
LEMMA DisconnectKeeps == NetworkInv /\ Disconnect => NetworkInv'
<1> SUFFICES ASSUME NetworkInv, NEW d \in network.depends,
                    network' = [network EXCEPT !.depends = @ \ {d}]
             PROVE  NetworkInv'
  BY DEF Disconnect
<1>1. PICK n: n = network
  OBVIOUS
<1>2. PICK m: m = [n EXCEPT !.depends = @ \ {d}]
  OBVIOUS
<1>3. n \in [days: Seq(Days), depends: SUBSET (Nat \X Nat)] /\ IsNetwork(n) /\ Acyclic(n)
  BY <1>1 DEF NetworkInv, IsNetwork
<1>4. /\ m \in [days: Seq(Days), depends: SUBSET (Nat \X Nat)]
      /\ Len(m.days) = Len(n.days) /\ m.depends \subseteq n.depends
  BY <1>2, <1>3
<1>5. network' = m /\ IsNetwork(m) /\ Acyclic(m)
  BY <1>1, <1>2, <1>3, <1>4, FewerDependencies
<1> QED BY <1>5 DEF NetworkInv

\* A dependency is added when the search finds no loop.
LEMMA ConnectKeeps == NetworkInv /\ Connect => NetworkInv'
<1> SUFFICES ASSUME NetworkInv, NEW from \in Places(network), NEW to \in Places(network),
                    FindLoop(Connected(network, from, to)) = <<>>,
                    network' = Connected(network, from, to)
             PROVE  NetworkInv'
  BY DEF Connect
<1>1. PICK n: n = network
  OBVIOUS
<1>2. PICK m: m = Connected(n, from, to)
  OBVIOUS
<1>3. IsNetwork(n) /\ from \in Places(n) /\ to \in Places(n)
  BY <1>1 DEF NetworkInv
<1>4. IsNetwork(m)
  BY <1>2, <1>3, ConnectedIsNetwork
<1>5. FindLoop(m) = <<>>
  BY <1>1, <1>2
<1>6. ~ IsLoop(m, <<>>)
  BY DEF IsLoop
<1>7. Acyclic(m)
  BY <1>4, <1>5, <1>6, FindLoopRight
<1>8. network' = m
  BY <1>1, <1>2
<1> QED BY <1>4, <1>7, <1>8 DEF NetworkInv

\* Those that remain wait for each other as they did at their old places.
LEMMA RemoveKeeps == NetworkInv /\ RemoveActivity => NetworkInv'
<1> DEFINE moved(i, k) == IF k > i THEN k - 1 ELSE k
           back(i, k) == IF k >= i THEN k + 1 ELSE k
<1> SUFFICES ASSUME NetworkInv, NEW i \in Places(network),
                    network' =
                      [days |-> RemoveAt(network.days, i),
                       depends |-> {<<moved(i, d[1]), moved(i, d[2])>>:
                                      d \in {e \in network.depends: i \notin {e[1], e[2]}}}]
             PROVE  NetworkInv'
  BY DEF RemoveActivity
<1>1. PICK n: n = network
  OBVIOUS
<1>2. PICK m: m = [days |-> RemoveAt(n.days, i),
                   depends |-> {<<moved(i, d[1]), moved(i, d[2])>>:
                                  d \in {e \in n.depends: i \notin {e[1], e[2]}}}]
  OBVIOUS
<1>3. /\ n.days \in Seq(Days) /\ n.depends \subseteq Places(n) \X Places(n)
      /\ IsNetwork(n) /\ Acyclic(n) /\ Len(n.days) <= MaxActivities
  BY <1>1 DEF NetworkInv, IsNetwork
<1>4. PICK L \in Nat: L = Len(n.days) /\ Places(n) = 1..L
  BY <1>3, PlacesOf
<1>5. i \in 1..L
  BY <1>1, <1>4
<1>6. RemoveAt(n.days, i) \in Seq(Days) /\ Len(RemoveAt(n.days, i)) = L - 1
  <2>1. \A k \in 1..L: n.days[k] \in Days
    BY <1>3, <1>4
  <2>2. 1 \in Int /\ i - 1 \in Int /\ i + 1 \in Int /\ L \in Int
    BY <1>5
  <2>3. (\A k \in 1..(i - 1): n.days[k] \in Days) /\ (\A k \in (i + 1)..L: n.days[k] \in Days)
    BY <1>5, <2>1
  <2>4. /\ SubSeq(n.days, 1, i - 1) \in Seq(Days)
        /\ Len(SubSeq(n.days, 1, i - 1)) = IF 1 <= i - 1 THEN (i - 1) - 1 + 1 ELSE 0
    BY <2>2, <2>3, SubSeqProperties
  <2>5. /\ SubSeq(n.days, i + 1, L) \in Seq(Days)
        /\ Len(SubSeq(n.days, i + 1, L)) = IF i + 1 <= L THEN L - (i + 1) + 1 ELSE 0
    BY <2>2, <2>3, SubSeqProperties
  <2>6. Len(SubSeq(n.days, 1, i - 1)) + Len(SubSeq(n.days, i + 1, L)) = L - 1
    BY <1>5, <2>4, <2>5
  <2> QED BY <1>4, <2>4, <2>5, <2>6, ConcatProperties DEF RemoveAt
<1>7. m.days \in Seq(Days) /\ Len(m.days) = L - 1 /\ Places(m) = 1..(L - 1)
  BY <1>2, <1>6 DEF Places
<1>8. ASSUME NEW p, NEW q, <<p, q>> \in m.depends
      PROVE  p \in 1..(L - 1) /\ q \in 1..(L - 1) /\ <<back(i, p), back(i, q)>> \in n.depends
  <2>1. PICK d \in n.depends: i \notin {d[1], d[2]} /\ <<p, q>> = <<moved(i, d[1]), moved(i, d[2])>>
    BY <1>2, <1>8
  <2>2. d[1] \in 1..L /\ d[2] \in 1..L /\ d = <<d[1], d[2]>>
    BY <1>3, <1>4
  <2>3. \A k \in 1..L: k # i => moved(i, k) \in 1..(L - 1) /\ back(i, moved(i, k)) = k
    BY <1>5
  <2> HIDE DEF moved, back
  <2> QED BY <2>1, <2>2, <2>3
<1>9. m.depends \subseteq Places(m) \X Places(m)
  <2>1. \A e \in m.depends: e = <<e[1], e[2]>>
    BY <1>2
  <2>2. \A e \in m.depends: e[1] \in 1..(L - 1) /\ e[2] \in 1..(L - 1)
    BY <1>8, <2>1
  <2> QED BY <1>7, <2>1, <2>2
<1>10. IsNetwork(m)
  <2>1. m.depends \subseteq Nat \X Nat
    BY <1>7, <1>9
  <2>2. m \in [days: Seq(Days), depends: SUBSET (Nat \X Nat)]
    BY <1>2, <1>7, <2>1
  <2>3. Len(m.days) <= MaxActivities
    BY <1>3, <1>4, <1>7, ActivitiesAssumption
  <2> QED BY <1>9, <2>2, <2>3 DEF IsNetwork
<1>11. ASSUME NEW S \in SUBSET Places(m), S # {} PROVE Sourced(m, S)
  <2> DEFINE T == {back(i, k): k \in S}
  <2>1. \A k \in S: back(i, k) \in 1..L
    BY <1>5, <1>7
  <2>2. T \in SUBSET Places(n) /\ T # {}
    BY <1>4, <1>11, <2>1
  <2>3. PICK t \in T: Predecessors(n, t) \cap T = {}
    <3> HIDE DEF T
    <3> QED BY <1>3, <2>2 DEF Acyclic, Sourced
  <2>4. PICK s \in S: t = back(i, s)
    OBVIOUS
  <2>5. ASSUME NEW p \in Predecessors(m, s), p \in S PROVE FALSE
    <3>1. <<p, s>> \in m.depends
      BY DEF Predecessors
    <3>2. <<back(i, p), t>> \in n.depends
      BY <1>8, <2>4, <3>1
    <3>3. back(i, p) \in T /\ back(i, p) \in Places(n)
      BY <2>2, <2>5
    <3>4. back(i, p) \in Predecessors(n, t)
      BY <3>2, <3>3 DEF Predecessors
    <3> QED BY <2>3, <3>3, <3>4
  <2> QED BY <2>5 DEF Sourced
<1>12. network' = m /\ Acyclic(m)
  BY <1>1, <1>2, <1>11 DEF Acyclic
<1> QED BY <1>10, <1>12 DEF NetworkInv

\* The inductive invariant.
LEMMA NetworkInvHolds == NetworkSpec => []NetworkInv
<1>1. NetworkInv /\ [NetworkNext]_networkVars => NetworkInv'
  <2> SUFFICES ASSUME NetworkInv, [NetworkNext]_networkVars PROVE NetworkInv'
    OBVIOUS
  <2>1. CASE AddActivity
    BY <2>1, AddKeeps
  <2>2. CASE SetDays
    BY <2>2, DaysKeep
  <2>3. CASE RemoveActivity
    BY <2>3, RemoveKeeps
  <2>4. CASE Connect
    BY <2>4, ConnectKeeps
  <2>5. CASE Disconnect
    BY <2>5, DisconnectKeeps
  <2>6. CASE UNCHANGED networkVars
    BY <2>6 DEF networkVars, NetworkInv
  <2> QED BY <2>1, <2>2, <2>3, <2>4, <2>5, <2>6 DEF NetworkNext
<1> QED BY EmptyPlan, <1>1, PTL DEF NetworkSpec

-----------------------------------------------------------------------------
\* The properties' sets of paths, said of chains.
LEMMA PathsOf ==
  ASSUME NEW n
  PROVE  /\ \A i: {p.days: p \in {q \in Paths(n): q.to = i}} = DaysTo(n, i)
         /\ {p.days: p \in Paths(n)} = AllDays(n)
         /\ \A from, to: (\E p \in Paths(n): p.from = from /\ p.to = to) <=> LeadsTo(n, from, to)
<1> DEFINE path(c) == [from |-> c[1], to |-> c[Len(c)], days |-> Along(n, c)]
<1>1. \A c: path(c).from = c[1] /\ path(c).to = Last(c) /\ path(c).days = Along(n, c)
  BY DEF Last
<1>2. Paths(n) = {path(c): c \in Chains(n)}
  BY DEF Paths
<1> HIDE DEF path
<1>3. ASSUME NEW i PROVE {p.days: p \in {q \in Paths(n): q.to = i}} = DaysTo(n, i)
  <2>1. ASSUME NEW p \in Paths(n), p.to = i PROVE p.days \in DaysTo(n, i)
    <3>1. PICK c \in Chains(n): p = path(c)
      BY <1>2
    <3> QED BY <1>1, <2>1, <3>1 DEF DaysTo
  <2>2. ASSUME NEW d \in DaysTo(n, i) PROVE \E p \in Paths(n): p.to = i /\ p.days = d
    <3>1. PICK c \in Chains(n): Last(c) = i /\ d = Along(n, c)
      BY DEF DaysTo
    <3>2. path(c) \in Paths(n)
      BY <1>2
    <3> QED BY <1>1, <3>1, <3>2
  <2> QED BY <2>1, <2>2
<1>4. {p.days: p \in Paths(n)} = AllDays(n)
  BY <1>1, <1>2 DEF AllDays
<1>5. ASSUME NEW from, NEW to
      PROVE  (\E p \in Paths(n): p.from = from /\ p.to = to) <=> LeadsTo(n, from, to)
  BY <1>1, <1>2 DEF LeadsTo
<1> QED BY <1>3, <1>4, <1>5

\* All a plan without a loop shows is true of it.
LEMMA TimelineOf ==
  ASSUME NEW n, IsNetwork(n), Acyclic(n), Places(n) # {}
  PROVE  /\ ToSet(Order(n)) = Places(n)
         /\ \A j, k \in DOMAIN Order(n): j < k => <<Order(n)[k], Order(n)[j]>> \notin n.depends
         /\ \A i \in Places(n):
              Finishes(n)[i] = Longest({p.days: p \in {q \in Paths(n): q.to = i}})
         /\ PlanDays(Finishes(n)) = Longest({p.days: p \in Paths(n)})
         /\ \A from, to \in Places(n):
              IF \E p \in Paths(n): p.from = to /\ p.to = from
              THEN IsLoop(Connected(n, from, to), FindLoop(Connected(n, from, to)))
              ELSE FindLoop(Connected(n, from, to)) = <<>>
<1>1. PICK order: order = Order(n)
  OBVIOUS
<1>2. order \in Seq(Places(n)) /\ InOrder(n, order) /\ ToSet(order) = Places(n)
  BY <1>1, OrderComplete
<1>3. \A j, k \in DOMAIN order: j < k => <<order[k], order[j]>> \notin n.depends
  BY <1>2, OrderRespects
<1>4. PICK finish: finish = Finishes(n)
  OBVIOUS
<1>5. /\ finish \in [Places(n) -> Nat \cup {Unknown}]
      /\ \A i \in Places(n): LongestIs(finish[i], DaysTo(n, i))
  BY <1>4, FinishesLongest
<1>6. \A i \in Places(n): finish[i] = Longest({p.days: p \in {q \in Paths(n): q.to = i}})
  <2> SUFFICES ASSUME NEW i \in Places(n)
               PROVE  finish[i] = Longest({p.days: p \in {q \in Paths(n): q.to = i}})
    OBVIOUS
  <2>1. finish[i] = Longest(DaysTo(n, i))
    BY <1>5, LongestUnique
  <2>2. {p.days: p \in {q \in Paths(n): q.to = i}} = DaysTo(n, i)
    BY PathsOf
  <2> QED BY <2>1, <2>2
<1>7. LongestIs(PlanDays(finish), AllDays(n))
  BY <1>5, PlanDaysLongest
<1>8. PlanDays(finish) = Longest({p.days: p \in Paths(n)})
  BY <1>7, LongestUnique, PathsOf
<1>9. ASSUME NEW from \in Places(n), NEW to \in Places(n)
      PROVE  IF \E p \in Paths(n): p.from = to /\ p.to = from
             THEN IsLoop(Connected(n, from, to), FindLoop(Connected(n, from, to)))
             ELSE FindLoop(Connected(n, from, to)) = <<>>
  <2>1. IsNetwork(Connected(n, from, to))
    BY ConnectedIsNetwork
  <2>2. CASE LeadsTo(n, to, from)
    BY <2>1, <2>2, ClosingIsCyclic, FindLoopRight, PathsOf
  <2>3. CASE ~ LeadsTo(n, to, from)
    BY <2>1, <2>3, OpenStaysAcyclic, FindLoopRight, PathsOf
  <2> QED BY <2>2, <2>3
<1> QED BY <1>1, <1>2, <1>3, <1>4, <1>6, <1>8, <1>9

\* PlanNetwork: an activity has days that were entered, and the dependencies
\* are between the activities there are, whatever was removed between them.
THEOREM NetworkTypeCorrect == NetworkSpec => []NetworkTypeOK
<1>1. NetworkInv => NetworkTypeOK
  <2> SUFFICES ASSUME NetworkInv PROVE NetworkTypeOK
    OBVIOUS
  <2>1. /\ network.days \in Seq(Days) /\ Len(network.days) <= MaxActivities
        /\ network.depends \subseteq Places(network) \X Places(network)
    BY DEF NetworkInv, IsNetwork
  <2>2. Len(network.days) \in 0..MaxActivities /\ network.days \in [1..Len(network.days) -> Days]
    BY <2>1, ActivitiesAssumption
  <2> QED BY <2>1, <2>2 DEF NetworkTypeOK
<1> QED BY NetworkInvHolds, <1>1, PTL

\* PlanNetwork: no sequence of edits closes a loop, so the order the program
\* goes by is complete, each activity finishes at the end of the longest chain
\* that leads to it, whatever is unknown on one of them makes it unknown, and a
\* dependency is refused, with the loop named, exactly when it would close one.
THEOREM TimelineHolds == NetworkSpec => []TimelineIsLongestChain
<1>1. NetworkInv => TimelineIsLongestChain
  <2> SUFFICES ASSUME NetworkInv PROVE TimelineIsLongestChain
    OBVIOUS
  <2>1. IsNetwork(network) /\ Acyclic(network)
    BY DEF NetworkInv
  <2> QED BY <2>1, TimelineOf DEF TimelineIsLongestChain
<1> QED BY NetworkInvHolds, <1>1, PTL

-----------------------------------------------------------------------------
(* Approval and award: a request that writes still relies on what it read. *)

USE MaxRevisionsAssumption, MaxTimeAssumption

\* A revision that was approved, once superseded still so.
Sound(n) ==
  n \in DOMAIN revisions /\ revisions[n].status \in {"approved", "superseded"}

\* What a request has read and relies on when it writes.
RequestIsSound(u) ==
  /\ request[u].op \in {"approve", "reject"} => request[u].revision \in DOMAIN revisions
  /\ request[u].op = "record" =>
       /\ tender.stage = "approval"
       /\ request[u].revision # 0 => Sound(request[u].revision)
       /\ request[u].ok => request[u].revision # 0 /\ tender.approval = "approved"
       /\ \A v \in Users: request[v].op = "record" => v = u
  /\ request[u].op = "award" =>
       /\ Sound(request[u].revision)
       /\ revisions[request[u].revision].data = request[u].data

RequestsAreSound == \A u \in Users: RequestIsSound(u)

\* The inductive invariant.
IInv ==
  /\ TypeOK /\ RequestsAreSound /\ AtMostOneApproved
  /\ BaselineIsApprovedRevision /\ AwardIsOne /\ SubmissionIsApproved

\* What a step may do to the revisions.
Grown ==
  \A n \in DOMAIN revisions:
    /\ n \in DOMAIN revisions'
    /\ revisions'[n].data = revisions[n].data
    /\ revisions'[n].status # revisions[n].status =>
         <<revisions[n].status, revisions'[n].status>> \in
           {<<"review", "approved">>, <<"review", "rejected">>,
            <<"approved", "superseded">>}
    /\ revisions[n].status \in {"approved", "superseded"} =>
         revisions'[n].approvedAt = revisions[n].approvedAt

-----------------------------------------------------------------------------
(* Lemmas                                                                   *)

\* A nonempty set of revision numbers has a largest one.
LEMMA MaxIsMember ==
  ASSUME NEW N \in Nat, NEW S \in SUBSET (1..N), S # {}
  PROVE  Max(S) \in S
<1> DEFINE Below == {y \in Nat: N - y \in S}
           Less == OpToRel(<, Nat)
<1>1. Below \subseteq Nat /\ Below # {}
  <2>1. PICK x \in S: TRUE
    OBVIOUS
  <2>2. x \in 1..N /\ N - x \in Nat /\ N - (N - x) = x
    OBVIOUS
  <2> QED BY <2>1, <2>2
<1>2. PICK least \in Below: \A y \in Below: <<y, least>> \notin Less
  <2> HIDE DEF Below, Less
  <2>1. IsWellFoundedOn(Less, Nat)
    BY NatLessThanWellFounded DEF Less
  <2> QED BY <1>1, <2>1, WFMin
<1>3. \A y \in Below: least <= y
  <2> SUFFICES ASSUME NEW y \in Below PROVE least <= y
    OBVIOUS
  <2>1. y \in Nat /\ least \in Nat
    BY <1>1
  <2>2. <<y, least>> \in Nat \X Nat /\ <<y, least>>[1] = y /\ <<y, least>>[2] = least
    BY <2>1
  <2>3. y < least => <<y, least>> \in Less
    BY <2>2, Zenon DEF OpToRel
  <2>4. ~(y < least)
    BY <1>2, <2>3
  <2> QED BY <2>1, <2>4
<1>4. \A x \in S: N - x \in Below
  <2> SUFFICES ASSUME NEW x \in S PROVE N - x \in Below
    OBVIOUS
  <2>1. x \in 1..N /\ N - x \in Nat /\ N - (N - x) = x
    OBVIOUS
  <2> QED BY <2>1
<1>5. N - least \in S /\ \A x \in S: N - least >= x
  <2>1. least \in Nat /\ N - least \in S
    BY <1>1
  <2>2. ASSUME NEW x \in S PROVE N - least >= x
    <3>1. x \in 1..N /\ least <= N - x
      BY <1>3, <1>4
    <3> QED BY <2>1, <3>1
  <2> QED BY <2>1, <2>2
<1> QED BY <1>5 DEF Max

\* The revision an operation works on exists and has the status it looks for.
LEMMA LatestHasStatus ==
  ASSUME TypeOK, NEW status, WithStatus(status) # {}
  PROVE  /\ LatestWith(status) \in DOMAIN revisions
         /\ LatestWith(status) \in 1..MaxRevisions
         /\ revisions[LatestWith(status)].status = status
<1>1. WithStatus(status) \in SUBSET (1..MaxRevisions)
  BY DEF TypeOK, EstimateTypes, WithStatus
<1>2. Max(WithStatus(status)) \in WithStatus(status)
  BY <1>1, MaxIsMember
<1> QED BY <1>1, <1>2 DEF LatestWith, WithStatus

\* The fields of a request in flight.
LEMMA RequestFields ==
  ASSUME TypeOK, NEW u \in Users
  PROVE  /\ request[u].op \in {"idle", "submit", "decide", "approve", "reject", "save", "record", "award"}
         /\ request[u].op = "submit" => request[u].data \in Contents
         /\ request[u].op \in {"approve", "reject"} =>
              request[u].revision \in 1..MaxRevisions /\ request[u].at \in Times
         /\ request[u].op = "save" =>
              request[u].status \in {"Open", "Awarded"} /\ request[u].jobId \in BOOLEAN
         /\ request[u].op = "record" =>
              request[u].revision \in RevisionNumbers /\ request[u].ok \in BOOLEAN
         /\ request[u].op = "award" =>
              /\ request[u].revision \in 1..MaxRevisions
              /\ request[u].data \in Contents /\ request[u].current \in Contents
<1>1. request[u] \in {Idle} \cup EstimateRequests \cup TenderRequests
  BY DEF TypeOK
<1> QED BY <1>1 DEF Idle, EstimateRequests, TenderRequests

\* An approved revision stays one, and says what it said.
LEMMA SoundStays ==
  ASSUME Grown, NEW n, Sound(n)
  PROVE  /\ n \in DOMAIN revisions'
         /\ revisions'[n].status \in {"approved", "superseded"}
         /\ revisions'[n].data = revisions[n].data
  BY DEF Grown, Sound

-----------------------------------------------------------------------------
(* Steps of the estimate                                                    *)

\* What every step of the estimate leaves to show: it keeps the revisions'
\* history and reads only numbers of revisions that exist.
EstimateKept(u) ==
  /\ TypeOK' /\ Grown /\ AtMostOneApproved'
  /\ \A v \in Users: v # u => request'[v] = request[v]
  /\ request'[u].op \notin {"record", "award"}
  /\ request'[u].op \in {"approve", "reject"} => request'[u].revision \in DOMAIN revisions'

\* A step of the estimate that does so keeps the invariant.
LEMMA EstimateKeptSuffices ==
  ASSUME IInv, NEW u \in Users, EstimateKept(u), UNCHANGED tenderVars
  PROVE  IInv'
<1> USE DEF EstimateKept
<1>1. TypeOK' /\ AtMostOneApproved'
  OBVIOUS
<1>2. RequestsAreSound'
  <2> SUFFICES ASSUME NEW v \in Users
               PROVE  RequestIsSound(v)'
    BY DEF RequestsAreSound
  <2>1. CASE v = u
    BY <2>1 DEF IInv, RequestIsSound
  <2>2. CASE v # u
    <3>1. request'[v] = request[v] /\ RequestIsSound(v)
      BY <2>2 DEF IInv, RequestsAreSound
    <3>2. \A w \in Users: request'[w].op = "record" => request[w].op = "record"
      OBVIOUS
    <3> QED
      BY <3>1, <3>2, SoundStays DEF RequestIsSound, Grown, Sound, tenderVars
  <2> QED BY <2>1, <2>2
<1>3. BaselineIsApprovedRevision'
  BY SoundStays DEF IInv, BaselineIsApprovedRevision, Sound, tenderVars
<1>4. AwardIsOne'
  BY DEF IInv, AwardIsOne, tenderVars
<1>5. SubmissionIsApproved'
  BY SoundStays DEF IInv, SubmissionIsApproved, Sound, tenderVars
<1> QED BY <1>1, <1>2, <1>3, <1>4, <1>5 DEF IInv

\* A step that writes no revision.
LEMMA SameRevisions ==
  ASSUME IInv, UNCHANGED revisions
  PROVE  Grown /\ AtMostOneApproved'
  BY DEF IInv, Grown, AtMostOneApproved, WithStatus

\* One that answers a request leaves the others alone.
LEMMA AnswerKeeps ==
  ASSUME TypeOK, NEW u \in Users, Answer(u)
  PROVE  /\ request' \in [Users -> {Idle} \cup EstimateRequests \cup TenderRequests]
         /\ \A v \in Users: v # u => request'[v] = request[v]
         /\ request'[u] = Idle /\ request'[u].op = "idle"
  BY DEF TypeOK, Answer, Idle

\* And so does one that starts a request.
LEMMA ReadKeeps ==
  ASSUME TypeOK, NEW u \in Users,
         NEW what \in EstimateRequests \cup TenderRequests, Read(u, what)
  PROVE  /\ request' \in [Users -> {Idle} \cup EstimateRequests \cup TenderRequests]
         /\ \A v \in Users: v # u => request'[v] = request[v]
         /\ request'[u] = what /\ request[u] = Idle
  BY DEF TypeOK, Read

\* A user's request starts or ends with an operation of the estimate.
RequestReplaced(u) ==
  /\ request' \in [Users -> {Idle} \cup EstimateRequests \cup TenderRequests]
  /\ \A v \in Users: v # u => request'[v] = request[v]
  /\ request'[u].op \notin {"record", "award"}
  /\ request'[u].op \in {"approve", "reject"} => request'[u].revision \in DOMAIN revisions

\* The steps that only read, or only give up.
LEMMA EstimateReads ==
  ASSUME IInv, NEW u \in Users,
         \/ ReadForReview(u)
         \/ BeginDecision(u)
         \/ \E decision \in {"approve", "reject"}: ReadForDecision(u, decision)
         \/ ReadForSave(u)
         \/ Abandon(u)
  PROVE  UNCHANGED tenderVars => EstimateKept(u)
<1> USE DEF IInv
<1>1. UNCHANGED <<estimate, revisions, clock>> /\ Grown /\ AtMostOneApproved'
  BY SameRevisions DEF ReadForReview, BeginDecision, ReadForDecision, ReadForSave, Abandon
<1>2. RequestReplaced(u)
  <2> USE DEF RequestReplaced
  <2>1. CASE ReadForReview(u)
    <3>1. [op |-> "submit", data |-> estimate.data] \in EstimateRequests
      BY DEF TypeOK, EstimateTypes, Estimates, EstimateRequests
    <3> QED BY <2>1, <3>1, ReadKeeps DEF ReadForReview
  <2>2. ASSUME NEW decision \in {"approve", "reject"}, ReadForDecision(u, decision)
        PROVE  RequestReplaced(u)
    <3> DEFINE n == LatestWith("review")
               what == [op |-> decision, revision |-> n, at |-> clock]
    <3>1. n \in DOMAIN revisions /\ n \in 1..MaxRevisions
      BY <2>2, LatestHasStatus DEF ReadForDecision
    <3>2. what \in EstimateRequests
      BY <3>1 DEF TypeOK, EstimateTypes, EstimateRequests, Times
    <3>3. request' = [request EXCEPT ![u] = what]
      BY <2>2 DEF ReadForDecision
    <3>4. request \in [Users -> {Idle} \cup EstimateRequests \cup TenderRequests]
      BY DEF TypeOK
    <3>5. request'[u] = what /\ what.op = decision /\ what.revision = n
      BY <3>3, <3>4
    <3> QED BY <3>1, <3>2, <3>3, <3>4, <3>5
  <2>3. CASE ReadForSave(u)
    <3>1. [op |-> "save", status |-> estimate.status, jobId |-> estimate.jobId] \in EstimateRequests
      BY DEF TypeOK, EstimateTypes, Estimates, EstimateRequests
    <3> QED BY <2>3, <3>1, ReadKeeps DEF ReadForSave
  <2>4. CASE Abandon(u)
    BY <2>4, AnswerKeeps DEF Abandon
  <2>5. CASE BeginDecision(u)
    <3>1. [op |-> "decide"] \in EstimateRequests
      BY DEF EstimateRequests
    <3> QED BY <2>5, <3>1, ReadKeeps DEF BeginDecision
  <2> QED BY <2>1, <2>2, <2>3, <2>4, <2>5
<1>3. UNCHANGED tenderVars => TypeOK'
  BY <1>1, <1>2 DEF RequestReplaced, TypeOK, EstimateTypes, tenderVars
<1> QED BY <1>1, <1>2, <1>3 DEF RequestReplaced, EstimateKept

\* A submission for review adds a revision and changes none.
LEMMA SubmitKeeps ==
  ASSUME IInv, NEW u \in Users, SubmitForReview(u), UNCHANGED tenderVars
  PROVE  EstimateKept(u)
<1> USE DEF IInv
<1> DEFINE new == [status |-> "review", data |-> request[u].data, approvedAt |-> 0]
<1>1. new \in Revisions /\ revisions \in Seq(Revisions) /\ revisions' = Append(revisions, new)
  BY RequestFields DEF SubmitForReview, Revisions, RevisionStatuses, Times, TypeOK, EstimateTypes
<1>2. /\ revisions' \in Seq(Revisions) /\ Len(revisions') = Len(revisions) + 1
      /\ \A n \in DOMAIN revisions: n \in DOMAIN revisions' /\ revisions'[n] = revisions[n]
      /\ \A n \in DOMAIN revisions': n \in DOMAIN revisions \/ revisions'[n] = new
  BY <1>1
<1>3. Grown
  BY <1>2 DEF Grown
<1>4. AtMostOneApproved'
  BY <1>2 DEF AtMostOneApproved, WithStatus
<1>5. estimate' \in Estimates /\ Len(revisions') <= MaxRevisions
  BY <1>2 DEF SubmitForReview, TypeOK, EstimateTypes, Estimates
<1>6. TypeOK'
  BY <1>2, <1>5, AnswerKeeps DEF SubmitForReview, TypeOK, EstimateTypes, tenderVars
<1> QED BY <1>3, <1>4, <1>6, AnswerKeeps DEF EstimateKept, SubmitForReview

\* A rejection decides the revision it read and no other.
LEMMA RejectKeeps ==
  ASSUME IInv, NEW u \in Users, Reject(u), UNCHANGED tenderVars
  PROVE  EstimateKept(u)
<1> DEFINE n == request[u].revision
<1> USE DEF IInv
<1>1. /\ n \in DOMAIN revisions /\ revisions \in Seq(Revisions)
      /\ \A m \in DOMAIN revisions: revisions[m] \in Revisions
  BY DEF Reject, RequestsAreSound, RequestIsSound, TypeOK, EstimateTypes
<1>2. /\ revisions' \in Seq(Revisions) /\ Len(revisions') = Len(revisions)
      /\ DOMAIN revisions' = DOMAIN revisions
      /\ \A m \in DOMAIN revisions:
           \/ revisions'[m] = revisions[m]
           \/ /\ revisions[m].status = "review"
              /\ revisions'[m] = [revisions[m] EXCEPT !.status = "rejected"]
  <2>1. CASE revisions[n].status = "review"
    <3>1. [revisions[n] EXCEPT !.status = "rejected"] \in Revisions
      <4>1. revisions[n] \in Revisions
        BY <1>1
      <4> QED BY <4>1 DEF Revisions, RevisionStatuses
    <3>2. revisions' = [revisions EXCEPT ![n] = [revisions[n] EXCEPT !.status = "rejected"]]
      BY <2>1 DEF Reject
    <3> QED BY <1>1, <2>1, <3>1, <3>2
  <2>2. CASE revisions[n].status # "review"
    BY <1>1, <2>2 DEF Reject
  <2> QED BY <2>1, <2>2
<1>3. Grown
  BY <1>1, <1>2 DEF Grown, Revisions
<1>4. AtMostOneApproved'
  BY <1>1, <1>2 DEF AtMostOneApproved, WithStatus, Revisions
<1>5. estimate' \in Estimates
  BY DEF Reject, TypeOK, EstimateTypes, Estimates
<1>6. TypeOK'
  BY <1>2, <1>5, AnswerKeeps DEF Reject, TypeOK, EstimateTypes, tenderVars
<1> QED BY <1>3, <1>4, <1>6, AnswerKeeps DEF EstimateKept, Reject

\* An approval supersedes every approved revision before it approves its own.
LEMMA ApproveKeeps ==
  ASSUME IInv, NEW u \in Users, Approve(u), UNCHANGED tenderVars
  PROVE  EstimateKept(u)
<1> DEFINE n == request[u].revision
<1> USE DEF IInv
<1>1. n \in DOMAIN revisions /\ n \in 1..MaxRevisions /\ request[u].at \in Times
  BY RequestFields DEF Approve, RequestsAreSound, RequestIsSound
<1>2. revisions \in Seq(Revisions) /\ \A m \in DOMAIN revisions: revisions[m] \in Revisions
  BY DEF TypeOK, EstimateTypes
<1>3. /\ DOMAIN revisions' = DOMAIN revisions
      /\ \A m \in DOMAIN revisions:
           \/ /\ revisions[m].status = "approved"
              /\ revisions'[m] = [revisions[m] EXCEPT !.status = "superseded"]
           \/ /\ m = n /\ revisions[m].status = "review"
              /\ revisions'[m] = Decided(m, "approved", request[u].at)
           \/ revisions[m].status # "approved" /\ revisions'[m] = revisions[m]
  BY DEF Approve
<1>4. \A m \in DOMAIN revisions: revisions'[m] \in Revisions
  <2> SUFFICES ASSUME NEW m \in DOMAIN revisions PROVE revisions'[m] \in Revisions
    OBVIOUS
  <2>1. revisions[m] \in Revisions
    BY <1>2
  <2>2. [revisions[m] EXCEPT !.status = "superseded"] \in Revisions
    BY <2>1 DEF Revisions, RevisionStatuses
  <2>3. Decided(m, "approved", request[u].at) \in Revisions
    BY <2>1, <1>1 DEF Decided, Revisions, RevisionStatuses
  <2> QED BY <1>3, <2>1, <2>2, <2>3
<1>5. revisions' \in Seq(Revisions) /\ Len(revisions') = Len(revisions)
  <2>1. revisions' \in [1..Len(revisions) -> Revisions]
    BY <1>2, <1>3, <1>4 DEF Approve
  <2>2. Len(revisions) \in Nat
    BY <1>2
  <2> QED BY <2>1, <2>2
<1>6. Grown
  BY <1>2, <1>3 DEF Grown, Decided, Revisions
<1>7. AtMostOneApproved'
  BY <1>2, <1>3 DEF AtMostOneApproved, WithStatus, Revisions
<1>8. estimate' \in Estimates
  <2>1. n \in RevisionNumbers /\ estimate \in Estimates
    BY <1>1 DEF TypeOK, EstimateTypes, RevisionNumbers
  <2>2. estimate' = [estimate EXCEPT !.state = "approved", !.approved = n]
    BY DEF Approve
  <2> HIDE DEF n, IInv
  <2> QED BY <2>1, <2>2 DEF Estimates
<1>9. TypeOK'
  BY <1>5, <1>8, AnswerKeeps DEF Approve, TypeOK, EstimateTypes, tenderVars
<1> QED BY <1>6, <1>7, <1>9, AnswerKeeps DEF EstimateKept, Approve

\* The editor's save writes no revision.
LEMMA SaveKeeps ==
  ASSUME IInv, NEW u \in Users, Save(u), UNCHANGED tenderVars
  PROVE  EstimateKept(u)
<1> USE DEF IInv
<1>1. UNCHANGED <<revisions, clock>> /\ Grown /\ AtMostOneApproved'
  BY SameRevisions DEF Save
<1>2. estimate' \in Estimates
  BY RequestFields DEF Save, TypeOK, EstimateTypes, Estimates
<1>3. TypeOK'
  BY <1>1, <1>2, AnswerKeeps DEF Save, TypeOK, EstimateTypes, tenderVars
<1> QED BY <1>1, <1>3, AnswerKeeps DEF EstimateKept, Save

\* Every step of the estimate keeps the invariant.
LEMMA EstimateStepKeeps ==
  ASSUME IInv, EstimateNext, UNCHANGED tenderVars
  PROVE  IInv' /\ Grown
<1>1. CASE Tick
  <2>1. Grown /\ AtMostOneApproved'
    BY <1>1, SameRevisions DEF Tick
  <2>2. TypeOK'
    BY <1>1 DEF Tick, IInv, TypeOK, EstimateTypes, tenderVars
  <2> QED
    BY <1>1, <2>1, <2>2
    DEF Tick, IInv, RequestsAreSound, RequestIsSound, Sound, BaselineIsApprovedRevision,
        AwardIsOne, SubmissionIsApproved, tenderVars
<1>2. ASSUME NEW u \in Users, EstimateStep(u)
      PROVE  IInv' /\ Grown
  <2>1. EstimateKept(u)
    BY <1>2, EstimateReads, SubmitKeeps, RejectKeeps, ApproveKeeps, SaveKeeps DEF EstimateStep
  <2> QED BY <2>1, EstimateKeptSuffices DEF EstimateKept
<1> QED BY <1>1, <1>2 DEF EstimateNext

-----------------------------------------------------------------------------
(* Steps of the tender                                                      *)

\* A step of the tender itself: no submission is being recorded, nothing but
\* the tender and its opportunity changes.
LEMMA TenderMoves ==
  ASSUME IInv, ~Locked, UNCHANGED <<estimateVars, repriced, projects, projectsOn>>,
         tender' \in Tenders, opportunity' \in {"converted", "won", "lost"},
         AwardIsOne', SubmissionIsApproved'
  PROVE  IInv'
<1>1. TypeOK'
  BY DEF IInv, TypeOK, EstimateTypes, estimateVars
<1>2. RequestsAreSound'
  BY DEF IInv, RequestsAreSound, RequestIsSound, Sound, Locked, estimateVars
<1>3. AtMostOneApproved' /\ BaselineIsApprovedRevision'
  BY DEF IInv, AtMostOneApproved, WithStatus, BaselineIsApprovedRevision, estimateVars
<1> QED BY <1>1, <1>2, <1>3 DEF IInv

\* The moves of an open tender: not to awarded, and to submitted or
\* clarification only from one of the two.
LEMMA OpenTenderMoves ==
  ASSUME IInv, ~Locked, UNCHANGED <<estimateVars, repriced, projects, projectsOn>>,
         tender' \in Tenders, opportunity' \in {"converted", "won", "lost"},
         tender'.stage # "awarded",
         tender'.revision = tender.revision, tender'.override = tender.override,
         tender'.stage \in Awardable =>
           tender.stage \in Awardable /\ tender'.approval = tender.approval
  PROVE  IInv'
<1>1. AwardIsOne'
  BY DEF IInv, AwardIsOne
<1>2. SubmissionIsApproved'
  BY DEF IInv, SubmissionIsApproved, estimateVars
<1> QED BY <1>1, <1>2, TenderMoves

\* Every step of the tender itself keeps the invariant.
LEMMA TenderStepKeeps ==
  ASSUME IInv, TenderStep
  PROVE  IInv' /\ (tender.stage \in Closed => UNCHANGED tender) /\ UNCHANGED revisions
<1> USE DEF Closed
<1>1. tender \in Tenders /\ opportunity \in {"converted", "won", "lost"}
  BY DEF IInv, TypeOK
<1>2. ASSUME NEW from \in SUBSET (Stages \ Closed), NEW to \in Stages \ {"awarded"}, Move(from, to),
             to \in Awardable => from \subseteq Awardable,
             opportunity' \in {opportunity, "lost"}
      PROVE  IInv' /\ (tender.stage \in Closed => UNCHANGED tender) /\ UNCHANGED revisions
  <2>1. tender' \in Tenders /\ tender' = [tender EXCEPT !.stage = to]
    BY <1>1, <1>2 DEF Move, Tenders
  <2>2. /\ tender'.stage = to /\ tender'.revision = tender.revision
        /\ tender'.override = tender.override /\ tender'.approval = tender.approval
    BY <1>1, <2>1 DEF Tenders
  <2>3. IInv'
    BY <1>1, <1>2, <2>1, <2>2, OpenTenderMoves DEF Move
  <2> QED BY <1>2, <2>3 DEF Move, estimateVars
<1>3. CASE SaveBidReview
  <2>1. PICK r \in BOOLEAN:
          tender' = [tender EXCEPT !.stage = "reviewing", !.recommended = r]
    BY <1>3 DEF SaveBidReview
  <2>2. r \in BOOLEAN
    BY <1>1 DEF Tenders
  <2>3. /\ tender' \in Tenders /\ tender'.stage = "reviewing"
        /\ tender'.revision = tender.revision /\ tender'.override = tender.override
    BY <1>1, <2>1, <2>2 DEF Tenders, Stages
  <2>4. IInv'
    BY <1>1, <1>3, <2>3, OpenTenderMoves DEF SaveBidReview, Awardable
  <2> QED BY <1>3, <2>4 DEF SaveBidReview, estimateVars
<1>4. CASE TransitionTender
  BY <1>2, <1>4 DEF TransitionTender, Stages, Awardable
<1>5. CASE DecideBid
  BY <1>2, <1>5 DEF DecideBid, Stages, Awardable
<1>6. CASE RecordLoss
  BY <1>2, <1>6 DEF RecordLoss, Stages, Awardable
<1>7. CASE RequestApproval
  <2>1. /\ tender' \in Tenders /\ tender'.stage = "approval"
        /\ tender'.revision = tender.revision /\ tender'.override = tender.override
    BY <1>1, <1>7 DEF RequestApproval, Tenders, Stages
  <2>2. IInv'
    BY <1>1, <1>7, <2>1, OpenTenderMoves DEF RequestApproval, Awardable
  <2> QED BY <1>7, <2>2 DEF RequestApproval, estimateVars
<1>8. CASE DecideApproval
  <2>1. /\ tender' \in Tenders /\ tender'.stage \in {"approval", "pricing"}
        /\ tender'.revision = tender.revision /\ tender'.override = tender.override
    BY <1>1, <1>8 DEF DecideApproval, Tenders, Stages
  <2>2. IInv'
    BY <1>1, <1>8, <2>1, OpenTenderMoves DEF DecideApproval, Awardable
  <2> QED BY <1>8, <2>2 DEF DecideApproval, estimateVars
<1>9. CASE Clarify
  <2>1. repriced' \in Times
    BY <1>9 DEF Clarify, IInv, TypeOK, EstimateTypes, Times
  <2>2. TypeOK'
    BY <1>9, <2>1 DEF Clarify, IInv, TypeOK, EstimateTypes, estimateVars
  <2> QED
    BY <1>9, <2>2
    DEF Clarify, IInv, RequestsAreSound, RequestIsSound, Sound, AtMostOneApproved, WithStatus,
        BaselineIsApprovedRevision, AwardIsOne, SubmissionIsApproved, estimateVars
<1> QED BY <1>3, <1>4, <1>5, <1>6, <1>7, <1>8, <1>9 DEF TenderStep

-----------------------------------------------------------------------------
(* Steps of a submission and of an award                                    *)

\* A request starts, or ends, beside everything else.
LEMMA RequestAlone ==
  ASSUME IInv, NEW u \in Users, UNCHANGED <<estimate, revisions, clock, tenderVars>>,
         request' \in [Users -> {Idle} \cup EstimateRequests \cup TenderRequests],
         \A v \in Users: v # u => request'[v] = request[v],
         RequestIsSound(u)',
         request'[u].op = "record" => ~Locked
  PROVE  IInv'
<1>1. TypeOK'
  BY DEF IInv, TypeOK, EstimateTypes, tenderVars
<1>2. RequestsAreSound'
  <2> SUFFICES ASSUME NEW v \in Users, v # u
               PROVE  RequestIsSound(v)'
    BY DEF RequestsAreSound
  <2>1. request'[v] = request[v] /\ RequestIsSound(v)
    BY DEF IInv, RequestsAreSound
  <2>2. request[v].op = "record" => \A w \in Users: request'[w].op = "record" => w = v
    BY <2>1 DEF RequestIsSound, Locked
  <2> QED BY <2>1, <2>2 DEF RequestIsSound, Sound, tenderVars
<1>3. AtMostOneApproved' /\ BaselineIsApprovedRevision' /\ AwardIsOne' /\ SubmissionIsApproved'
  BY DEF IInv, AtMostOneApproved, WithStatus, BaselineIsApprovedRevision, AwardIsOne,
     SubmissionIsApproved, tenderVars
<1> QED BY <1>1, <1>2, <1>3 DEF IInv

\* A submission reads the stage and the approvals it relies on.
LEMMA ReadForSubmissionKeeps ==
  ASSUME IInv, NEW u \in Users, ReadForSubmission(u)
  PROVE  IInv'
<1> DEFINE n == IF WithStatus("approved") = {} THEN 0 ELSE LatestWith("approved")
<1>1. PICK complete \in BOOLEAN:
        Read(u, [op |-> "record", ok |-> complete /\ SubmissionChecks, revision |-> n])
  BY DEF ReadForSubmission
<1> DEFINE ok == complete /\ SubmissionChecks
           what == [op |-> "record", ok |-> ok, revision |-> n]
<1>2. n \in RevisionNumbers /\ (n # 0 => Sound(n)) /\ (ok => n # 0)
  <2>1. CASE WithStatus("approved") = {}
    BY <2>1 DEF RevisionNumbers, SubmissionChecks
  <2>2. CASE WithStatus("approved") # {}
    BY <2>2, LatestHasStatus DEF IInv, RevisionNumbers, Sound
  <2> QED BY <2>1, <2>2
<1>3. ok \in BOOLEAN /\ (ok => tender.approval = "approved")
  BY DEF SubmissionChecks
<1> HIDE DEF n, ok
<1>4. what \in TenderRequests
  BY <1>2, <1>3 DEF TenderRequests
<1>5. /\ request' \in [Users -> {Idle} \cup EstimateRequests \cup TenderRequests]
      /\ \A v \in Users: v # u => request'[v] = request[v]
      /\ request'[u] = what
  BY <1>1, <1>4, ReadKeeps DEF IInv, n, ok
<1>6. RequestIsSound(u)'
  <2>1. request'[u].op = "record" /\ request'[u].revision = n /\ request'[u].ok = ok
    BY <1>5
  <2>2. \A v \in Users: request'[v].op = "record" => v = u
    BY <1>5 DEF ReadForSubmission, Locked
  <2>3. UNCHANGED <<revisions, tender>> /\ tender.stage = "approval"
    BY DEF ReadForSubmission, tenderVars
  <2> QED BY <1>2, <1>3, <2>1, <2>2, <2>3 DEF RequestIsSound, Sound
<1> QED BY <1>5, <1>6, RequestAlone DEF ReadForSubmission

\* Recording a submission finds the approvals as they were read.
LEMMA RecordSubmissionKeeps ==
  ASSUME IInv, NEW u \in Users, RecordSubmission(u)
  PROVE  IInv' /\ (tender.stage \in Closed => UNCHANGED tender)
<1> DEFINE q == request[u]
<1>1. /\ q.op = "record" /\ q.revision \in RevisionNumbers /\ q.ok \in BOOLEAN
      /\ tender.stage = "approval" /\ tender \in Tenders
      /\ q.revision # 0 => Sound(q.revision)
      /\ q.ok => q.revision # 0 /\ tender.approval = "approved"
      /\ \A v \in Users: request[v].op = "record" => v = u
  BY RequestFields DEF RecordSubmission, IInv, TypeOK, RequestsAreSound, RequestIsSound
<1>2. /\ request' \in [Users -> {Idle} \cup EstimateRequests \cup TenderRequests]
      /\ \A v \in Users: v # u => request'[v] = request[v]
      /\ request'[u].op = "idle"
  BY AnswerKeeps DEF RecordSubmission, IInv
<1>3. CASE UNCHANGED tender
  <2>1. RequestIsSound(u)'
    BY <1>2 DEF RequestIsSound
  <2> QED BY <1>1, <1>2, <1>3, <2>1, RequestAlone DEF RecordSubmission, tenderVars
<1>4. CASE tender' = [tender EXCEPT !.stage = "submitted", !.override = ~q.ok,
                                    !.revision = q.revision]
  <2>1. tender' \in Tenders
    BY <1>1, <1>4 DEF Tenders, Stages
  <2>2. /\ tender'.stage = "submitted" /\ tender'.override = ~q.ok
        /\ tender'.revision = q.revision /\ tender'.approval = tender.approval
    BY <1>1, <1>4 DEF Tenders
  <2>3. UNCHANGED <<estimate, revisions, clock, opportunity, repriced, projects, projectsOn>>
    BY DEF RecordSubmission
  <2>4. TypeOK'
    BY <1>2, <2>1, <2>3 DEF IInv, TypeOK, EstimateTypes
  <2>5. RequestsAreSound'
    <3> SUFFICES ASSUME NEW v \in Users
                 PROVE  RequestIsSound(v)'
      BY DEF RequestsAreSound
    <3>1. request'[v].op # "record"
      BY <1>1, <1>2
    <3>2. CASE v = u
      BY <1>2, <3>2 DEF RequestIsSound
    <3>3. CASE v # u
      BY <1>2, <2>3, <3>1, <3>3 DEF IInv, RequestsAreSound, RequestIsSound, Sound
    <3> QED BY <3>2, <3>3
  <2>6. AtMostOneApproved' /\ BaselineIsApprovedRevision' /\ AwardIsOne'
    BY <2>2, <2>3
    DEF IInv, AtMostOneApproved, WithStatus, BaselineIsApprovedRevision, AwardIsOne
  <2>7. SubmissionIsApproved'
    BY <1>1, <2>2, <2>3 DEF SubmissionIsApproved, Sound
  <2> QED BY <1>1, <2>4, <2>5, <2>6, <2>7 DEF IInv, Closed
<1> QED BY <1>3, <1>4 DEF RecordSubmission

\* An award reads a revision that was approved.
LEMMA ReadForAwardKeeps ==
  ASSUME IInv, NEW u \in Users, ReadForAward(u)
  PROVE  IInv'
<1> DEFINE n == LatestWith("approved")
           what == [op |-> "award", revision |-> n, data |-> revisions[n].data,
                    current |-> estimate.data]
<1>1. Sound(n) /\ n \in 1..MaxRevisions
  BY LatestHasStatus DEF IInv, ReadForAward, Sound
<1>2. Read(u, what)
  BY DEF ReadForAward
<1> HIDE DEF n
<1>3. revisions[n].data \in Contents /\ estimate.data \in Contents
  <2>1. estimate \in Estimates /\ revisions \in Seq(Revisions) /\ n \in DOMAIN revisions
    BY <1>1 DEF IInv, TypeOK, EstimateTypes, Sound
  <2>2. revisions[n] \in Revisions
    BY <2>1
  <2> QED BY <2>1, <2>2 DEF Revisions, Estimates
<1>4. what \in TenderRequests
  BY <1>1, <1>3 DEF TenderRequests
<1>5. /\ request' \in [Users -> {Idle} \cup EstimateRequests \cup TenderRequests]
      /\ \A v \in Users: v # u => request'[v] = request[v]
      /\ request'[u] = what
  BY <1>2, <1>4, ReadKeeps DEF IInv
<1>6. RequestIsSound(u)'
  <2>1. /\ request'[u].op = "award" /\ request'[u].revision = n
        /\ request'[u].data = revisions[n].data
    BY <1>5
  <2> QED BY <1>1, <2>1 DEF RequestIsSound, Sound, ReadForAward
<1> QED BY <1>5, <1>6, RequestAlone DEF ReadForAward

\* The batch of an award, with a project or without.
LEMMA AwardKeeps ==
  ASSUME IInv, NEW u \in Users, RecordAward(u) \/ CreateProject(u)
  PROVE  IInv' /\ (tender.stage \in Closed => UNCHANGED tender)
<1> DEFINE q == request[u]
           p == IF projectsOn THEN 1 ELSE 0
<1>1. /\ q.op = "award" /\ ~Locked /\ AwardTender(q.revision, p) /\ Answer(u)
      /\ UNCHANGED <<revisions, clock, repriced, projectsOn>>
      /\ projectsOn => projects = <<>> /\ projects' = <<[revision |-> q.revision, data |-> q.data]>>
      /\ ~projectsOn => UNCHANGED projects
  BY DEF RecordAward, CreateProject
<1>2. /\ q.revision \in 1..MaxRevisions /\ q.data \in Contents /\ q.current \in Contents
      /\ Sound(q.revision) /\ revisions[q.revision].data = q.data
  BY <1>1, RequestFields DEF IInv, RequestsAreSound, RequestIsSound
<1>3. estimate' \in Estimates
  <2>1. estimate \in Estimates
    BY DEF IInv, TypeOK, EstimateTypes
  <2> QED BY <1>2, <2>1 DEF RecordAward, CreateProject, Estimates
<1>4. tender \in Tenders /\ projectsOn \in BOOLEAN /\ p \in {0, 1}
  BY DEF IInv, TypeOK
<1> HIDE DEF p
<1>5. /\ opportunity' = "won"
      /\ \/ /\ tender.stage \in Awardable
            /\ tender' \in Tenders /\ tender'.stage = "awarded"
            /\ tender'.revision = q.revision /\ tender'.project = p
         \/ tender.stage \notin Awardable /\ UNCHANGED tender
  <2>1. CASE tender.stage \in Awardable
    <3>1. tender' = [tender EXCEPT !.stage = "awarded", !.revision = q.revision, !.project = p]
      BY <1>1, <2>1 DEF AwardTender
    <3>2. q.revision \in RevisionNumbers
      BY <1>2 DEF RevisionNumbers
    <3>3. tender' \in Tenders
      BY <1>4, <3>1, <3>2 DEF Tenders, Stages
    <3>4. tender'.stage = "awarded" /\ tender'.revision = q.revision /\ tender'.project = p
      BY <1>4, <3>1 DEF Tenders
    <3> QED BY <1>1, <2>1, <3>3, <3>4 DEF AwardTender
  <2>2. CASE tender.stage \notin Awardable
    BY <1>1, <2>2 DEF AwardTender
  <2> QED BY <2>1, <2>2
<1>6. projects' \in Seq(Projects)
  <2>1. [revision |-> q.revision, data |-> q.data] \in Projects
    BY <1>2 DEF Projects
  <2>2. <<[revision |-> q.revision, data |-> q.data]>> \in Seq(Projects)
    BY <2>1
  <2>3. projects \in Seq(Projects)
    BY DEF IInv, TypeOK
  <2> HIDE DEF q
  <2> QED BY <1>1, <1>4, <2>2, <2>3
<1>7. /\ request' \in [Users -> {Idle} \cup EstimateRequests \cup TenderRequests]
      /\ \A v \in Users: v # u => request'[v] = request[v]
      /\ request'[u].op = "idle"
  BY <1>1, AnswerKeeps DEF IInv
<1>8. TypeOK'
  BY <1>1, <1>3, <1>4, <1>5, <1>6, <1>7 DEF IInv, TypeOK, EstimateTypes
<1>9. RequestsAreSound'
  <2> SUFFICES ASSUME NEW v \in Users
               PROVE  RequestIsSound(v)'
    BY DEF RequestsAreSound
  <2>1. CASE v = u
    BY <1>7, <2>1 DEF RequestIsSound
  <2>2. CASE v # u
    <3>1. request'[v] = request[v] /\ request[v].op # "record"
      BY <1>1, <1>7, <2>2 DEF Locked
    <3> QED BY <1>1, <3>1 DEF IInv, RequestsAreSound, RequestIsSound, Sound
  <2> QED BY <2>1, <2>2
<1>10. AtMostOneApproved'
  BY <1>1 DEF IInv, AtMostOneApproved, WithStatus
<1>11. BaselineIsApprovedRevision'
  <2>1. CASE projectsOn
    <3>1. projects' = <<[revision |-> q.revision, data |-> q.data]>>
      BY <1>1, <2>1
    <3>2. /\ DOMAIN projects' = {1} /\ projects'[1].revision = q.revision
          /\ projects'[1].data = q.data
      BY <3>1
    <3> QED BY <1>1, <1>2, <3>2 DEF BaselineIsApprovedRevision, Sound
  <2>2. CASE ~projectsOn
    BY <1>1, <2>2 DEF IInv, BaselineIsApprovedRevision
  <2> QED BY <2>1, <2>2
<1>12. AwardIsOne'
  <2>1. CASE projectsOn
    <3>1. projects' = <<[revision |-> q.revision, data |-> q.data]>> /\ projects = <<>>
      BY <1>1, <2>1
    <3>2. Len(projects') = 1 /\ projects' # <<>> /\ projects'[1].revision = q.revision
      BY <3>1
    <3>3. tender.stage # "awarded"
      BY <2>1, <3>1 DEF IInv, AwardIsOne
    <3> QED BY <1>5, <2>1, <3>2, <3>3 DEF AwardIsOne, p
  <2>2. CASE ~projectsOn
    BY <1>1, <1>5, <2>2 DEF IInv, AwardIsOne
  <2> QED BY <2>1, <2>2
<1>13. SubmissionIsApproved'
  BY <1>1, <1>2, <1>5 DEF IInv, SubmissionIsApproved, Sound, Awardable
<1>14. tender.stage \in Closed => UNCHANGED tender
  BY <1>5 DEF Closed, Awardable
<1> QED BY <1>8, <1>9, <1>10, <1>11, <1>12, <1>13, <1>14 DEF IInv

-----------------------------------------------------------------------------
(* Theorems                                                                 *)

\* Every step keeps the invariant.
LEMMA StepKeeps ==
  ASSUME IInv, [Next]_vars
  PROVE  IInv' /\ Grown /\ (tender.stage \in Closed => UNCHANGED tender)
<1>1. CASE EstimateNext /\ UNCHANGED tenderVars
  BY <1>1, EstimateStepKeeps DEF tenderVars
<1>2. CASE TenderStep
  BY <1>2, TenderStepKeeps, SameRevisions
<1>3. ASSUME NEW u \in Users, AwardStep(u)
      PROVE  IInv' /\ Grown /\ (tender.stage \in Closed => UNCHANGED tender)
  <2>1. UNCHANGED revisions
    BY <1>3 DEF AwardStep, ReadForSubmission, RecordSubmission, ReadForAward, RecordAward,
       CreateProject
  <2>2. (ReadForSubmission(u) \/ ReadForAward(u)) => UNCHANGED tender
    BY DEF ReadForSubmission, ReadForAward, tenderVars
  <2> QED
    BY <1>3, <2>1, <2>2, SameRevisions, ReadForSubmissionKeeps, RecordSubmissionKeeps,
       ReadForAwardKeeps, AwardKeeps
    DEF AwardStep
<1>4. CASE UNCHANGED vars
  BY <1>4
  DEF vars, estimateVars, tenderVars, IInv, TypeOK, EstimateTypes, RequestsAreSound,
      RequestIsSound, Sound, AtMostOneApproved, WithStatus, BaselineIsApprovedRevision,
      AwardIsOne, SubmissionIsApproved, Grown
<1> QED BY <1>1, <1>2, <1>3, <1>4 DEF Next

\* The invariant holds of a new tender.
LEMMA InitHolds == Init => IInv
<1> SUFFICES ASSUME Init PROVE IInv
  OBVIOUS
<1>1. revisions = <<>> /\ projects = <<>> /\ tender.stage = "draft" /\ tender.revision = 0
  BY DEF Init, EstimateInit
<1>2. \A u \in Users: request[u] = Idle /\ request[u].op = "idle"
  BY DEF Init, EstimateInit, Idle
<1>3. TypeOK
  BY DEF Init, EstimateInit, TypeOK, EstimateTypes, Estimates, RevisionNumbers, Tenders,
     Stages, Times
<1> QED
  BY <1>1, <1>2, <1>3
  DEF IInv, RequestsAreSound, RequestIsSound, AtMostOneApproved, WithStatus,
      BaselineIsApprovedRevision, AwardIsOne, SubmissionIsApproved, Awardable

\* The inductive invariant holds in every state.
LEMMA Invariance == Spec => []IInv
BY InitHolds, StepKeeps, PTL DEF Spec

\* Every state has the declared types.
THEOREM TypeCorrect == Spec => []TypeOK
<1>1. IInv => TypeOK
  BY DEF IInv
<1> QED BY <1>1, Invariance, PTL

\* However requests race, an estimate has at most one approved revision.
THEOREM OneApproved == Spec => []AtMostOneApproved
<1>1. IInv => AtMostOneApproved
  BY DEF IInv
<1> QED BY <1>1, Invariance, PTL

\* A project's baseline is an approved revision, with what it froze.
THEOREM BaselinesAreApproved == Spec => []BaselineIsApprovedRevision
<1>1. IInv => BaselineIsApprovedRevision
  BY DEF IInv
<1> QED BY <1>1, Invariance, PTL

\* One project at most, and an awarded tender names it and its revision.
THEOREM OneAward == Spec => []AwardIsOne
<1>1. IInv => AwardIsOne
  BY DEF IInv
<1> QED BY <1>1, Invariance, PTL

\* A tender submitted without an override has its approvals.
THEOREM SubmissionsAreApproved == Spec => []SubmissionIsApproved
<1>1. IInv => SubmissionIsApproved
  BY DEF IInv
<1> QED BY <1>1, Invariance, PTL

\* A revision is decided once and never rewritten.
THEOREM DecisionsAreFinal == Spec => DecidedOnce
<1>1. IInv /\ [Next]_vars => Grown
  BY StepKeeps
<1>2. Grown => [Grown]_revisions
  OBVIOUS
<1> QED BY <1>1, <1>2, Invariance, PTL DEF Spec, DecidedOnce, Grown

\* A tender that was awarded or lost does not change any more.
THEOREM OutcomesAreFinal == Spec => OutcomeIsFinal
<1>1. IInv /\ [Next]_vars => (tender.stage \in Closed => UNCHANGED tender)
  BY StepKeeps
<1> QED BY <1>1, Invariance, PTL DEF Spec, OutcomeIsFinal
=============================================================================
