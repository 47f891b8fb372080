---------------------------- MODULE SumTheorems ----------------------------
(***************************************************************************)
(* Sums of integers over finite sets, as the models add up the lines of a  *)
(* claim, the claims of a project and the rows of a ledger: what the fold  *)
(* SumFunctionOnSet of the community modules is known to do.  Induction is *)
(* said of sets (of numbers, of subsets), which the provers can use.       *)
(***************************************************************************)
EXTENDS Integers, FiniteSetsExt, FiniteSetTheorems, WellFoundedInduction, TLAPS

-----------------------------------------------------------------------------
(* Induction                                                                *)

\* Of natural numbers there is a smallest.
LEMMA SmallestOf ==
  ASSUME NEW T \in SUBSET Nat, T # {}
  PROVE  \E n \in T: \A m \in T: n <= m
<1> DEFINE R == OpToRel(<, Nat)
<1>1. IsWellFoundedOn(R, Nat)
  BY NatLessThanWellFounded
<1>2. \A x, y \in Nat: <<y, x>> \in R <=> y < x
  BY DEF OpToRel
<1> HIDE DEF R
<1>3. \E x \in T: \A y \in T: ~ (<<y, x>> \in R)
  BY <1>1, WFMin
<1>4. PICK x \in T: \A y \in T: ~ (<<y, x>> \in R)
  BY <1>3
<1>5. ASSUME NEW y \in T PROVE x <= y
  <2>1. ~ (y < x)
    BY <1>2, <1>4
  <2>. QED BY <2>1
<1>. QED BY <1>5

\* Induction, said of a set of natural numbers.
LEMMA NatSetInduction ==
  ASSUME NEW T \in SUBSET Nat, 0 \in T, \A n \in T: n + 1 \in T
  PROVE  T = Nat
<1> SUFFICES ASSUME T # Nat PROVE FALSE
  OBVIOUS
<1>1. PICK n \in Nat \ T: \A m \in Nat \ T: n <= m
  BY SmallestOf
<1>. QED BY <1>1, n - 1 \in Nat

\* Induction over the subsets of a finite set.
LEMMA SubsetInduction ==
  ASSUME NEW S, IsFiniteSet(S), NEW T \in SUBSET SUBSET S,
         \A U \in SUBSET S: (\A x \in U: U \ {x} \in T) => U \in T
  PROVE  T = SUBSET S
<1> DEFINE N == {n \in Nat: \A U \in SUBSET S: Cardinality(U) = n => U \in T}
<1>1. \A U \in SUBSET S: IsFiniteSet(U) /\ Cardinality(U) \in Nat
  BY FS_Subset, FS_CardinalityType
<1>2. N \in SUBSET Nat
  OBVIOUS
<1>3. 0 \in N
  BY <1>1, FS_EmptySet
<1>4. ASSUME NEW n \in N PROVE n + 1 \in N
  <2> SUFFICES ASSUME NEW U \in SUBSET S, Cardinality(U) = n + 1
               PROVE  U \in T
    OBVIOUS
  <2>1. ASSUME NEW x \in U PROVE U \ {x} \in T
    <3>1. Cardinality(U \ {x}) = Cardinality(U) - 1
      BY <1>1, FS_RemoveElement
    <3>2. Cardinality(U \ {x}) = n /\ U \ {x} \in SUBSET S
      BY <3>1
    <3>. QED BY <3>2
  <2>. QED BY <2>1
<1>5. N = Nat
  <2> HIDE DEF N
  <2>. QED BY <1>2, <1>3, <1>4, NatSetInduction
<1>. QED BY <1>1, <1>5

-----------------------------------------------------------------------------
\* The element a sum adds first, and the function that adds up.
First(s) == CHOOSE x \in s: TRUE
AddsUp(g, fun, U) ==
  g = [s \in U |-> IF s = {} THEN 0 ELSE fun[First(s)] + g[s \ {First(s)}]]

\* A sum is the value of such a function, if there is one.
LEMMA SumAddsUp ==
  ASSUME NEW fun, NEW S, \E g: AddsUp(g, fun, SUBSET S)
  PROVE  \E g: AddsUp(g, fun, SUBSET S) /\ SumFunctionOnSet(fun, S) = g[S]
BY DEF SumFunctionOnSet, FoldFunctionOnSet, MapThenFoldSet, AddsUp, First

\* And there is one, over the subsets of a finite set.
LEMMA SumExists ==
  ASSUME NEW fun, NEW S, IsFiniteSet(S)
  PROVE  \E g: AddsUp(g, fun, SUBSET S)
<1> DEFINE Level(n) == {U \in SUBSET S: Cardinality(U) <= n}
           N == {n \in Nat: \E g: AddsUp(g, fun, Level(n))}
<1>1. \A U \in SUBSET S: IsFiniteSet(U) /\ Cardinality(U) \in Nat
  BY FS_Subset, FS_CardinalityType
<1>2. 0 \in N
  <2> DEFINE g == [s \in Level(0) |-> 0]
  <2>1. \A s \in Level(0): s = {}
    BY <1>1, FS_EmptySet
  <2>2. AddsUp(g, fun, Level(0))
    BY <2>1 DEF AddsUp
  <2>. QED BY <2>2
<1>3. ASSUME NEW n \in N PROVE n + 1 \in N
  <2>1. PICK g: AddsUp(g, fun, Level(n))
    OBVIOUS
  <2> DEFINE h == [s \in Level(n + 1) |-> IF s = {} THEN 0 ELSE fun[First(s)] + g[s \ {First(s)}]]
  <2>2. ASSUME NEW s \in Level(n + 1), s # {}
        PROVE  /\ s \ {First(s)} \in Level(n)
               /\ s \ {First(s)} \in Level(n + 1)
    <3>1. First(s) \in s
      BY <2>2 DEF First
    <3>2. Cardinality(s \ {First(s)}) = Cardinality(s) - 1
      BY <1>1, <3>1, FS_RemoveElement
    <3>3. s \ {First(s)} \in SUBSET S /\ Cardinality(s) \in Nat /\ Cardinality(s) <= n + 1
      BY <1>1
    <3>. QED BY <3>2, <3>3
  <2>3. \A s \in Level(n): s \in Level(n + 1)
    BY <1>1
  <2>4. \A s \in Level(n): h[s] = g[s]
    BY <2>1, <2>3 DEF AddsUp
  <2>5. AddsUp(h, fun, Level(n + 1))
    BY <2>2, <2>4 DEF AddsUp
  <2> HIDE DEF h, Level
  <2>. QED BY <2>5
<1>4. N = Nat
  <2> HIDE DEF N
  <2>1. N \in SUBSET Nat BY DEF N
  <2>. QED BY <1>2, <1>3, <2>1, NatSetInduction
<1>5. Level(Cardinality(S)) = SUBSET S /\ Cardinality(S) \in Nat
  BY FS_Subset, FS_CardinalityType
<1>6. \E g: AddsUp(g, fun, Level(Cardinality(S)))
  <2> HIDE DEF Level
  <2>. QED BY <1>4, <1>5
<1>. QED BY <1>5, <1>6

-----------------------------------------------------------------------------
(* Sums                                                                     *)

\* Functions that add up agree where both are defined.
LEMMA AddUpAgree ==
  ASSUME NEW fun, NEW S, NEW U, NEW g, NEW h, IsFiniteSet(U), U \subseteq S,
         AddsUp(g, fun, SUBSET S), AddsUp(h, fun, SUBSET U)
  PROVE  g[U] = h[U]
<1> DEFINE T == {V \in SUBSET U: g[V] = h[V]}
<1>1. ASSUME NEW V \in SUBSET U, \A x \in V: V \ {x} \in T PROVE V \in T
  <2>1. CASE V = {}
    BY <2>1 DEF AddsUp
  <2>2. CASE V # {}
    <3>1. First(V) \in V
      BY <2>2 DEF First
    <3>2. g[V \ {First(V)}] = h[V \ {First(V)}]
      BY <1>1, <3>1
    <3>3. /\ g[V] = fun[First(V)] + g[V \ {First(V)}]
          /\ h[V] = fun[First(V)] + h[V \ {First(V)}]
      BY <2>2 DEF AddsUp
    <3>. QED BY <3>2, <3>3
  <2>. QED BY <2>1, <2>2
<1>2. IsFiniteSet(U) /\ T \in SUBSET SUBSET U
  BY FS_Subset
<1>3. T = SUBSET U
  <2> HIDE DEF T
  <2>. QED BY <1>1, <1>2, SubsetInduction
<1>. QED BY <1>3

\* One function adds up to the sums over every subset.
LEMMA SumsOfSubsets ==
  ASSUME NEW fun, NEW S, IsFiniteSet(S)
  PROVE  \E g: /\ AddsUp(g, fun, SUBSET S)
               /\ \A U \in SUBSET S: SumFunctionOnSet(fun, U) = g[U]
<1>1. PICK g: AddsUp(g, fun, SUBSET S)
  BY SumExists
<1>2. ASSUME NEW U \in SUBSET S PROVE SumFunctionOnSet(fun, U) = g[U]
  <2>1. IsFiniteSet(U)
    BY FS_Subset
  <2>2. PICK h: AddsUp(h, fun, SUBSET U) /\ SumFunctionOnSet(fun, U) = h[U]
    BY <2>1, SumExists, SumAddsUp
  <2>3. g[U] = h[U]
    <3>1. AddsUp(g, fun, SUBSET S) /\ AddsUp(h, fun, SUBSET U) /\ U \subseteq S
      BY <1>1, <2>2
    <3>. QED BY <2>1, <3>1, AddUpAgree
  <2>. QED BY <2>2, <2>3
<1>. QED BY <1>1, <1>2

\* A sum over nothing is 0, and any other is its first element and the rest.
LEMMA SumUnfolds ==
  ASSUME NEW fun, NEW S, IsFiniteSet(S)
  PROVE  SumFunctionOnSet(fun, S) =
           IF S = {} THEN 0 ELSE fun[First(S)] + SumFunctionOnSet(fun, S \ {First(S)})
<1>1. PICK g: /\ AddsUp(g, fun, SUBSET S)
              /\ \A U \in SUBSET S: SumFunctionOnSet(fun, U) = g[U]
  BY SumsOfSubsets
<1>2. g[S] = IF S = {} THEN 0 ELSE fun[First(S)] + g[S \ {First(S)}]
  BY <1>1 DEF AddsUp
<1>3. SumFunctionOnSet(fun, S) = g[S] /\ SumFunctionOnSet(fun, S \ {First(S)}) = g[S \ {First(S)}]
  BY <1>1
<1>. QED BY <1>2, <1>3

\* A sum over nothing is 0.
THEOREM SumOfNone == \A fun: SumFunctionOnSet(fun, {}) = 0
BY SumUnfolds, FS_EmptySet

\* The sum of a function is the one over its domain.
THEOREM SumOverDomain == \A fun: SumFunction(fun) = SumFunctionOnSet(fun, DOMAIN fun)
BY DEF SumFunction, SumFunctionOnSet, FoldFunction

\* A sum of integers is one.
THEOREM SumIsInt ==
  ASSUME NEW fun, NEW S, IsFiniteSet(S), \A x \in S: fun[x] \in Int
  PROVE  SumFunctionOnSet(fun, S) \in Int
<1> DEFINE T == {U \in SUBSET S: SumFunctionOnSet(fun, U) \in Int}
<1>1. ASSUME NEW U \in SUBSET S, \A x \in U: U \ {x} \in T PROVE U \in T
  <2>1. SumFunctionOnSet(fun, U) =
          IF U = {} THEN 0 ELSE fun[First(U)] + SumFunctionOnSet(fun, U \ {First(U)})
    BY SumUnfolds, FS_Subset
  <2>2. CASE U = {}
    BY <2>1, <2>2
  <2>3. CASE U # {}
    <3>1. First(U) \in U
      BY <2>3 DEF First
    <3>. QED BY <1>1, <2>1, <2>3, <3>1
  <2>. QED BY <2>2, <2>3
<1>2. T = SUBSET S
  <2>1. T \in SUBSET SUBSET S
    OBVIOUS
  <2> HIDE DEF T
  <2>. QED BY <1>1, <2>1, SubsetInduction
<1>. QED BY <1>2

\* And of natural numbers too.
THEOREM SumIsNat ==
  ASSUME NEW fun, NEW S, IsFiniteSet(S), \A x \in S: fun[x] \in Nat
  PROVE  SumFunctionOnSet(fun, S) \in Nat
<1> DEFINE T == {U \in SUBSET S: SumFunctionOnSet(fun, U) \in Nat}
<1>1. ASSUME NEW U \in SUBSET S, \A x \in U: U \ {x} \in T PROVE U \in T
  <2>1. SumFunctionOnSet(fun, U) =
          IF U = {} THEN 0 ELSE fun[First(U)] + SumFunctionOnSet(fun, U \ {First(U)})
    BY SumUnfolds, FS_Subset
  <2>2. CASE U = {}
    BY <2>1, <2>2
  <2>3. CASE U # {}
    <3>1. First(U) \in U
      BY <2>3 DEF First
    <3>. QED BY <1>1, <2>1, <2>3, <3>1
  <2>. QED BY <2>2, <2>3
<1>2. T = SUBSET S
  <2>1. T \in SUBSET SUBSET S
    OBVIOUS
  <2> HIDE DEF T
  <2>. QED BY <1>1, <2>1, SubsetInduction
<1>. QED BY <1>2

\* Any element may be added last.
THEOREM SumTakesAny ==
  ASSUME NEW fun, NEW S, IsFiniteSet(S), \A x \in S: fun[x] \in Int
  PROVE  \A x \in S: SumFunctionOnSet(fun, S) = fun[x] + SumFunctionOnSet(fun, S \ {x})
<1> DEFINE T == {U \in SUBSET S: \A x \in U:
                   SumFunctionOnSet(fun, U) = fun[x] + SumFunctionOnSet(fun, U \ {x})}
<1>1. ASSUME NEW U \in SUBSET S PROVE IsFiniteSet(U) /\ SumFunctionOnSet(fun, U) \in Int
  BY SumIsInt, FS_Subset
<1>2. ASSUME NEW U \in SUBSET S, \A x \in U: U \ {x} \in T PROVE U \in T
  <2> SUFFICES ASSUME NEW x \in U
               PROVE  SumFunctionOnSet(fun, U) = fun[x] + SumFunctionOnSet(fun, U \ {x})
    OBVIOUS
  <2> DEFINE y == First(U)
  <2>1. y \in U
    BY DEF First
  <2>2. SumFunctionOnSet(fun, U) = fun[y] + SumFunctionOnSet(fun, U \ {y})
    BY <1>1, SumUnfolds
  <2> HIDE DEF y
  <2>3. CASE x = y
    BY <2>2, <2>3
  <2>4. CASE x # y
    <3>1. U \ {y} \in T /\ x \in U \ {y}
      BY <1>2, <2>1, <2>4
    <3>2. U \ {x} \in T /\ y \in U \ {x}
      BY <1>2, <2>1, <2>4
    <3>3. (U \ {y}) \ {x} = (U \ {x}) \ {y} /\ (U \ {x}) \ {y} \in SUBSET S
      OBVIOUS
    <3>4. SumFunctionOnSet(fun, U \ {y}) = fun[x] + SumFunctionOnSet(fun, (U \ {y}) \ {x})
      BY <3>1
    <3>5. SumFunctionOnSet(fun, U \ {x}) = fun[y] + SumFunctionOnSet(fun, (U \ {x}) \ {y})
      BY <3>2
    <3>6. SumFunctionOnSet(fun, (U \ {x}) \ {y}) \in Int /\ fun[x] \in Int /\ fun[y] \in Int
      BY <1>1, <2>1, <3>3
    <3>7. SumFunctionOnSet(fun, (U \ {y}) \ {x}) = SumFunctionOnSet(fun, (U \ {x}) \ {y})
      BY <3>3
    <3>. QED BY <2>2, <3>4, <3>5, <3>6, <3>7
  <2>. QED BY <2>3, <2>4
<1>3. T = SUBSET S
  <2>1. T \in SUBSET SUBSET S
    OBVIOUS
  <2> HIDE DEF T
  <2>. QED BY <1>2, <2>1, SubsetInduction
<1>. QED BY <1>3

\* A sum depends on the summands only.
THEOREM SumsAgree ==
  ASSUME NEW f, NEW g, NEW S, IsFiniteSet(S), \A x \in S: f[x] = g[x]
  PROVE  SumFunctionOnSet(f, S) = SumFunctionOnSet(g, S)
<1> DEFINE T == {U \in SUBSET S: SumFunctionOnSet(f, U) = SumFunctionOnSet(g, U)}
<1>1. ASSUME NEW U \in SUBSET S, \A x \in U: U \ {x} \in T PROVE U \in T
  <2>1. IsFiniteSet(U)
    BY FS_Subset
  <2>2. CASE U = {}
    BY <2>2, SumOfNone
  <2>3. CASE U # {}
    <3>1. First(U) \in U /\ First(U) \in S
      BY <2>3 DEF First
    <3>2. SumFunctionOnSet(f, U \ {First(U)}) = SumFunctionOnSet(g, U \ {First(U)})
      BY <1>1, <3>1
    <3>3. SumFunctionOnSet(f, U) = f[First(U)] + SumFunctionOnSet(f, U \ {First(U)})
      BY <2>1, <2>3, SumUnfolds
    <3>4. SumFunctionOnSet(g, U) = g[First(U)] + SumFunctionOnSet(g, U \ {First(U)})
      BY <2>1, <2>3, SumUnfolds
    <3>. QED BY <3>1, <3>2, <3>3, <3>4
  <2>. QED BY <2>2, <2>3
<1>2. T = SUBSET S
  <2>1. T \in SUBSET SUBSET S
    OBVIOUS
  <2> HIDE DEF T
  <2>. QED BY <1>1, <2>1, SubsetInduction
<1>. QED BY <1>2

\* Summands that are 0 do not count.
THEOREM SumOfZeros ==
  ASSUME NEW fun, NEW S, IsFiniteSet(S), \A x \in S: fun[x] = 0
  PROVE  SumFunctionOnSet(fun, S) = 0
<1> DEFINE T == {U \in SUBSET S: SumFunctionOnSet(fun, U) = 0}
<1>1. ASSUME NEW U \in SUBSET S, \A x \in U: U \ {x} \in T PROVE U \in T
  <2>1. IsFiniteSet(U)
    BY FS_Subset
  <2>2. CASE U = {}
    BY <2>2, SumOfNone
  <2>3. CASE U # {}
    <3>1. First(U) \in U /\ First(U) \in S
      BY <2>3 DEF First
    <3>2. SumFunctionOnSet(fun, U) = fun[First(U)] + SumFunctionOnSet(fun, U \ {First(U)})
      BY <2>1, <2>3, SumUnfolds
    <3>. QED BY <1>1, <3>1, <3>2
  <2>. QED BY <2>2, <2>3
<1>2. T = SUBSET S
  <2>1. T \in SUBSET SUBSET S
    OBVIOUS
  <2> HIDE DEF T
  <2>. QED BY <1>1, <2>1, SubsetInduction
<1>. QED BY <1>2

\* A sum over two parts is the sum of their sums.
THEOREM SumOfParts ==
  ASSUME NEW fun, NEW S, IsFiniteSet(S), \A x \in S: fun[x] \in Int, NEW P \in SUBSET S
  PROVE  SumFunctionOnSet(fun, S) = SumFunctionOnSet(fun, P) + SumFunctionOnSet(fun, S \ P)
<1> DEFINE T == {U \in SUBSET P: SumFunctionOnSet(fun, U \cup (S \ P)) =
                                  SumFunctionOnSet(fun, U) + SumFunctionOnSet(fun, S \ P)}
<1>1. ASSUME NEW U \in SUBSET S PROVE IsFiniteSet(U) /\ SumFunctionOnSet(fun, U) \in Int
  BY SumIsInt, FS_Subset
<1>2. ASSUME NEW U \in SUBSET P, \A x \in U: U \ {x} \in T PROVE U \in T
  <2>1. CASE U = {}
    BY <1>1, <2>1, SumOfNone
  <2>2. CASE U # {}
    <3>1. PICK x \in U: TRUE
      BY <2>2
    <3> DEFINE V == U \ {x}
               W == U \cup (S \ P)
    <3>2. V \in T
      BY <1>2
    <3>3. x \in W /\ W \in SUBSET S /\ W \ {x} = V \cup (S \ P)
      OBVIOUS
    <3>4. SumFunctionOnSet(fun, W) = fun[x] + SumFunctionOnSet(fun, W \ {x})
      BY <1>1, <3>3, SumTakesAny
    <3>5. SumFunctionOnSet(fun, U) = fun[x] + SumFunctionOnSet(fun, V)
      BY <1>1, SumTakesAny
    <3>6. SumFunctionOnSet(fun, V \cup (S \ P)) =
            SumFunctionOnSet(fun, V) + SumFunctionOnSet(fun, S \ P)
      BY <3>2
    <3>7. /\ SumFunctionOnSet(fun, V) \in Int /\ SumFunctionOnSet(fun, S \ P) \in Int
          /\ fun[x] \in Int
      BY <1>1
    <3>8. SumFunctionOnSet(fun, W) =
            SumFunctionOnSet(fun, U) + SumFunctionOnSet(fun, S \ P)
      <4>1. SumFunctionOnSet(fun, W \ {x}) = SumFunctionOnSet(fun, V \cup (S \ P))
        BY <3>3
      <4> HIDE DEF V, W
      <4>. QED BY <3>4, <3>5, <3>6, <3>7, <4>1
    <3>. QED BY <3>8
  <2>. QED BY <2>1, <2>2
<1>3. T = SUBSET P
  <2>1. T \in SUBSET SUBSET P /\ IsFiniteSet(P)
    BY FS_Subset
  <2> HIDE DEF T
  <2>. QED BY <1>2, <2>1, SubsetInduction
<1>4. P \cup (S \ P) = S
  OBVIOUS
<1>. QED BY <1>3, <1>4

\* Only the summands that are not 0 count.
THEOREM SumOfSome ==
  ASSUME NEW fun, NEW S, IsFiniteSet(S), \A x \in S: fun[x] \in Int,
         NEW P \in SUBSET S, \A x \in S \ P: fun[x] = 0
  PROVE  SumFunctionOnSet(fun, S) = SumFunctionOnSet(fun, P)
<1>1. IsFiniteSet(P) /\ IsFiniteSet(S \ P)
  BY FS_Subset
<1>2. SumFunctionOnSet(fun, S \ P) = 0 /\ SumFunctionOnSet(fun, P) \in Int
  BY <1>1, SumOfZeros, SumIsInt
<1>. QED BY <1>2, SumOfParts

\* The pairs of the elements of S with n.
Paired(S, n) == S \X {n}

\* A sum over the pairs of a second component is one over the first components.
THEOREM SumOverPairs ==
  ASSUME NEW S, NEW n, NEW f, NEW g, IsFiniteSet(S),
         \A x \in S: g[x] \in Int /\ f[<<x, n>>] = g[x]
  PROVE  SumFunctionOnSet(f, Paired(S, n)) = SumFunctionOnSet(g, S)
<1> DEFINE Pairs(U) == U \X {n}
           T == {U \in SUBSET S: SumFunctionOnSet(f, Pairs(U)) = SumFunctionOnSet(g, U)}
<1>1. ASSUME NEW U \in SUBSET S, \A x \in U: U \ {x} \in T PROVE U \in T
  <2>1. CASE U = {}
    <3>1. Pairs(U) = {}
      BY <2>1
    <3>. QED BY <2>1, <3>1, SumOfNone
  <2>2. ASSUME NEW x \in U PROVE SumFunctionOnSet(f, Pairs(U)) = SumFunctionOnSet(g, U)
    <3>1. IsFiniteSet(U)
      BY FS_Subset
    <3>2. IsFiniteSet(Pairs(U))
      BY <3>1, FS_Singleton, FS_Product
    <3>3. \A p \in Pairs(U): f[p] \in Int
      OBVIOUS
    <3>4. <<x, n>> \in Pairs(U) /\ Pairs(U) \ {<<x, n>>} = Pairs(U \ {x})
      OBVIOUS
    <3>5. SumFunctionOnSet(f, Pairs(U \ {x})) = SumFunctionOnSet(g, U \ {x})
      BY <1>1, <2>2
    <3>6. f[<<x, n>>] = g[x] /\ \A y \in U: g[y] \in Int
      BY <2>2
    <3> HIDE DEF Pairs, T
    <3>7. SumFunctionOnSet(f, Pairs(U)) =
            f[<<x, n>>] + SumFunctionOnSet(f, Pairs(U) \ {<<x, n>>})
      BY <3>2, <3>3, <3>4, SumTakesAny
    <3>8. SumFunctionOnSet(g, U) = g[x] + SumFunctionOnSet(g, U \ {x})
      BY <2>2, <3>1, <3>6, SumTakesAny
    <3>. QED BY <3>4, <3>5, <3>6, <3>7, <3>8
  <2>. QED BY <2>1, <2>2
<1>2. T \in SUBSET SUBSET S
  OBVIOUS
<1>3. T = SUBSET S
  <2> HIDE DEF T
  <2>. QED BY <1>1, <1>2, SubsetInduction
<1>4. S \in T
  BY <1>3
<1>. QED BY <1>4 DEF Paired

-----------------------------------------------------------------------------
(* Sums below a number                                                      *)

\* The numbers below one are finitely many.
LEMMA BelowIsFinite ==
  ASSUME NEW M \in Nat, NEW n
  PROVE  IsFiniteSet({m \in 1..M: m < n})
<1>1. IsFiniteSet(1..M)
  BY FS_Interval
<1>2. {m \in 1..M: m < n} \in SUBSET (1..M)
  OBVIOUS
<1>. QED BY <1>1, <1>2, FS_Subset

\* The sum below a number and its summand are the sum below the next.
THEOREM SumBelowNext ==
  ASSUME NEW M \in Nat, NEW f, NEW k \in 1..M, \A m \in 1..M: f[m] \in Int
  PROVE  SumFunctionOnSet(f, {m \in 1..M: m < k + 1}) =
           SumFunctionOnSet(f, {m \in 1..M: m < k}) + f[k]
<1> DEFINE S == {m \in 1..M: m < k + 1}
<1>1. IsFiniteSet(S)
  BY BelowIsFinite
<1>2. \A x \in S: f[x] \in Int
  OBVIOUS
<1>3. k \in S /\ S \ {k} = {m \in 1..M: m < k}
  OBVIOUS
<1>4. SumFunctionOnSet(f, S) = f[k] + SumFunctionOnSet(f, S \ {k})
  <2> HIDE DEF S
  <2>. QED BY <1>1, <1>2, <1>3, SumTakesAny
<1>5. IsFiniteSet(S \ {k}) /\ \A x \in S \ {k}: f[x] \in Int
  BY <1>2, <1>3, BelowIsFinite
<1>6. SumFunctionOnSet(f, S \ {k}) \in Int
  <2> HIDE DEF S
  <2>. QED BY <1>5, SumIsInt
<1>7. f[k] \in Int
  OBVIOUS
<1>. QED
  <2> HIDE DEF S
  <2>1. SumFunctionOnSet(f, S) = SumFunctionOnSet(f, S \ {k}) + f[k]
    BY <1>4, <1>6, <1>7
  <2> USE DEF S
  <2>. QED BY <1>3, <2>1

\* And below every larger one, when nothing follows.
THEOREM SumBelowLast ==
  ASSUME NEW M \in Nat, NEW f, NEW k \in 1..M, NEW n \in (k + 1)..(M + 1),
         \A m \in 1..M: f[m] \in Int /\ (m > k => f[m] = 0)
  PROVE  SumFunctionOnSet(f, {m \in 1..M: m < n}) =
           SumFunctionOnSet(f, {m \in 1..M: m < k}) + f[k]
<1> DEFINE S == {m \in 1..M: m < n}
           P == {m \in 1..M: m < k + 1}
<1>1. IsFiniteSet(S)
  BY BelowIsFinite
<1>2. \A x \in S: f[x] \in Int
  OBVIOUS
<1>3. P \in SUBSET S /\ \A x \in S \ P: f[x] = 0
  OBVIOUS
<1>4. SumFunctionOnSet(f, S) = SumFunctionOnSet(f, P)
  <2> HIDE DEF S, P
  <2>. QED BY <1>1, <1>2, <1>3, SumOfSome
<1>. QED BY <1>4, SumBelowNext

\* Sums below a number agree when the summands do.
THEOREM SumsBelowAgree ==
  ASSUME NEW M \in Nat, NEW f, NEW g, NEW n, \A m \in 1..M: m < n => f[m] = g[m]
  PROVE  SumFunctionOnSet(f, {m \in 1..M: m < n}) = SumFunctionOnSet(g, {m \in 1..M: m < n})
BY BelowIsFinite, SumsAgree

SumBelow(f, M, n) == SumFunctionOnSet(f, {m \in 1..M: m < n})

\* When the summands up to a number are those of before and those after it are
\* 0, every sum below a number stays in its range if the one at that number does.
THEOREM SumsStayInRange ==
  ASSUME NEW M \in Nat, NEW f, NEW g, NEW k \in 1..M, NEW top \in Int,
         \A m \in 1..M: /\ g[m] \in Int
                        /\ m < k => g[m] = f[m]
                        /\ m > k => g[m] = 0,
         \A n \in 1..(M + 1): SumBelow(f, M, n) \in 0..top,
         SumBelow(f, M, k) + g[k] \in 0..top
  PROVE  \A n \in 1..(M + 1):
           /\ SumBelow(g, M, n) \in 0..top
           /\ n <= k => SumBelow(g, M, n) =
                          SumBelow(f, M, n)
<1> DEFINE F(n) == SumBelow(f, M, n)
           G(n) == SumBelow(g, M, n)
<1>1. ASSUME NEW n \in 1..(M + 1), n <= k PROVE G(n) = F(n)
  <2>1. \A m \in 1..M: m < n => f[m] = g[m]
    BY <1>1
  <2>. QED BY <2>1, SumsBelowAgree DEF SumBelow
<1>2. k \in 1..(M + 1) /\ k <= k
  OBVIOUS
<1>3. ASSUME NEW n \in 1..(M + 1), ~(n <= k) PROVE G(n) = F(k) + g[k]
  <2>1. n \in (k + 1)..(M + 1)
    BY <1>3
  <2>2. \A m \in 1..M: g[m] \in Int /\ (m > k => g[m] = 0)
    OBVIOUS
  <2>3. G(n) = G(k) + g[k]
    BY <2>1, <2>2, SumBelowLast DEF SumBelow
  <2>. QED BY <1>1, <1>2, <2>3
<1>4. (\A n \in 1..(M + 1): F(n) \in 0..top) /\ F(k) + g[k] \in 0..top
  OBVIOUS
<1>5. \A n \in 1..(M + 1): G(n) \in 0..top /\ (n <= k => G(n) = F(n))
  <2> HIDE DEF F, G
  <2>. QED BY <1>1, <1>3, <1>4
<1>. QED BY <1>5
=============================================================================
