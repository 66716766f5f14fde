------------------------- MODULE ArithmeticTheorems -------------------------
(***************************************************************************)
(* Laws of the arithmetic the models are built on, for the proofs: sums    *)
(* over finite sets (books and portfolios), induction, recursion and exact *)
(* fractions (indicators and calculators).                                 *)
(***************************************************************************)
EXTENDS Functions, Rationals, NaturalsInduction, WellFoundedInduction,
        FiniteSetTheorems, TLAPS

-----------------------------------------------------------------------------
(***************************************************************************)
(* Sums.  SumFunctionOnSet adds the values of a function up in an order a  *)
(* CHOOSE decides; for a finite set of indices the order makes no          *)
(* difference.                                                             *)
(***************************************************************************)

(***************************************************************************)
(* Induction over the subsets of a finite set.  What is shown of each of   *)
(* them is that it belongs to the set G.                                   *)
(***************************************************************************)
LEMMA SubsetInduction ==
  ASSUME NEW S, IsFiniteSet(S), NEW G,
         \A T \in SUBSET S : (\A U \in SUBSET T : U # T => U \in G) => T \in G
  PROVE  \A T \in SUBSET S : T \in G
<1> DEFINE Bad == {T \in SUBSET S : T \notin G}
<1> SUFFICES ASSUME Bad # {} PROVE FALSE
  OBVIOUS
<1>1. IsWellFoundedOn(StrictSubsetOrdering(S), SUBSET S)
  <2>1. FiniteSubsetsOf(S) = SUBSET S
    BY FS_FiniteSubsetsOfFinite
  <2>2. IsWellFoundedOn(StrictSubsetOrdering(S), FiniteSubsetsOf(S))
    BY FS_StrictSubsetOrderingWellFounded
  <2>3. QED
    BY <2>1, <2>2, Zenon
<1>2. PICK T \in Bad : \A U \in Bad : ~(<<U, T>> \in StrictSubsetOrdering(S))
  <2>1. Bad \subseteq SUBSET S
    OBVIOUS
  <2> HIDE DEF Bad
  <2>2. QED
    BY <1>1, <2>1, WFMin
<1>3. ASSUME NEW U \in SUBSET T, U # T PROVE U \in G
  <2>1. U \in SUBSET S
    OBVIOUS
  <2>2. <<U, T>> \in StrictSubsetOrdering(S)
    BY <1>3, <2>1 DEF StrictSubsetOrdering
  <2>3. QED
    BY <1>2, <2>1, <2>2
<1>4. QED
  BY <1>3

Some(s) == CHOOSE x \in s : TRUE

\* g adds fun up over every subset of S.
AddsUp(g, fun, S) ==
    g = [s \in SUBSET S |-> IF s = {} THEN 0 ELSE fun[Some(s)] + g[s \ {Some(s)}]]

LEMMA SomeIn == \A s : s # {} => Some(s) \in s
  BY DEF Some

LEMMA SumByRecursion ==
  ASSUME NEW fun, NEW S
  PROVE  SumFunctionOnSet(fun, S) = (CHOOSE k : AddsUp(k, fun, S))[S]
  BY Zenon DEF SumFunctionOnSet, FoldFunctionOnSet, MapThenFoldSet, AddsUp, Some

\* Such a function is unique ...
LEMMA AddsUpUnique ==
  ASSUME NEW fun, NEW S, IsFiniteSet(S), NEW g, NEW h, NEW V, S \subseteq V,
         AddsUp(g, fun, S), AddsUp(h, fun, V)
  PROVE  \A T \in SUBSET S : g[T] = h[T]
<1> DEFINE G == {T \in SUBSET S : g[T] = h[T]}
<1>1. ASSUME NEW T \in SUBSET S, \A U \in SUBSET T : U # T => U \in G
      PROVE  T \in G
  <2>0. T \in SUBSET V
    OBVIOUS
  <2>1. /\ g[T] = IF T = {} THEN 0 ELSE fun[Some(T)] + g[T \ {Some(T)}]
        /\ h[T] = IF T = {} THEN 0 ELSE fun[Some(T)] + h[T \ {Some(T)}]
    BY <2>0, Zenon DEF AddsUp
  <2>2. CASE T = {}
    BY <2>1, <2>2
  <2>3. CASE T # {}
    <3>1. T \ {Some(T)} \in SUBSET T /\ T \ {Some(T)} # T
      BY <2>3, SomeIn
    <3>2. g[T \ {Some(T)}] = h[T \ {Some(T)}]
      BY <1>1, <3>1
    <3>3. QED
      BY <2>1, <2>3, <3>2
  <2>4. QED
    BY <2>2, <2>3
<1> HIDE DEF G
<1>2. \A T \in SUBSET S : T \in G
  BY <1>1, SubsetInduction
<1>3. QED
  BY <1>2 DEF G

\* ... and there is one.
LEMMA AddsUpExists ==
  ASSUME NEW fun, NEW S, IsFiniteSet(S) PROVE \E g : AddsUp(g, fun, S)
<1> DEFINE sum(T) == (CHOOSE k : AddsUp(k, fun, T))[T]
           G == {T \in SUBSET S : \E g : AddsUp(g, fun, T)}
<1>1. ASSUME NEW T \in SUBSET S, \A U \in SUBSET T : U # T => U \in G
      PROVE  T \in G
  <2> DEFINE g == [s \in SUBSET T |-> IF s = {} THEN 0
                                     ELSE fun[Some(s)] + sum(s \ {Some(s)})]
  <2>1. ASSUME NEW s \in SUBSET T, s # T PROVE g[s] = sum(s)
    <3> DEFINE k == CHOOSE h : AddsUp(h, fun, s)
    <3>1. AddsUp(k, fun, s)
      BY <1>1, <2>1
    <3>2. k[s] = IF s = {} THEN 0 ELSE fun[Some(s)] + k[s \ {Some(s)}]
      <4> HIDE DEF k
      <4>1. s \in SUBSET s
        OBVIOUS
      <4>2. QED
        BY <3>1, <4>1, Zenon DEF AddsUp
    <3>3. ASSUME s # {} PROVE k[s \ {Some(s)}] = sum(s \ {Some(s)})
      <4> DEFINE u == s \ {Some(s)}
                 m == CHOOSE h : AddsUp(h, fun, u)
      <4>1. u \in SUBSET T /\ u # T /\ u \subseteq s /\ IsFiniteSet(u)
        <5>1. u \in SUBSET S
          OBVIOUS
        <5>2. IsFiniteSet(u)
          BY <5>1, FS_Subset
        <5>3. QED
          BY <2>1, <3>3, <5>2, SomeIn
      <4>2. AddsUp(m, fun, u)
        <5> HIDE DEF u
        <5>1. u \in G
          BY <1>1, <4>1
        <5>2. QED
          BY <5>1
      <4> HIDE DEF m, k, u
      <4>3. m[u] = k[u]
        BY <3>1, <4>1, <4>2, AddsUpUnique
      <4>4. QED
        BY <4>3 DEF m, u
    <3>4. g[s] = IF s = {} THEN 0 ELSE fun[Some(s)] + sum(s \ {Some(s)})
      OBVIOUS
    <3>5. QED
      <4> HIDE DEF g
      <4>1. k[s] = g[s]
        BY <3>2, <3>3, <3>4
      <4>2. QED
        BY <4>1
  <2>2. \A s \in SUBSET T : s # {} => s \ {Some(s)} \in SUBSET T /\ s \ {Some(s)} # T
    BY SomeIn
  <2>3. AddsUp(g, fun, T)
    <3>1. ASSUME NEW s \in SUBSET T
          PROVE  g[s] = IF s = {} THEN 0 ELSE fun[Some(s)] + g[s \ {Some(s)}]
      <4>1. g[s] = IF s = {} THEN 0 ELSE fun[Some(s)] + sum(s \ {Some(s)})
        OBVIOUS
      <4> HIDE DEF g, sum
      <4>2. QED
        BY <2>1, <2>2, <4>1
    <3>2. g = [s \in SUBSET T |-> g[s]]
      OBVIOUS
    <3> HIDE DEF g
    <3>3. QED
      BY <3>1, <3>2, Zenon DEF AddsUp
  <2> HIDE DEF g
  <2>4. QED
    BY <2>3
<1> HIDE DEF G
<1>2. \A T \in SUBSET S : T \in G
  BY <1>1, SubsetInduction
<1>3. S \in G
  BY <1>2
<1>4. QED
  BY <1>3 DEF G

-----------------------------------------------------------------------------
LEMMA SumEmpty == ASSUME NEW fun PROVE SumFunctionOnSet(fun, {}) = 0
<1> DEFINE g == CHOOSE k : AddsUp(k, fun, {})
<1>1. AddsUp(g, fun, {})
  BY AddsUpExists, FS_EmptySet
<1>2. g[{}] = 0
  <2> HIDE DEF g
  <2>1. {} \in SUBSET {}
    OBVIOUS
  <2>2. QED
    BY <1>1, <2>1, Zenon DEF AddsUp
<1>3. QED
  BY <1>2, SumByRecursion

\* The sum as SumFunctionOnSet computes it.
LEMMA SumUnfold ==
  ASSUME NEW fun, NEW S, IsFiniteSet(S), S # {}
  PROVE  SumFunctionOnSet(fun, S) = fun[Some(S)] + SumFunctionOnSet(fun, S \ {Some(S)})
<1> DEFINE u == S \ {Some(S)}
           g == CHOOSE k : AddsUp(k, fun, S)
           h == CHOOSE k : AddsUp(k, fun, u)
<1>1. IsFiniteSet(u) /\ u \subseteq S
  BY FS_Subset
<1>2. AddsUp(g, fun, S)
  BY AddsUpExists
<1>3. AddsUp(h, fun, u)
  <2> HIDE DEF u
  <2>1. QED
    BY <1>1, AddsUpExists
<1>4. g[S] = fun[Some(S)] + g[u]
  <2>1. S \in SUBSET S
    OBVIOUS
  <2> HIDE DEF g
  <2>2. QED
    BY <1>2, <2>1, Zenon DEF AddsUp
<1>5. h[u] = g[u]
  <2> HIDE DEF g, h, u
  <2>1. QED
    BY <1>1, <1>2, <1>3, AddsUpUnique
<1>6. SumFunctionOnSet(fun, S) = g[S] /\ SumFunctionOnSet(fun, u) = h[u]
  BY SumByRecursion
<1> HIDE DEF g, h
<1>7. QED
  BY <1>4, <1>5, <1>6

LEMMA SumInt ==
  ASSUME NEW fun, NEW S, IsFiniteSet(S), \A i \in S : fun[i] \in Int
  PROVE  SumFunctionOnSet(fun, S) \in Int
<1> DEFINE G == {T \in SUBSET S : SumFunctionOnSet(fun, T) \in Int}
<1>1. ASSUME NEW T \in SUBSET S, \A U \in SUBSET T : U # T => U \in G
      PROVE  T \in G
  <2>1. CASE T = {}
    BY <2>1, SumEmpty
  <2>2. CASE T # {}
    <3>1. Some(T) \in T /\ T \ {Some(T)} \in SUBSET T /\ T \ {Some(T)} # T
      BY <2>2, SomeIn
    <3>2. SumFunctionOnSet(fun, T \ {Some(T)}) \in Int /\ fun[Some(T)] \in Int
      BY <1>1, <3>1
    <3>3. IsFiniteSet(T)
      BY FS_Subset
    <3>4. SumFunctionOnSet(fun, T) = fun[Some(T)] + SumFunctionOnSet(fun, T \ {Some(T)})
      BY <2>2, <3>3, SumUnfold
    <3>5. QED
      BY <3>2, <3>4
  <2>3. QED
    BY <2>1, <2>2
<1> HIDE DEF G
<1>2. \A T \in SUBSET S : T \in G
  BY <1>1, SubsetInduction
<1>3. QED
  BY <1>2 DEF G

\* The order does not matter: any element may be taken out of the sum.
LEMMA SumRemove ==
  ASSUME NEW fun, NEW S, IsFiniteSet(S), \A i \in S : fun[i] \in Int, NEW x \in S
  PROVE  SumFunctionOnSet(fun, S) = fun[x] + SumFunctionOnSet(fun, S \ {x})
<1> DEFINE sum(T) == SumFunctionOnSet(fun, T)
           G == {T \in SUBSET S : \A y \in T : sum(T) = fun[y] + sum(T \ {y})}
<1>0. \A T \in SUBSET S : sum(T) \in Int
  <2> SUFFICES ASSUME NEW T \in SUBSET S PROVE sum(T) \in Int
    OBVIOUS
  <2>1. IsFiniteSet(T) /\ \A i \in T : fun[i] \in Int
    BY FS_Subset
  <2>2. QED
    BY <2>1, SumInt
<1>1. ASSUME NEW T \in SUBSET S, \A U \in SUBSET T : U # T => U \in G
      PROVE  T \in G
  <2> SUFFICES ASSUME NEW y \in T PROVE sum(T) = fun[y] + sum(T \ {y})
    OBVIOUS
  <2> DEFINE c == Some(T)
             rest == T \ {c, y}
  <2>1. c \in T
    BY SomeIn
  <2>2. sum(T) = fun[c] + sum(T \ {c})
    <3>1. IsFiniteSet(T) /\ T # {}
      BY FS_Subset
    <3>2. QED
      BY <3>1, SumUnfold
  <2>3. CASE c = y
    BY <2>2, <2>3
  <2>4. CASE c # y
    <3> HIDE DEF c
    <3>1. T \ {c} \in G /\ T \ {y} \in G
      <4> HIDE DEF G
      <4>1. QED
        BY <1>1, <2>1, <2>4
    <3>2. (T \ {c}) \ {y} = rest /\ (T \ {y}) \ {c} = rest
      OBVIOUS
    <3>3. sum(T \ {c}) = fun[y] + sum(rest)
      BY <2>4, <3>1, <3>2
    <3>4. sum(T \ {y}) = fun[c] + sum(rest)
      BY <2>1, <2>4, <3>1, <3>2
    <3>5. sum(rest) \in Int /\ fun[c] \in Int /\ fun[y] \in Int
      BY <1>0, <2>1
    <3> HIDE DEF rest
    <3>6. QED
      BY <2>2, <3>3, <3>4, <3>5
  <2>5. QED
    BY <2>3, <2>4
<1>2. \A T \in SUBSET S : T \in G
  <2> HIDE DEF G
  <2>1. QED
    BY <1>1, SubsetInduction
<1>3. S \in G
  <2> HIDE DEF G
  <2>1. QED
    BY <1>2
<1>4. QED
  BY <1>3

LEMMA SumAdd ==
  ASSUME NEW fun, NEW S, IsFiniteSet(S), NEW x, x \notin S,
         \A i \in S \cup {x} : fun[i] \in Int
  PROVE  SumFunctionOnSet(fun, S \cup {x}) = fun[x] + SumFunctionOnSet(fun, S)
<1> DEFINE U == S \cup {x}
<1>1. IsFiniteSet(U) /\ x \in U /\ U \ {x} = S /\ \A i \in U : fun[i] \in Int
  BY FS_AddElement
<1> HIDE DEF U
<1>2. SumFunctionOnSet(fun, U) = fun[x] + SumFunctionOnSet(fun, U \ {x})
  BY <1>1, SumRemove
<1>3. QED
  BY <1>1, <1>2 DEF U

\* Only the values at the indices count.
LEMMA SumSame ==
  ASSUME NEW fun, NEW gun, NEW S, IsFiniteSet(S), \A i \in S : fun[i] = gun[i]
  PROVE  SumFunctionOnSet(fun, S) = SumFunctionOnSet(gun, S)
<1> DEFINE G == {T \in SUBSET S : SumFunctionOnSet(fun, T) = SumFunctionOnSet(gun, T)}
<1>1. ASSUME NEW T \in SUBSET S, \A U \in SUBSET T : U # T => U \in G
      PROVE  T \in G
  <2>1. CASE T = {}
    BY <2>1, SumEmpty
  <2>2. CASE T # {}
    <3>1. Some(T) \in T /\ T \ {Some(T)} \in SUBSET T /\ T \ {Some(T)} # T
      BY <2>2, SomeIn
    <3>2. /\ SumFunctionOnSet(fun, T \ {Some(T)}) = SumFunctionOnSet(gun, T \ {Some(T)})
          /\ fun[Some(T)] = gun[Some(T)]
      BY <1>1, <3>1
    <3>3. IsFiniteSet(T)
      BY FS_Subset
    <3>4. /\ SumFunctionOnSet(fun, T) = fun[Some(T)] + SumFunctionOnSet(fun, T \ {Some(T)})
          /\ SumFunctionOnSet(gun, T) = gun[Some(T)] + SumFunctionOnSet(gun, T \ {Some(T)})
      BY <2>2, <3>3, SumUnfold
    <3>5. QED
      BY <3>2, <3>4
  <2>3. QED
    BY <2>1, <2>2
<1> HIDE DEF G
<1>2. \A T \in SUBSET S : T \in G
  BY <1>1, SubsetInduction
<1>3. QED
  BY <1>2 DEF G

\* A part of a sum of naturals is no more than the whole.
LEMMA SumMonotone ==
  ASSUME NEW fun, NEW S, IsFiniteSet(S), \A i \in S : fun[i] \in Nat, NEW T \in SUBSET S
  PROVE  /\ SumFunctionOnSet(fun, T) \in Nat
         /\ SumFunctionOnSet(fun, T) <= SumFunctionOnSet(fun, S)
<1> DEFINE sum(U) == SumFunctionOnSet(fun, U)
           G == {U \in SUBSET S : sum(U) \in Nat /\ \A V \in SUBSET U : sum(V) <= sum(U)}
<1>0. \A U \in SUBSET S : sum(U) \in Int
  <2> SUFFICES ASSUME NEW U \in SUBSET S PROVE sum(U) \in Int
    OBVIOUS
  <2>1. IsFiniteSet(U) /\ \A i \in U : fun[i] \in Int
    BY FS_Subset
  <2>2. QED
    BY <2>1, SumInt
<1>1. ASSUME NEW U \in SUBSET S, \A V \in SUBSET U : V # U => V \in G
      PROVE  U \in G
  <2>1. \A y \in U : sum(U) = fun[y] + sum(U \ {y})
    <3>1. IsFiniteSet(U) /\ \A i \in U : fun[i] \in Int
      BY FS_Subset
    <3>2. QED
      BY <3>1, SumRemove
  <2>2. ASSUME NEW y \in U
        PROVE  sum(U \ {y}) \in Nat /\ \A V \in SUBSET (U \ {y}) : sum(V) <= sum(U \ {y})
    <3>1. U \ {y} \in G
      <4> HIDE DEF G
      <4>1. QED
        BY <1>1
    <3>2. QED
      BY <3>1
  <2>3. sum(U) \in Nat
    <3>1. CASE U = {}
      BY <3>1, SumEmpty
    <3>2. CASE U # {}
      <4>1. PICK y \in U : TRUE
        BY <3>2
      <4>2. sum(U) = fun[y] + sum(U \ {y}) /\ sum(U \ {y}) \in Nat /\ fun[y] \in Nat
        BY <2>1, <2>2
      <4>3. QED
        BY <4>2
    <3>3. QED
      BY <3>1, <3>2
  <2>4. ASSUME NEW V \in SUBSET U PROVE sum(V) <= sum(U)
    <3>0. sum(V) \in Int /\ sum(U) \in Int
      BY <1>0
    <3> HIDE DEF sum
    <3>1. CASE V = U
      BY <3>0, <3>1
    <3>2. CASE V # U
      <4>1. PICK y \in U : y \notin V
        BY <3>2
      <4>2. V \in SUBSET (U \ {y})
        BY <4>1
      <4>3. sum(V) <= sum(U \ {y}) /\ sum(U \ {y}) \in Nat /\ fun[y] \in Nat
        BY <2>2, <4>2
      <4>4. QED
        BY <2>1, <3>0, <4>3
    <3>3. QED
      BY <3>1, <3>2
  <2>5. QED
    BY <2>3, <2>4
<1>2. \A U \in SUBSET S : U \in G
  <2> HIDE DEF G
  <2>1. QED
    BY <1>1, SubsetInduction
<1>3. S \in G /\ T \in G
  <2> HIDE DEF G
  <2>1. QED
    BY <1>2
<1>4. QED
  BY <1>3

\* A sum over one more index.
LEMMA SumExtend ==
  ASSUME NEW S, IsFiniteSet(S), NEW x, x \notin S,
         NEW fun \in [S -> Int], NEW gun \in [S \cup {x} -> Int],
         \A i \in S : gun[i] = fun[i]
  PROVE  SumFunction(gun) = gun[x] + SumFunction(fun)
<1>1. SumFunctionOnSet(gun, S \cup {x}) = gun[x] + SumFunctionOnSet(gun, S)
  <2>1. \A i \in S \cup {x} : gun[i] \in Int
    OBVIOUS
  <2>2. QED
    BY <2>1, SumAdd
<1>2. SumFunctionOnSet(gun, S) = SumFunctionOnSet(fun, S)
  BY SumSame
<1>3. QED
  BY <1>1, <1>2 DEF SumFunction

LEMMA SumStep ==
  ASSUME NEW S, IsFiniteSet(S), NEW x, x \notin S, NEW T, T = S \/ T = S \cup {x},
         NEW fun \in [S -> Int], NEW gun \in [T -> Int], \A i \in S : gun[i] = fun[i]
  PROVE  /\ SumFunction(fun) \in Int
         /\ SumFunction(gun) = SumFunction(fun) + (IF x \in T THEN gun[x] ELSE 0)
<1>1. SumFunction(fun) \in Int
  <2>1. DOMAIN fun = S /\ \A i \in S : fun[i] \in Int
    OBVIOUS
  <2>2. SumFunctionOnSet(fun, S) \in Int
    BY <2>1, SumInt
  <2>3. QED
    BY <2>1, <2>2 DEF SumFunction
<1>2. CASE T = S \cup {x}
  <2>1. gun \in [S \cup {x} -> Int] /\ gun[x] \in Int /\ x \in T
    BY <1>2
  <2>2. SumFunction(gun) = gun[x] + SumFunction(fun)
    BY <2>1, SumExtend
  <2>3. QED
    BY <1>1, <2>1, <2>2
<1>3. CASE T = S
  <2>1. gun = fun
    BY <1>3
  <2>2. QED
    BY <1>1, <1>3, <2>1
<1>4. QED
  BY <1>2, <1>3

-----------------------------------------------------------------------------
(***************************************************************************)
(* Induction over the naturals, and functions defined by recursion.  What  *)
(* is shown of each number is that it belongs to a set.                    *)
(***************************************************************************)

(***************************************************************************)
(* A set of naturals that holds every number all of whose predecessors it  *)
(* holds is Nat.                                                           *)
(***************************************************************************)
LEMMA StrongInduction ==
  ASSUME NEW S, \A m \in Nat : (\A k \in 0..(m - 1) : k \in S) => m \in S
  PROVE  Nat \subseteq S
<1> DEFINE T == Nat \ S
<1> SUFFICES ASSUME T # {} PROVE FALSE
  OBVIOUS
<1>1. PICK m \in T : \A x \in T : ~(<<x, m>> \in OpToRel(<, Nat))
  <2>1. T \subseteq Nat
    OBVIOUS
  <2> HIDE DEF T
  <2> QED
    BY <2>1, NatLessThanWellFounded, WFMin
<1>2. ASSUME NEW k \in 0..(m - 1) PROVE k \in S
  <2>1. k \in Nat /\ m \in Nat /\ k < m
    OBVIOUS
  <2>2. <<k, m>> \in OpToRel(<, Nat)
    BY <2>1 DEF OpToRel
  <2>3. k \notin T
    BY <1>1, <2>2, Zenon
  <2>4. QED
    BY <2>1, <2>3
<1>3. QED
  BY <1>2

(***************************************************************************)
(* The same from a first number on, one step at a time.                    *)
(***************************************************************************)
LEMMA StepInduction ==
  ASSUME NEW p \in Int, NEW n \in Int, NEW S,
         p <= n => p \in S,
         \A i \in p..n : p < i /\ i - 1 \in S => i \in S
  PROVE  \A i \in p..n : i \in S
<1> DEFINE T == {k \in Nat : p + k <= n => p + k \in S}
<1>1. ASSUME NEW m \in Nat, \A k \in 0..(m - 1) : k \in T PROVE m \in T
  <2>1. CASE m = 0
    BY <2>1
  <2>2. CASE m > 0
    <3>1. m - 1 \in T
      BY <1>1, <2>2
    <3>2. p + (m - 1) = (p + m) - 1
      OBVIOUS
    <3>3. QED
      BY <3>1, <3>2, <2>2
  <2>3. QED
    BY <2>1, <2>2
<1>2. Nat \subseteq T
  <2> HIDE DEF T
  <2> QED
    BY <1>1, StrongInduction
<1>3. ASSUME NEW i \in p..n PROVE i \in S
  <2>1. i - p \in Nat
    OBVIOUS
  <2>2. i - p \in T
    BY <1>2, <2>1
  <2>3. p + (i - p) = i
    OBVIOUS
  <2>4. QED
    BY <2>2, <2>3
<1>4. QED
  BY <1>3

\* f is defined by recursion from p to n.
Recurs(f, p, n, V, seed, step) ==
  /\ f \in [p..n -> V]
  /\ \A i \in p..n : f[i] = IF i = p THEN seed ELSE step[i][f[i - 1]]

(***************************************************************************)
(* A function defined by recursion from p on exists.                       *)
(***************************************************************************)
LEMMA RecursionExists ==
  ASSUME NEW p \in Int, NEW n \in Int, NEW V, NEW seed \in V,
         NEW step \in [p..n -> [V -> V]]
  PROVE  \E f : Recurs(f, p, n, V, seed, step)
<1> USE DEF Recurs
<1> DEFINE Fits(f, m) == Recurs(f, p, m, V, seed, step)
           S == {m \in Int : \E f : Fits(f, m)}
<1>1. CASE n < p
  <2> DEFINE f == [i \in p..n |-> seed]
  <2>1. p..n = {}
    BY <1>1
  <2>2. f \in [p..n -> V]
    OBVIOUS
  <2> HIDE DEF f
  <2>3. QED
    BY <2>1, <2>2
<1>2. CASE p <= n
  <2>1. p \in S
    <3> DEFINE f == [i \in p..p |-> seed]
    <3>1. f \in [p..p -> V] /\ f[p] = seed /\ \A i \in p..p : i = p
      OBVIOUS
    <3> HIDE DEF f
    <3>2. Fits(f, p)
      BY <3>1
    <3>3. QED
      BY <3>2
  <2>2. ASSUME NEW m \in p..n, p < m, m - 1 \in S PROVE m \in S
    <3>1. PICK g : Fits(g, m - 1)
      BY <2>2
    <3> DEFINE f == [i \in p..m |-> IF i < m THEN g[i] ELSE step[m][g[m - 1]]]
    <3>2. \A i \in p..(m - 1) : g[i] \in V
      BY <3>1
    <3>3. m - 1 \in p..(m - 1) /\ step[m] \in [V -> V]
      BY <2>2
    <3>4. step[m][g[m - 1]] \in V
      BY <3>2, <3>3
    <3>5. f \in [p..m -> V] /\ (\A i \in p..(m - 1) : f[i] = g[i]) /\ f[m] = step[m][g[m - 1]]
      BY <3>2, <3>4
    <3> HIDE DEF f
    <3>6. ASSUME NEW i \in p..m
          PROVE  f[i] = IF i = p THEN seed ELSE step[i][f[i - 1]]
      <4>1. CASE i = m
        BY <4>1, <3>3, <3>5
      <4>2. CASE i # m
        <5>1. i \in p..(m - 1) /\ (i # p => i - 1 \in p..(m - 1))
          BY <4>2
        <5>2. g[i] = IF i = p THEN seed ELSE step[i][g[i - 1]]
          BY <5>1, <3>1
        <5>3. f[i] = g[i] /\ (i # p => f[i - 1] = g[i - 1])
          BY <5>1, <3>5
        <5>4. QED
          BY <5>2, <5>3
      <4>3. QED
        BY <4>1, <4>2
    <3>7. Fits(f, m)
      BY <3>5, <3>6
    <3>8. m \in Int
      OBVIOUS
    <3>9. QED
      BY <3>7, <3>8
  <2>3. \A i \in p..n : i \in S
    <3> HIDE DEF S
    <3> QED
      BY <2>1, <2>2, StepInduction
  <2>4. n \in S
    BY <2>3, <1>2
  <2>5. QED
    BY <2>4
<1>3. QED
  BY <1>1, <1>2

-----------------------------------------------------------------------------
(***************************************************************************)
(* Fractions.  Gcd is well defined and is the greatest common divisor, so  *)
(* a number has one representation as a fraction, and the operators of     *)
(* Rationals are the arithmetic of fractions.                              *)
(***************************************************************************)

\* Division of an integer by a positive one leaves a remainder.
LEMMA Remainder ==
  ASSUME NEW a \in Int, NEW b \in Nat \ {0}
  PROVE  a % b \in 0..(b - 1) /\ a \div b \in Int /\ a = b * (a \div b) + (a % b)
OBVIOUS

\* Quotient and remainder are the only ones there are.
LEMMA DivisionUnique ==
  ASSUME NEW x \in Int, NEW y \in Nat \ {0}, NEW q \in Int, NEW r \in 0..(y - 1), x = y * q + r
  PROVE  x % y = r /\ x \div y = q
OBVIOUS

\* f computes Gcd for every b up to m.
GcdUpTo(f, m) ==
  /\ f \in [0..m -> [Nat -> Nat]]
  /\ \A b \in 0..m, a \in Nat : f[b][a] = IF b = 0 THEN a ELSE f[a % b][b]

\* Such a function exists, since a % b is smaller than b.
LEMMA GcdUpToExists == \A m \in Nat : \E f : GcdUpTo(f, m)
<1> DEFINE S == {m \in Nat : \E f : GcdUpTo(f, m)}
<1>1. ASSUME NEW m \in Nat, \A k \in 0..(m - 1) : k \in S PROVE m \in S
  <2>1. CASE m = 0
    <3> DEFINE f == [b \in 0..0 |-> [a \in Nat |-> a]]
    <3>1. f \in [0..0 -> [Nat -> Nat]] /\ \A a \in Nat : f[0][a] = a
      OBVIOUS
    <3>2. \A b \in 0..0 : b = 0
      OBVIOUS
    <3> HIDE DEF f
    <3>3. GcdUpTo(f, 0)
      BY <3>1, <3>2 DEF GcdUpTo
    <3>4. QED
      BY <2>1, <3>3
  <2>2. CASE m > 0
    <3>1. m - 1 \in S
      BY <1>1, <2>2
    <3>2. PICK g : GcdUpTo(g, m - 1)
      BY <3>1
    <3> DEFINE f == [b \in 0..m |-> IF b < m THEN g[b] ELSE [a \in Nat |-> g[a % m][m]]]
    <3>3. \A a \in Nat : a % m \in 0..(m - 1)
      BY <2>2, Remainder
    <3>4. \A b \in 0..(m - 1) : g[b] \in [Nat -> Nat]
      BY <3>2 DEF GcdUpTo
    <3>5. [a \in Nat |-> g[a % m][m]] \in [Nat -> Nat]
      BY <3>3, <3>4
    <3>6. f \in [0..m -> [Nat -> Nat]]
      BY <3>4, <3>5
    <3>7. \A b \in 0..(m - 1) : f[b] = g[b]
      OBVIOUS
    <3>8. \A a \in Nat : f[m][a] = g[a % m][m]
      OBVIOUS
    <3> HIDE DEF f
    <3>9. ASSUME NEW b \in 0..m, NEW a \in Nat
          PROVE  f[b][a] = IF b = 0 THEN a ELSE f[a % b][b]
      <4>1. CASE b = m
        BY <4>1, <2>2, <3>3, <3>7, <3>8
      <4>2. CASE b # m
        <5>1. b \in 0..(m - 1)
          BY <4>2
        <5>2. g[b][a] = IF b = 0 THEN a ELSE g[a % b][b]
          BY <5>1, <3>2 DEF GcdUpTo
        <5>3. b # 0 => a % b \in 0..(m - 1)
          BY <5>1, Remainder
        <5>4. QED
          BY <5>1, <5>2, <5>3, <3>7
      <4>3. QED
        BY <4>1, <4>2
    <3>10. GcdUpTo(f, m)
      BY <3>6, <3>9 DEF GcdUpTo
    <3>11. QED
      BY <3>10
  <2>3. QED
    BY <2>1, <2>2
<1>2. Nat \subseteq S
  <2> HIDE DEF S
  <2> QED
    BY <1>1, StrongInduction
<1>3. QED
  BY <1>2

\* Two such functions agree where both are defined.
LEMMA GcdUpToUnique ==
  ASSUME NEW m \in Nat, NEW n \in Nat, NEW f, NEW g, GcdUpTo(f, m), GcdUpTo(g, n), m <= n,
         NEW c \in 0..m, NEW a \in Nat
  PROVE  f[c][a] = g[c][a]
<1> DEFINE S == {b \in Nat : b <= m => \A x \in Nat : f[b][x] = g[b][x]}
<1>1. ASSUME NEW b \in Nat, \A k \in 0..(b - 1) : k \in S PROVE b \in S
  <2> SUFFICES ASSUME b <= m, NEW x \in Nat PROVE f[b][x] = g[b][x]
    OBVIOUS
  <2>1. b \in 0..m /\ b \in 0..n
    OBVIOUS
  <2>2. f[b][x] = IF b = 0 THEN x ELSE f[x % b][b]
    BY <2>1 DEF GcdUpTo
  <2>3. g[b][x] = IF b = 0 THEN x ELSE g[x % b][b]
    BY <2>1 DEF GcdUpTo
  <2>4. ASSUME b # 0 PROVE x % b \in 0..(b - 1)
    <3>1. x \in Int /\ b \in Nat \ {0}
      BY <2>4
    <3> HIDE DEF S
    <3>2. QED
      BY ONLY <3>1, Remainder
  <2>5. ASSUME b # 0 PROVE f[x % b][b] = g[x % b][b]
    <3>1. x % b \in 0..(b - 1)
      BY <2>4, <2>5
    <3> DEFINE r == x % b
    <3> HIDE DEF r
    <3>2. r \in 0..(b - 1)
      BY <3>1 DEF r
    <3>3. f[r][b] = g[r][b]
      BY <3>2, <1>1
    <3>4. QED
      BY <3>3 DEF r
  <2>6. QED
    BY <2>2, <2>3, <2>5
<1>2. Nat \subseteq S
  <2> HIDE DEF S
  <2> QED
    BY <1>1, StrongInduction
<1>3. QED
  BY <1>2

\* So the recursive definition of Gcd defines a function, and this is it.
LEMMA GcdUnfold ==
  /\ Gcd \in [Nat -> [Nat -> Nat]]
  /\ \A b \in Nat, a \in Nat : Gcd[b][a] = IF b = 0 THEN a ELSE Gcd[a % b][b]
<1> DEFINE upTo == [m \in Nat |-> CHOOSE f : GcdUpTo(f, m)]
           G == [b \in Nat |-> [a \in Nat |-> upTo[b][b][a]]]
<1>1. \A m \in Nat : GcdUpTo(upTo[m], m)
  BY GcdUpToExists
<1> HIDE DEF upTo
<1>2. \A b \in Nat : upTo[b][b] \in [Nat -> Nat]
  <2>1. \A b \in Nat : b \in 0..b
    OBVIOUS
  <2> QED
    BY <1>1, <2>1 DEF GcdUpTo
<1>3. G \in [Nat -> [Nat -> Nat]] /\ \A b \in Nat, a \in Nat : G[b][a] = upTo[b][b][a]
  BY <1>2
<1> HIDE DEF G
<1>4. ASSUME NEW b \in Nat, NEW a \in Nat
      PROVE  G[b][a] = IF b = 0 THEN a ELSE G[a % b][b]
  <2>1. upTo[b][b][a] = IF b = 0 THEN a ELSE upTo[b][a % b][b]
    <3>1. b \in 0..b
      OBVIOUS
    <3>2. QED
      BY <3>1, <1>1 DEF GcdUpTo
  <2>2. ASSUME b # 0 PROVE upTo[b][a % b][b] = G[a % b][b]
    <3> DEFINE r == a % b
    <3>1. r \in Nat /\ r \in 0..r /\ r <= b
      BY <2>2, Remainder
    <3> HIDE DEF r
    <3>2. upTo[r][r][b] = upTo[b][r][b]
      BY <3>1, <1>1, GcdUpToUnique
    <3>3. G[r][b] = upTo[r][r][b]
      BY <3>1, <1>3
    <3>4. QED
      BY <3>2, <3>3 DEF r
  <2>3. QED
    BY <1>3, <2>1, <2>2
<1>5. G = [b \in Nat |-> [a \in Nat |-> IF b = 0 THEN a ELSE G[a % b][b]]]
  <2> DEFINE H == [b \in Nat |-> [a \in Nat |-> IF b = 0 THEN a ELSE G[a % b][b]]]
  <2>1. \A b \in Nat : G[b] = H[b]
    <3> TAKE b \in Nat
    <3>1. G[b] = [a \in Nat |-> G[b][a]]
      BY <1>3
    <3>2. \A a \in Nat : G[b][a] = IF b = 0 THEN a ELSE G[a % b][b]
      BY <1>4
    <3>3. [a \in Nat |-> G[b][a]] = [a \in Nat |-> IF b = 0 THEN a ELSE G[a % b][b]]
      BY <3>2
    <3>4. QED
      BY <3>1, <3>3
  <2>2. G = [b \in Nat |-> G[b]] /\ H = [b \in Nat |-> H[b]]
    BY <1>3
  <2> HIDE DEF H
  <2>3. G = H
    BY <2>1, <2>2
  <2>4. QED
    BY <2>3 DEF H
<1>6. Gcd = [b \in Nat |-> [a \in Nat |-> IF b = 0 THEN a ELSE Gcd[a % b][b]]]
  BY <1>5, Zenon DEF Gcd
<1>7. \A b \in Nat, a \in Nat : Gcd[b][a] = IF b = 0 THEN a ELSE Gcd[a % b][b]
  BY <1>6, Zenon
<1>8. \A b \in Nat : Gcd[b] = G[b]
  <2> DEFINE S == {b \in Nat : Gcd[b] = G[b]}
  <2>1. ASSUME NEW b \in Nat, \A k \in 0..(b - 1) : k \in S PROVE b \in S
    <3>1. \A a \in Nat : b # 0 => Gcd[a % b] = G[a % b]
      BY <2>1, Remainder
    <3>2. \A a \in Nat : (IF b = 0 THEN a ELSE Gcd[a % b][b]) = (IF b = 0 THEN a ELSE G[a % b][b])
      BY <3>1, Zenon
    <3>3. Gcd[b] = [a \in Nat |-> IF b = 0 THEN a ELSE Gcd[a % b][b]]
      BY <1>6, Zenon
    <3>4. G[b] = [a \in Nat |-> IF b = 0 THEN a ELSE G[a % b][b]]
      BY <1>5, Zenon
    <3>5. Gcd[b] = G[b]
      BY <3>2, <3>3, <3>4
    <3>6. QED
      BY <3>5
  <2>2. Nat \subseteq S
    <3> HIDE DEF S
    <3> QED
      BY <2>1, StrongInduction
  <2>3. QED
    BY <2>2
<1>9. Gcd \in [Nat -> [Nat -> Nat]]
  <2>1. \A b \in Nat : Gcd[b] \in [Nat -> Nat]
    BY <1>3, <1>8
  <2>2. Gcd = [b \in Nat |-> Gcd[b]]
    BY <1>6, Zenon
  <2>3. QED
    BY <2>1, <2>2
<1>10. QED
  BY <1>7, <1>9

\* Gcd is positive and divides both numbers.
LEMMA GcdDivides ==
  ASSUME NEW b \in Nat, NEW a \in Nat, a + b > 0
  PROVE  /\ Gcd[b][a] \in Nat \ {0}
         /\ \E k \in Nat : a = k * Gcd[b][a]
         /\ \E l \in Nat : b = l * Gcd[b][a]
<1> DEFINE Divides(g, x) == \E k \in Nat : x = k * g
           Fine(x, y) == /\ Gcd[y][x] \in Nat \ {0}
                         /\ Divides(Gcd[y][x], x)
                         /\ Divides(Gcd[y][x], y)
           S == {y \in Nat : \A x \in Nat : x + y > 0 => Fine(x, y)}
<1>1. ASSUME NEW y \in Nat, \A k \in 0..(y - 1) : k \in S PROVE y \in S
  <2> SUFFICES ASSUME NEW x \in Nat, x + y > 0 PROVE Fine(x, y)
    OBVIOUS
  <2>1. Gcd[y][x] = IF y = 0 THEN x ELSE Gcd[x % y][y]
    BY GcdUnfold
  <2>2. CASE y = 0
    <3>1. Gcd[y][x] = x /\ x \in Nat \ {0}
      BY <2>1, <2>2
    <3>2. x = 1 * x /\ y = 0 * x
      BY <2>2
    <3>3. QED
      BY <3>1, <3>2
  <2>3. CASE y # 0
    <3> DEFINE r == x % y
               q == x \div y
               g == Gcd[r][y]
    <3>1. r \in 0..(y - 1) /\ q \in Int /\ x = y * q + r
      BY <2>3, Remainder
    <3>2. q >= 0
      <4>1. ASSUME q < 0 PROVE FALSE
        <5>1. y * q <= y * (0 - 1)
          BY <4>1, <2>3, <3>1
        <5>2. y * (0 - 1) = 0 - y
          OBVIOUS
        <5> HIDE DEF q, r
        <5>3. y * q \in Int
          BY <3>1
        <5>4. QED
          BY <5>1, <5>2, <5>3, <3>1
      <4>2. QED
        BY <4>1, <3>1
    <3>3. Fine(y, r)
      <4> HIDE DEF r, q, Fine
      <4>1. r \in S /\ y + r > 0 /\ r \in Nat
        BY <3>1, <2>3, <1>1
      <4>2. QED
        BY <4>1
    <3>4. g \in Nat \ {0} /\ Divides(g, y) /\ Divides(g, r)
      BY <3>3
    <3>5. Gcd[y][x] = g
      BY <2>1, <2>3
    <3> HIDE DEF r, q, g
    <3>6. PICK k \in Nat : y = k * g
      BY <3>4
    <3>7. PICK l \in Nat : r = l * g
      BY <3>4
    <3>8. x = (k * q + l) * g
      <4>1. x = (k * g) * q + l * g
        BY <3>1, <3>6, <3>7
      <4>2. (k * g) * q + l * g = (k * q + l) * g
        BY <3>1, <3>4
      <4>3. QED
        BY <4>1, <4>2
    <3>9. k * q + l \in Nat
      BY <3>1, <3>2
    <3>10. Divides(g, x)
      BY <3>8, <3>9
    <3>11. QED
      BY <3>4, <3>5, <3>10
  <2>4. QED
    BY <2>2, <2>3
<1>2. Nat \subseteq S
  <2> HIDE DEF S
  <2> QED
    BY <1>1, StrongInduction
<1>3. QED
  BY <1>2

\* A common factor can be taken out of Gcd.
LEMMA GcdScales ==
  ASSUME NEW k \in Nat \ {0}, NEW b \in Nat, NEW a \in Nat
  PROVE  Gcd[k * b][k * a] = k * Gcd[b][a]
<1> DEFINE S == {y \in Nat : \A x \in Nat : Gcd[k * y][k * x] = k * Gcd[y][x]}
<1>1. ASSUME NEW y \in Nat, \A j \in 0..(y - 1) : j \in S PROVE y \in S
  <2> SUFFICES ASSUME NEW x \in Nat PROVE Gcd[k * y][k * x] = k * Gcd[y][x]
    OBVIOUS
  <2>1. Gcd[y][x] = IF y = 0 THEN x ELSE Gcd[x % y][y]
    BY GcdUnfold
  <2>2. k * y \in Nat /\ k * x \in Nat
    OBVIOUS
  <2>3. Gcd[k * y][k * x] = IF k * y = 0 THEN k * x ELSE Gcd[(k * x) % (k * y)][k * y]
    BY <2>2, GcdUnfold
  <2>4. CASE y = 0
    BY <2>1, <2>3, <2>4
  <2>5. CASE y # 0
    <3> DEFINE r == x % y
               q == x \div y
    <3>1. r \in 0..(y - 1) /\ q \in Int /\ x = y * q + r
      BY <2>5, Remainder
    <3> HIDE DEF r, q
    <3>2. k * x = (k * y) * q + k * r
      <4>1. k * (y * q + r) = (k * y) * q + k * r
        BY <3>1
      <4>2. QED
        BY <4>1, <3>1
    <3>3. k * y \in Nat \ {0} /\ k * r \in 0..(k * y - 1)
      <4>1. k * y > 0
        BY <2>5
      <4>2. k * r >= 0
        BY <3>1
      <4>3. k * r <= k * (y - 1)
        BY <3>1
      <4>4. k * (y - 1) = k * y - k
        OBVIOUS
      <4>5. k * r \in Int /\ k * y \in Int /\ k >= 1
        BY <3>1
      <4>6. QED
        BY <4>1, <4>2, <4>3, <4>4, <4>5
    <3>4. (k * x) % (k * y) = k * r
      <4> DEFINE X == k * x
                 Y == k * y
                 R == k * r
      <4>1. X \in Int /\ Y \in Nat \ {0} /\ R \in 0..(Y - 1) /\ X = Y * q + R
        BY <2>2, <3>2, <3>3
      <4> HIDE DEF X, Y, R
      <4>2. X % Y = R
        BY <4>1, <3>1, DivisionUnique
      <4>3. QED
        BY <4>2 DEF X, Y, R
    <3>5. Gcd[k * r][k * y] = k * Gcd[r][y]
      BY <1>1, <3>1
    <3>6. k * y # 0
      BY <3>3
    <3>7. Gcd[k * y][k * x] = Gcd[k * r][k * y]
      BY <2>3, <3>4, <3>6
    <3>8. Gcd[y][x] = Gcd[r][y]
      BY <2>1, <2>5 DEF r
    <3>9. QED
      BY <3>5, <3>7, <3>8
  <2>6. QED
    BY <2>4, <2>5
<1>2. Nat \subseteq S
  <2> HIDE DEF S
  <2> QED
    BY <1>1, StrongInduction
<1>3. QED
  BY <1>2

\* n / d is p / q in lowest terms, and g is what was divided out.
ReducedBy(n, d, p, q, g) ==
  /\ Frac(n, d) = [num |-> p, den |-> q]
  /\ n = p * g
  /\ d = q * g
  /\ g = Gcd[d][AbsInt(n)]

\* Frac divides numerator and denominator by the same number.
LEMMA FracReduces ==
  ASSUME NEW n \in Int, NEW d \in Nat \ {0}
  PROVE  \E p \in Int, q \in Nat \ {0}, g \in Nat \ {0} : ReducedBy(n, d, p, q, g)
<1> DEFINE m == AbsInt(n)
           g == Gcd[d][m]
<1>1. m \in Nat /\ m + d > 0 /\ d \in Nat /\ (n = m \/ n = -m)
  BY DEF AbsInt
<1> HIDE DEF m
<1>2. /\ g \in Nat \ {0}
      /\ \E k \in Nat : m = k * g
      /\ \E l \in Nat : d = l * g
  BY <1>1, GcdDivides
<1> HIDE DEF g
<1>3. PICK k \in Nat : m = k * g
  BY <1>2
<1>4. PICK q \in Nat : d = q * g
  BY <1>2
<1>5. q # 0
  BY <1>2, <1>4
<1> DEFINE p == IF n = m THEN k ELSE -k
<1>6. p \in Int /\ n = p * g
  BY <1>1, <1>2, <1>3
<1> HIDE DEF p
<1>7. n \div g = p
  <2>1. n = g * p + 0 /\ 0 \in 0..(g - 1)
    BY <1>2, <1>6
  <2>2. QED
    BY <2>1, <1>2, <1>6, DivisionUnique
<1>8. d \div g = q
  <2>1. d = g * q + 0 /\ 0 \in 0..(g - 1)
    BY <1>2, <1>4
  <2>2. QED
    BY <2>1, <1>2, <1>4, DivisionUnique
<1>9. Frac(n, d) = [num |-> p, den |-> q]
  <2>1. Frac(n, d) = [num |-> n \div g, den |-> d \div g]
    BY DEF Frac, g, m
  <2>2. QED
    BY <2>1, <1>7, <1>8
<1>10. QED
  <2>1. g = Gcd[d][AbsInt(n)]
    BY DEF g, m
  <2>2. p \in Int /\ q \in Nat \ {0} /\ g \in Nat \ {0} /\ n = p * g /\ d = q * g
    BY <1>2, <1>4, <1>5, <1>6
  <2>3. QED
    BY <1>9, <2>1, <2>2, Zenon DEF ReducedBy

\* A fraction does not change when both parts get the same factor.
LEMMA FracScale ==
  ASSUME NEW k \in Nat \ {0}, NEW n \in Int, NEW d \in Nat \ {0}
  PROVE  Frac(k * n, k * d) = Frac(n, d)
<1>0. PICK p \in Int, q \in Nat \ {0}, g \in Nat \ {0} : ReducedBy(n, d, p, q, g)
  BY FracReduces
<1>1. Frac(n, d) = [num |-> p, den |-> q] /\ n = p * g /\ d = q * g /\ g = Gcd[d][AbsInt(n)]
  BY <1>0 DEF ReducedBy
<1>2. AbsInt(n) \in Nat
  BY DEF AbsInt
<1>3. AbsInt(k * n) = k * AbsInt(n)
  <2>1. CASE n < 0
    <3>1. k * n < 0 /\ k * (-n) = -(k * n)
      BY <2>1
    <3>2. QED
      BY <2>1, <3>1 DEF AbsInt
  <2>2. CASE n >= 0
    <3>1. k * n >= 0
      BY <2>2
    <3>2. QED
      BY <2>2, <3>1 DEF AbsInt
  <2>3. QED
    BY <2>1, <2>2
<1>4. Gcd[k * d][AbsInt(k * n)] = k * g
  <2>1. Gcd[k * d][k * AbsInt(n)] = k * Gcd[d][AbsInt(n)]
    BY <1>2, GcdScales
  <2>2. QED
    BY <2>1, <1>1, <1>3
<1> DEFINE h == k * g
           N == k * n
           D == k * d
<1>5. h \in Nat \ {0} /\ N \in Int /\ D \in Int /\ N = h * p + 0 /\ D = h * q + 0
  <2>1. k * (p * g) = (k * g) * p /\ k * (q * g) = (k * g) * q
    OBVIOUS
  <2>2. k * g > 0
    OBVIOUS
  <2>3. QED
    BY <2>1, <2>2, <1>1
<1>6. Frac(N, D) = [num |-> N \div h, den |-> D \div h]
  BY <1>4 DEF Frac
<1> HIDE DEF h, N, D
<1>7. N \div h = p /\ D \div h = q
  <2>1. 0 \in 0..(h - 1)
    BY <1>5
  <2>2. QED
    BY <1>5, <2>1, DivisionUnique
<1>8. Frac(N, D) = Frac(n, d)
  BY <1>1, <1>6, <1>7
<1>9. QED
  BY <1>8 DEF N, D

\* Fractions that are equal crosswise are the same record: Rational has one
\* representation of every number, so that = is equality of numbers.
LEMMA FracEqual ==
  ASSUME NEW a \in Int, NEW b \in Nat \ {0}, NEW c \in Int, NEW d \in Nat \ {0}, a * d = c * b
  PROVE  Frac(a, b) = Frac(c, d)
<1>1. Frac(d * a, d * b) = Frac(a, b)
  BY FracScale
<1>2. Frac(b * c, b * d) = Frac(c, d)
  BY FracScale
<1>3. d * a = b * c /\ d * b = b * d
  OBVIOUS
<1>4. QED
  BY <1>1, <1>2, <1>3

\* Frac makes rationals.
LEMMA FracIn ==
  ASSUME NEW n \in Int, NEW d \in Nat \ {0}
  PROVE  Frac(n, d) \in Rational
<1>0. PICK p \in Int, q \in Nat \ {0}, g \in Nat \ {0} : ReducedBy(n, d, p, q, g)
  BY FracReduces
<1>1. Frac(n, d) = [num |-> p, den |-> q] /\ n = p * g /\ d = q * g
  BY <1>0 DEF ReducedBy
<1>2. p * d = n * q
  <2>1. p * (q * g) = (p * g) * q
    OBVIOUS
  <2>2. QED
    BY <2>1, <1>1
<1>3. Frac(p, q) = Frac(n, d)
  BY <1>2, FracEqual
<1>4. QED
  BY <1>1, <1>3 DEF Rational

\* The parts of a rational.
LEMMA RationalIs ==
  ASSUME NEW x \in Rational
  PROVE  /\ x.num \in Int
         /\ x.den \in Nat \ {0}
         /\ x = Frac(x.num, x.den)
         /\ x = [num |-> x.num, den |-> x.den]
BY DEF Rational

\* An integer is a rational.
LEMMA RatIs ==
  ASSUME NEW n \in Int
  PROVE  Rat(n) = Frac(n, 1) /\ Rat(n) \in Rational
<1>a. 1 \in Nat \ {0}
  OBVIOUS
<1>0. PICK p \in Int, q \in Nat \ {0}, g \in Nat \ {0} : ReducedBy(n, 1, p, q, g)
  BY <1>a, FracReduces
<1>1. Frac(n, 1) = [num |-> p, den |-> q] /\ n = p * g /\ 1 = q * g
  BY <1>0 DEF ReducedBy
<1>2. q = 1 /\ g = 1
  <2>1. q <= q * g /\ g <= q * g
    OBVIOUS
  <2>2. QED
    BY <2>1, <1>1
<1>3. QED
  BY <1>1, <1>2, FracIn DEF Rat

\* What Frac divided out.
LEMMA FracParts ==
  ASSUME NEW n \in Int, NEW d \in Nat \ {0}
  PROVE  \E g \in Nat \ {0} : n = g * Frac(n, d).num /\ d = g * Frac(n, d).den
<1>1. PICK p \in Int, q \in Nat \ {0}, g \in Nat \ {0} : ReducedBy(n, d, p, q, g)
  BY FracReduces
<1>2. Frac(n, d).num = p /\ Frac(n, d).den = q /\ n = g * p /\ d = g * q
  BY <1>1 DEF ReducedBy
<1>3. QED
  BY <1>2, Zenon

\* The parts of a fraction that Frac reduced.
LEMMA FracTyped ==
  ASSUME NEW n \in Int, NEW d \in Nat \ {0}
  PROVE  Frac(n, d).num \in Int /\ Frac(n, d).den \in Nat \ {0}
BY FracIn, RationalIs

\* The operators on fractions that are not in lowest terms.
LEMMA FracOps ==
  ASSUME NEW a \in Int, NEW b \in Nat \ {0}, NEW c \in Int, NEW d \in Nat \ {0}
  PROVE  /\ Frac(a, b) ++ Frac(c, d) = Frac(a * d + c * b, b * d)
         /\ Frac(a, b) -- Frac(c, d) = Frac(a * d - c * b, b * d)
         /\ Frac(a, b) ** Frac(c, d) = Frac(a * c, b * d)
         /\ Leq(Frac(a, b), Frac(c, d)) <=> a * d <= c * b
         /\ Less(Frac(a, b), Frac(c, d)) <=> a * d < c * b
<1> DEFINE x == Frac(a, b)
           y == Frac(c, d)
           p == x.num
           q == x.den
           r == y.num
           s == y.den
<1>1. p \in Int /\ q \in Nat \ {0} /\ r \in Int /\ s \in Nat \ {0}
  BY FracTyped
<1>2. PICK g \in Nat \ {0} : a = g * p /\ b = g * q
  BY FracParts
<1>3. PICK h \in Nat \ {0} : c = h * r /\ d = h * s
  BY FracParts
<1>4. /\ x ++ y = Frac(p * s + r * q, q * s)
      /\ x -- y = Frac(p * s - r * q, q * s)
      /\ x ** y = Frac(p * r, q * s)
      /\ Leq(x, y) <=> p * s <= r * q
      /\ Less(x, y) <=> p * s < r * q
  BY DEF ++, --, **, Leq, Less
<1> HIDE DEF x, y, p, q, r, s
<1> DEFINE k == g * h
           P == p * s
           R == r * q
           D == q * s
           M == p * r
<1>5. k \in Nat \ {0} /\ D \in Nat \ {0} /\ P \in Int /\ R \in Int /\ M \in Int
  <2>1. g * h > 0 /\ q * s > 0
    BY <1>1
  <2>2. QED
    BY <2>1, <1>1
<1>6. a * d = k * P /\ c * b = k * R /\ b * d = k * D /\ a * c = k * M
  <2>1. /\ (g * p) * (h * s) = (g * h) * (p * s)
        /\ (h * r) * (g * q) = (g * h) * (r * q)
        /\ (g * q) * (h * s) = (g * h) * (q * s)
        /\ (g * p) * (h * r) = (g * h) * (p * r)
    BY <1>1
  <2>2. QED
    BY <2>1, <1>2, <1>3
<1>7. x ++ y = Frac(P + R, D) /\ x -- y = Frac(P - R, D) /\ x ** y = Frac(M, D)
      /\ (Leq(x, y) <=> P <= R) /\ (Less(x, y) <=> P < R)
  BY <1>4
<1> HIDE DEF k, P, R, D, M
<1>8. a * d + c * b = k * (P + R) /\ a * d - c * b = k * (P - R)
  BY <1>5, <1>6
<1>9. /\ Frac(k * (P + R), k * D) = Frac(P + R, D)
      /\ Frac(k * (P - R), k * D) = Frac(P - R, D)
      /\ Frac(k * M, k * D) = Frac(M, D)
  <2>1. P + R \in Int /\ P - R \in Int
    BY <1>5
  <2>2. Frac(k * (P + R), k * D) = Frac(P + R, D)
    BY <2>1, <1>5, FracScale
  <2>3. Frac(k * (P - R), k * D) = Frac(P - R, D)
    BY <2>1, <1>5, FracScale
  <2>4. Frac(k * M, k * D) = Frac(M, D)
    BY <1>5, FracScale
  <2>5. QED
    BY <2>2, <2>3, <2>4
<1>10. (k * P <= k * R <=> P <= R) /\ (k * P < k * R <=> P < R)
  BY <1>5
<1>11. QED
  BY <1>6, <1>7, <1>8, <1>9, <1>10 DEF x, y

\* The quotient by a positive fraction.
LEMMA FracDiv ==
  ASSUME NEW a \in Int, NEW b \in Nat \ {0}, NEW c \in Nat \ {0}, NEW d \in Nat \ {0}
  PROVE  Frac(a, b) // Frac(c, d) = Frac(a * d, b * c)
<1> DEFINE x == Frac(a, b)
           y == Frac(c, d)
           p == x.num
           q == x.den
           r == y.num
           s == y.den
<1>1. p \in Int /\ q \in Nat \ {0} /\ r \in Int /\ s \in Nat \ {0}
  BY FracTyped
<1>2. PICK g \in Nat \ {0} : a = g * p /\ b = g * q
  BY FracParts
<1>3. PICK h \in Nat \ {0} : c = h * r /\ d = h * s
  BY FracParts
<1> HIDE DEF x, y, p, q, r, s
<1>4. r > 0
  <2>1. ASSUME r <= 0 PROVE FALSE
    <3>1. h * r <= 0
      BY <2>1, <1>1
    <3>2. QED
      BY <3>1, <1>3
  <2>2. QED
    BY <2>1, <1>1
<1>5. x // y = Frac(p * s, q * r)
  BY <1>4 DEF //, p, q, r, s
<1> DEFINE k == g * h
           P == p * s
           D == q * r
<1>6. k \in Nat \ {0} /\ D \in Nat \ {0} /\ P \in Int
  <2>1. g * h > 0 /\ q * r > 0
    BY <1>1, <1>4
  <2>2. QED
    BY <2>1, <1>1
<1>7. a * d = k * P /\ b * c = k * D
  <2>1. (g * p) * (h * s) = (g * h) * (p * s) /\ (g * q) * (h * r) = (g * h) * (q * r)
    BY <1>1
  <2>2. QED
    BY <2>1, <1>2, <1>3
<1> HIDE DEF k, P, D
<1>8. Frac(k * P, k * D) = Frac(P, D)
  BY <1>6, FracScale
<1>9. QED
  BY <1>5, <1>7, <1>8 DEF x, y, P, D

\* Two rationals have a common denominator ...
LEMMA CommonDenominator ==
  ASSUME NEW x \in Rational, NEW y \in Rational
  PROVE  \E a \in Int, b \in Int, d \in Nat \ {0} : x = Frac(a, d) /\ y = Frac(b, d)
<1> DEFINE p == x.num
           q == x.den
           r == y.num
           s == y.den
<1>1. p \in Int /\ q \in Nat \ {0} /\ r \in Int /\ s \in Nat \ {0} /\ x = Frac(p, q) /\ y = Frac(r, s)
  BY RationalIs
<1> HIDE DEF p, q, r, s
<1>2. x = Frac(s * p, s * q) /\ y = Frac(q * r, q * s)
  BY <1>1, FracScale
<1>3. s * q = q * s /\ s * p \in Int /\ q * r \in Int /\ q * s \in Nat \ {0}
  <2>1. q * s > 0
    BY <1>1
  <2>2. QED
    BY <2>1, <1>1
<1>4. x = Frac(s * p, q * s)
  BY <1>2, <1>3
<1>5. QED
  BY <1>2, <1>3, <1>4, Zenon

\* ... so have three ...
LEMMA CommonDenominator3 ==
  ASSUME NEW x \in Rational, NEW y \in Rational, NEW z \in Rational
  PROVE  \E a \in Int, b \in Int, c \in Int, d \in Nat \ {0} :
            x = Frac(a, d) /\ y = Frac(b, d) /\ z = Frac(c, d)
<1>1. PICK p \in Int, r \in Int, q \in Nat \ {0} : x = Frac(p, q) /\ y = Frac(r, q)
  BY CommonDenominator
<1> DEFINE t == z.num
           s == z.den
<1>2. t \in Int /\ s \in Nat \ {0} /\ z = Frac(t, s)
  BY RationalIs
<1> HIDE DEF t, s
<1>3. x = Frac(s * p, s * q) /\ y = Frac(s * r, s * q)
  BY <1>1, <1>2, FracScale
<1>4. z = Frac(q * t, q * s)
  BY <1>2, FracScale
<1>5. s * q = q * s /\ s * p \in Int /\ s * r \in Int /\ q * t \in Int /\ s * q \in Nat \ {0}
  <2>1. s * q > 0
    BY <1>2
  <2>2. QED
    BY <2>1, <1>2
<1>6. z = Frac(q * t, s * q)
  BY <1>4, <1>5
<1>7. QED
  BY <1>3, <1>5, <1>6, Zenon

\* ... and so have four.
LEMMA CommonDenominator4 ==
  ASSUME NEW x \in Rational, NEW y \in Rational, NEW z \in Rational, NEW u \in Rational
  PROVE  \E a \in Int, b \in Int, c \in Int, e \in Int, d \in Nat \ {0} :
            x = Frac(a, d) /\ y = Frac(b, d) /\ z = Frac(c, d) /\ u = Frac(e, d)
<1>1. PICK p \in Int, r \in Int, m \in Int, q \in Nat \ {0} :
         x = Frac(p, q) /\ y = Frac(r, q) /\ z = Frac(m, q)
  BY CommonDenominator3
<1> DEFINE t == u.num
           s == u.den
<1>2. t \in Int /\ s \in Nat \ {0} /\ u = Frac(t, s)
  BY RationalIs
<1> HIDE DEF t, s
<1>3. x = Frac(s * p, s * q) /\ y = Frac(s * r, s * q) /\ z = Frac(s * m, s * q)
  BY <1>1, <1>2, FracScale
<1>4. u = Frac(q * t, q * s)
  BY <1>2, FracScale
<1>5. /\ s * q = q * s /\ s * p \in Int /\ s * r \in Int /\ s * m \in Int /\ q * t \in Int
      /\ s * q \in Nat \ {0}
  <2>1. s * q > 0
    BY <1>2
  <2>2. QED
    BY <2>1, <1>2
<1>6. u = Frac(q * t, s * q)
  BY <1>4, <1>5
<1>7. QED
  BY <1>3, <1>5, <1>6, Zenon

\* On one denominator, rationals add and compare like integers.
LEMMA OnOneDenominator ==
  ASSUME NEW a \in Int, NEW b \in Int, NEW d \in Nat \ {0}
  PROVE  /\ Frac(a, d) ++ Frac(b, d) = Frac(a + b, d)
         /\ Frac(a, d) -- Frac(b, d) = Frac(a - b, d)
         /\ Leq(Frac(a, d), Frac(b, d)) <=> a <= b
         /\ Less(Frac(a, d), Frac(b, d)) <=> a < b
         /\ Frac(a, d) = Frac(b, d) <=> a = b
<1>1. /\ Frac(a, d) ++ Frac(b, d) = Frac(a * d + b * d, d * d)
      /\ Frac(a, d) -- Frac(b, d) = Frac(a * d - b * d, d * d)
      /\ Leq(Frac(a, d), Frac(b, d)) <=> a * d <= b * d
      /\ Less(Frac(a, d), Frac(b, d)) <=> a * d < b * d
  BY FracOps
<1>2. a * d + b * d = d * (a + b) /\ a * d - b * d = d * (a - b)
  OBVIOUS
<1>3. Frac(d * (a + b), d * d) = Frac(a + b, d)
  <2>1. a + b \in Int
    OBVIOUS
  <2>2. QED
    BY <2>1, FracScale
<1>4. Frac(d * (a - b), d * d) = Frac(a - b, d)
  <2>1. a - b \in Int
    OBVIOUS
  <2>2. QED
    BY <2>1, FracScale
<1>5. (a * d <= b * d <=> a <= b) /\ (a * d < b * d <=> a < b)
  OBVIOUS
<1>6. ASSUME Frac(a, d) = Frac(b, d) PROVE a = b
  <2>1. ~Less(Frac(a, d), Frac(b, d)) /\ ~Less(Frac(b, d), Frac(a, d))
    <3> DEFINE x == Frac(a, d)
    <3>1. x.num \in Int /\ x.den \in Nat \ {0}
      BY FracTyped
    <3> HIDE DEF x
    <3>2. ~Less(x, x)
      BY <3>1 DEF Less
    <3>3. QED
      BY <3>2, <1>6 DEF x
  <2>2. Less(Frac(b, d), Frac(a, d)) <=> b * d < a * d
    BY FracOps
  <2>3. b * d < a * d <=> b < a
    OBVIOUS
  <2>4. ~(a < b) /\ ~(b < a)
    BY <2>1, <2>2, <2>3, <1>1, <1>5
  <2>5. QED
    BY <2>4
<1>7. QED
  BY <1>1, <1>2, <1>3, <1>4, <1>5, <1>6

\* Zero on any denominator.
LEMMA ZeroIs == Zero \in Rational /\ \A d \in Nat \ {0} : Zero = Frac(0, d)
<1>1. Zero = Frac(0, 1) /\ Zero \in Rational
  BY RatIs DEF Zero
<1>2. ASSUME NEW d \in Nat \ {0} PROVE Frac(0, 1) = Frac(0, d)
  BY FracEqual
<1>3. QED
  BY <1>1, <1>2

\* The sign of a fraction is that of its numerator.
LEMMA SignOf ==
  ASSUME NEW m \in Int, NEW d \in Nat \ {0}
  PROVE  /\ Less(Zero, Frac(m, d)) <=> 0 < m
         /\ Leq(Zero, Frac(m, d)) <=> 0 <= m
         /\ Less(Frac(m, d), Zero) <=> m < 0
         /\ Frac(m, d) = Zero <=> m = 0
         /\ Zero -- Frac(m, d) = Frac(0 - m, d)
<1> DEFINE o == 0
<1>1. o \in Int /\ Zero = Frac(o, d)
  BY ZeroIs
<1> HIDE DEF o
<1>0. o \in Int
  BY <1>1
<1>2. /\ Less(Frac(o, d), Frac(m, d)) <=> o < m
      /\ Leq(Frac(o, d), Frac(m, d)) <=> o <= m
  BY <1>0, OnOneDenominator
<1>5. Frac(o, d) -- Frac(m, d) = Frac(o - m, d)
  BY <1>0, OnOneDenominator
<1>3. /\ Less(Frac(m, d), Frac(o, d)) <=> m < o
      /\ Frac(m, d) = Frac(o, d) <=> m = o
  BY <1>1, OnOneDenominator
<1>4. QED
  BY <1>1, <1>2, <1>3, <1>5 DEF o

\* An integer on any denominator.
LEMMA RatOn ==
  ASSUME NEW n \in Int, NEW d \in Nat \ {0}
  PROVE  Rat(n) = Frac(n * d, d)
<1>1. Rat(n) = Frac(n, 1)
  BY RatIs
<1>2. Frac(d * n, d * 1) = Frac(n, 1)
  BY FracScale
<1>3. d * n = n * d /\ d * 1 = d
  OBVIOUS
<1>4. QED
  BY <1>1, <1>2, <1>3

\* A positive integer is a positive rational.
LEMMA PositiveRat ==
  ASSUME NEW p \in Nat \ {0}
  PROVE  Rat(p) \in Rational /\ Less(Zero, Rat(p))
<1>1. Rat(p) = Frac(p, 1) /\ Rat(p) \in Rational
  BY RatIs
<1>2. Less(Zero, Frac(p, 1))
  <2>1. 1 \in Nat \ {0} /\ p \in Int
    OBVIOUS
  <2>2. QED
    BY <2>1, SignOf
<1>3. QED
  BY <1>1, <1>2

(***************************************************************************)
(* The operators stay within the rationals.                                *)
(***************************************************************************)
LEMMA Closed ==
  ASSUME NEW x \in Rational, NEW y \in Rational
  PROVE  /\ x ++ y \in Rational
         /\ x -- y \in Rational
         /\ x ** y \in Rational
         /\ y.num # 0 => x // y \in Rational
         /\ Less(Zero, y) => x // y \in Rational
<1> DEFINE p == x.num
           q == x.den
           r == y.num
           s == y.den
<1>1. p \in Int /\ q \in Nat \ {0} /\ r \in Int /\ s \in Nat \ {0}
  BY RationalIs
<1>2. /\ x ++ y = Frac(p * s + r * q, q * s)
      /\ x -- y = Frac(p * s - r * q, q * s)
      /\ x ** y = Frac(p * r, q * s)
      /\ x // y = IF r > 0 THEN Frac(p * s, q * r) ELSE Frac((-p) * s, q * (-r))
      /\ Less(Zero, y) <=> 0 * s < r * 1
  BY DEF ++, --, **, //, Less, Zero, Rat
<1> HIDE DEF p, q, r, s
<1>3. q * s \in Nat \ {0} /\ p * s + r * q \in Int /\ p * s - r * q \in Int /\ p * r \in Int
  <2>1. q * s > 0
    BY <1>1
  <2>2. QED
    BY <2>1, <1>1
<1>4. ASSUME r # 0 PROVE x // y \in Rational
  <2>1. CASE r > 0
    <3>1. p * s \in Int /\ q * r \in Nat \ {0}
      <4>1. q * r > 0
        BY <2>1, <1>1
      <4>2. QED
        BY <4>1, <1>1
    <3>2. QED
      BY <3>1, <2>1, <1>2, FracIn
  <2>2. CASE r < 0
    <3>1. (-p) * s \in Int /\ q * (-r) \in Nat \ {0}
      <4>1. q * (-r) > 0
        BY <2>2, <1>1
      <4>2. QED
        BY <4>1, <1>1
    <3>2. ~(r > 0)
      BY <2>2, <1>1
    <3>3. x // y = Frac((-p) * s, q * (-r))
      BY <3>2, <1>2
    <3>4. QED
      BY <3>1, <3>3, FracIn
  <2>3. QED
    BY <1>1, <1>4, <2>1, <2>2
<1>5. Less(Zero, y) => r # 0
  BY <1>1, <1>2
<1>6. QED
  <2>1. x ++ y \in Rational
    BY <1>2, <1>3, FracIn
  <2>2. x -- y \in Rational
    BY <1>2, <1>3, FracIn
  <2>3. x ** y \in Rational
    BY <1>2, <1>3, FracIn
  <2>4. QED
    BY <2>1, <2>2, <2>3, <1>4, <1>5 DEF r

(***************************************************************************)
(* Leq is a total order and Less its strict part.                          *)
(***************************************************************************)
LEMMA TotalOrder ==
  ASSUME NEW x \in Rational, NEW y \in Rational
  PROVE  /\ Leq(x, x)
         /\ Leq(x, y) \/ Leq(y, x)
         /\ Less(x, y) <=> ~Leq(y, x)
         /\ Leq(x, y) /\ Leq(y, x) => x = y
         /\ Less(x, y) <=> Leq(x, y) /\ x # y
<1>1. PICK a \in Int, b \in Int, d \in Nat \ {0} : x = Frac(a, d) /\ y = Frac(b, d)
  BY CommonDenominator
<1>2. /\ Leq(x, x) <=> a <= a
      /\ Leq(x, y) <=> a <= b
      /\ Leq(y, x) <=> b <= a
      /\ Less(x, y) <=> a < b
      /\ x = y <=> a = b
  <2>1. Leq(Frac(a, d), Frac(a, d)) <=> a <= a
    BY OnOneDenominator
  <2>2. Leq(Frac(b, d), Frac(a, d)) <=> b <= a
    BY OnOneDenominator
  <2>3. QED
    BY <1>1, <2>1, <2>2, OnOneDenominator
<1>3. QED
  BY <1>2

\* Leq is transitive.
LEMMA LeqTransitive ==
  ASSUME NEW x \in Rational, NEW y \in Rational, NEW z \in Rational, Leq(x, y), Leq(y, z)
  PROVE  Leq(x, z)
<1>1. PICK a \in Int, b \in Int, c \in Int, d \in Nat \ {0} :
         x = Frac(a, d) /\ y = Frac(b, d) /\ z = Frac(c, d)
  BY CommonDenominator3
<1>2. (Leq(x, y) <=> a <= b) /\ (Leq(y, z) <=> b <= c) /\ (Leq(x, z) <=> a <= c)
  BY <1>1, OnOneDenominator
<1>3. QED
  BY <1>2

\* The larger and the smaller of two rationals.
LEMMA MaxMin ==
  ASSUME NEW x \in Rational, NEW y \in Rational
  PROVE  /\ MaxOf(x, y) \in Rational /\ Leq(x, MaxOf(x, y)) /\ Leq(y, MaxOf(x, y))
         /\ MinOf(x, y) \in Rational /\ Leq(MinOf(x, y), x) /\ Leq(MinOf(x, y), y)
BY TotalOrder DEF MaxOf, MinOf

(***************************************************************************)
(* The distance of two rationals.                                          *)
(***************************************************************************)
LEMMA AbsOfDifference ==
  ASSUME NEW x \in Rational, NEW y \in Rational
  PROVE  /\ AbsOf(x -- y) \in Rational
         /\ Leq(Zero, AbsOf(x -- y))
         /\ Leq(y, x) => AbsOf(x -- y) = x -- y
         /\ Leq(x, y) => AbsOf(x -- y) = y -- x
         /\ AbsOf(x -- y) = Zero <=> x = y
         /\ Zero -- (x -- y) = y -- x
         /\ Less(x, y) <=> Less(Zero, y -- x)
         /\ Less(x, y) <=> Less(x -- y, Zero)
<1>1. PICK a \in Int, b \in Int, d \in Nat \ {0} : x = Frac(a, d) /\ y = Frac(b, d)
  BY CommonDenominator
<1>2. x -- y = Frac(a - b, d) /\ y -- x = Frac(b - a, d) /\ Zero = Frac(0, d)
  <2>1. Frac(b, d) -- Frac(a, d) = Frac(b - a, d)
    BY OnOneDenominator
  <2>2. QED
    BY <1>1, <2>1, OnOneDenominator, ZeroIs
<1>3. /\ Leq(x, y) <=> a <= b
      /\ Leq(y, x) <=> b <= a
      /\ Less(x, y) <=> a < b
      /\ x = y <=> a = b
  <2>1. Leq(Frac(b, d), Frac(a, d)) <=> b <= a
    BY OnOneDenominator
  <2>2. QED
    BY <1>1, <2>1, OnOneDenominator
<1> DEFINE z == x -- y
           m == a - b
<1>4. m \in Int /\ z = Frac(m, d) /\ z.num \in Int /\ z.den \in Nat \ {0}
  BY <1>2, FracTyped
<1> HIDE DEF z, m
<1>5. z.num < 0 <=> m < 0
  <2>1. Less(z, Zero) <=> z.num * 1 < 0 * z.den
    BY DEF Less, Zero, Rat
  <2>2. Less(Frac(m, d), Zero) <=> m < 0
    BY <1>4, SignOf
  <2>3. QED
    BY <2>1, <2>2, <1>2, <1>4
<1>6. Zero -- z = Frac(b - a, d)
  <2>1. Zero -- Frac(m, d) = Frac(0 - m, d)
    BY <1>4, SignOf
  <2>2. 0 - m = b - a
    BY DEF m
  <2>3. QED
    BY <2>1, <2>2, <1>2, <1>4
<1>7. AbsOf(z) = IF a < b THEN Frac(b - a, d) ELSE Frac(a - b, d)
  BY <1>4, <1>5, <1>6 DEF AbsOf, m
<1> DEFINE n == IF a < b THEN b - a ELSE a - b
<1>8. AbsOf(z) = Frac(n, d) /\ n \in Int /\ 0 <= n /\ (n = 0 <=> a = b)
  BY <1>7
<1> HIDE DEF n
<1>9. AbsOf(z) \in Rational /\ Leq(Zero, AbsOf(z)) /\ (AbsOf(z) = Zero <=> a = b)
  <2>1. Leq(Zero, Frac(n, d)) /\ (Frac(n, d) = Zero <=> n = 0)
    BY <1>8, SignOf
  <2>2. QED
    BY <1>2, <1>8, <2>1, FracIn
<1>10. b - a \in Int /\ a - b \in Int
  OBVIOUS
<1>11. /\ Less(Zero, y -- x) <=> 0 < b - a
       /\ Less(x -- y, Zero) <=> a - b < 0
  BY <1>2, <1>10, SignOf
<1>12. a = b => Frac(a - b, d) = Frac(b - a, d)
  OBVIOUS
<1>13. QED
  BY <1>2, <1>3, <1>6, <1>7, <1>9, <1>11, <1>12 DEF z

(***************************************************************************)
(* Products and quotients.                                                 *)
(***************************************************************************)
LEMMA Products ==
  ASSUME NEW x \in Rational, NEW y \in Rational
  PROVE  /\ x ** y = y ** x
         /\ x ** Zero = Zero
         /\ x -- Zero = x
         /\ x ++ Zero = x
         /\ Zero ++ x = x
         /\ x ** Rat(1) = x
         /\ Less(Zero, y) => (x // y) ** y = x /\ y ** (x // y) = x
         /\ Less(Zero, x) /\ Less(Zero, y) => Less(Zero, x ** y) /\ Less(Zero, x // y)
         /\ Leq(Zero, x) /\ Leq(Zero, y) => Leq(Zero, x ** y)
         /\ Leq(Zero, x) /\ Less(Zero, y) => Leq(Zero, x // y)
<1> DEFINE p == x.num
           q == x.den
           r == y.num
           s == y.den
<1>1. p \in Int /\ q \in Nat \ {0} /\ r \in Int /\ s \in Nat \ {0} /\ x = Frac(p, q) /\ y = Frac(r, s)
  BY RationalIs
<1> HIDE DEF p, q, r, s
<1>2. x ** y = Frac(p * r, q * s) /\ y ** x = Frac(r * p, s * q)
  BY <1>1, FracOps
<1>3. p * r = r * p /\ q * s = s * q /\ q * s \in Nat \ {0} /\ p * r \in Int
  <2>1. q * s > 0
    BY <1>1
  <2>2. QED
    BY <1>1, <2>1
<1>4. x ** y = y ** x
  BY <1>2, <1>3
<1>5. Zero = Frac(0, q) /\ Zero = Frac(0, s) /\ Zero = Frac(0, q * s) /\ Zero = Frac(0, 1)
      /\ Rat(1) = Frac(1, 1)
  <2>1. 1 \in Nat \ {0}
    OBVIOUS
  <2>2. QED
    BY <2>1, <1>1, <1>3, ZeroIs, RatIs
<1>6. x ** Zero = Zero
  <2>1. Frac(p, q) ** Frac(0, 1) = Frac(p * 0, q * 1)
    BY <1>1, FracOps
  <2>2. p * 0 = 0 /\ q * 1 = q
    BY <1>1
  <2>3. QED
    BY <2>1, <2>2, <1>1, <1>5
<1>7. x -- Zero = x /\ x ++ Zero = x /\ Zero ++ x = x
  <2> DEFINE o == 0
  <2>1. o \in Int /\ Zero = Frac(o, q) /\ p - o = p /\ p + o = p /\ o + p = p
    BY <1>1, <1>5
  <2> HIDE DEF o
  <2>2. Frac(p, q) -- Frac(o, q) = Frac(p - o, q) /\ Frac(p, q) ++ Frac(o, q) = Frac(p + o, q)
    BY <1>1, <2>1, OnOneDenominator
  <2>3. Frac(o, q) ++ Frac(p, q) = Frac(o + p, q)
    BY <1>1, <2>1, OnOneDenominator
  <2>4. QED
    BY <2>1, <2>2, <2>3, <1>1
<1>8. x ** Rat(1) = x
  <2>1. Frac(p, q) ** Frac(1, 1) = Frac(p * 1, q * 1)
    BY <1>1, FracOps
  <2>2. p * 1 = p /\ q * 1 = q
    BY <1>1
  <2>3. QED
    BY <2>1, <2>2, <1>1, <1>5
<1>9. (Less(Zero, x) <=> 0 < p) /\ (Less(Zero, y) <=> 0 < r)
      /\ (Leq(Zero, x) <=> 0 <= p) /\ (Leq(Zero, y) <=> 0 <= r)
  BY <1>1, SignOf
<1>10. (Less(Zero, x ** y) <=> 0 < p * r) /\ (Leq(Zero, x ** y) <=> 0 <= p * r)
  <2> DEFINE m == p * r
             n == q * s
  <2>1. m \in Int /\ n \in Nat \ {0}
    BY <1>3
  <2> HIDE DEF m, n
  <2>2. (Less(Zero, Frac(m, n)) <=> 0 < m) /\ (Leq(Zero, Frac(m, n)) <=> 0 <= m)
    BY <2>1, SignOf
  <2>3. QED
    BY <2>2, <1>2 DEF m, n
<1>11. (0 < p /\ 0 < r => 0 < p * r) /\ (0 <= p /\ 0 <= r => 0 <= p * r)
  BY <1>1
<1>12. ASSUME 0 < r
       PROVE  /\ (x // y) ** y = x /\ y ** (x // y) = x
              /\ 0 < p => Less(Zero, x // y)
              /\ 0 <= p => Leq(Zero, x // y)
  <2> DEFINE m == p * s
             n == q * r
  <2>1. m \in Int /\ n \in Nat \ {0}
    <3>1. q * r > 0
      BY <1>1, <1>12
    <3>2. QED
      BY <3>1, <1>1
  <2>2. x // y = Frac(m, n)
    BY <1>1, <1>12, FracDiv
  <2>3. (m * r) * q = p * (n * s)
    <3>1. ((p * s) * r) * q = p * ((q * r) * s)
      BY <1>1
    <3>2. QED
      BY <3>1
  <2>4. 0 < p => 0 < m
    BY <1>1
  <2>5. 0 <= p => 0 <= m
    BY <1>1
  <2> HIDE DEF m, n
  <2>6. Frac(m, n) ** Frac(r, s) = Frac(m * r, n * s)
    BY <1>1, <2>1, FracOps
  <2>7. n * s \in Nat \ {0} /\ m * r \in Int
    <3>1. n * s > 0
      BY <1>1, <2>1
    <3>2. QED
      BY <3>1, <1>1, <2>1
  <2>8. Frac(m * r, n * s) = Frac(p, q)
    BY <2>3, <2>7, <1>1, FracEqual
  <2>9. (x // y) ** y = x
    BY <2>2, <2>6, <2>8, <1>1
  <2>10. Frac(r, s) ** Frac(m, n) = Frac(r * m, s * n)
    BY <1>1, <2>1, FracOps
  <2>11. r * m = m * r /\ s * n = n * s
    BY <1>1, <2>1
  <2>12. y ** (x // y) = x
    BY <2>2, <2>10, <2>11, <2>8, <1>1
  <2>13. (Less(Zero, Frac(m, n)) <=> 0 < m) /\ (Leq(Zero, Frac(m, n)) <=> 0 <= m)
    BY <2>1, SignOf
  <2>14. QED
    BY <2>2, <2>4, <2>5, <2>9, <2>12, <2>13
<1>13. QED
  BY <1>4, <1>6, <1>7, <1>8, <1>9, <1>10, <1>11, <1>12

\* The scale of the oscillators.
LEMMA HundredIs == Hundred \in Rational /\ Less(Zero, Hundred) /\ Leq(Zero, Hundred)
<1>1. 100 \in Nat \ {0}
  OBVIOUS
<1>2. Hundred \in Rational /\ Less(Zero, Hundred)
  BY <1>1, PositiveRat DEF Hundred
<1>3. QED
  BY <1>2, TotalOrder, ZeroIs

(***************************************************************************)
(* Sums and differences can be rearranged.                                 *)
(***************************************************************************)
LEMMA Rearranged ==
  ASSUME NEW x \in Rational, NEW y \in Rational, NEW z \in Rational, NEW u \in Rational
  PROVE  /\ (x -- y) ++ (z -- u) = (x ++ z) -- (y ++ u)
         /\ (x -- y) ++ z = (x ++ z) -- y
         /\ x -- x = Zero
<1>1. PICK a \in Int, b \in Int, c \in Int, e \in Int, d \in Nat \ {0} :
         x = Frac(a, d) /\ y = Frac(b, d) /\ z = Frac(c, d) /\ u = Frac(e, d)
  BY CommonDenominator4
<1> DEFINE ab == a - b
           ce == c - e
           ac == a + c
           be == b + e
<1>2. ab \in Int /\ ce \in Int /\ ac \in Int /\ be \in Int
  OBVIOUS
<1>3. x -- y = Frac(ab, d)
  BY <1>1, OnOneDenominator
<1>4. z -- u = Frac(ce, d)
  BY <1>1, OnOneDenominator
<1>5. x ++ z = Frac(ac, d)
  BY <1>1, OnOneDenominator
<1>6. y ++ u = Frac(be, d)
  BY <1>1, OnOneDenominator
<1>7. ab + ce = ac - be /\ ab + c = ac - b /\ a - a = 0
  OBVIOUS
<1> HIDE DEF ab, ce, ac, be
<1>8. Frac(ab, d) ++ Frac(ce, d) = Frac(ab + ce, d)
  BY <1>2, OnOneDenominator
<1>9. Frac(ac, d) -- Frac(be, d) = Frac(ac - be, d)
  BY <1>2, OnOneDenominator
<1>10. Frac(ab, d) ++ Frac(c, d) = Frac(ab + c, d)
  BY <1>2, OnOneDenominator
<1>11. Frac(ac, d) -- Frac(b, d) = Frac(ac - b, d)
  BY <1>2, OnOneDenominator
<1>12. Frac(a, d) -- Frac(a, d) = Frac(a - a, d) /\ Zero = Frac(0, d)
  BY OnOneDenominator, ZeroIs
<1>13. QED
  BY <1>1, <1>3, <1>4, <1>5, <1>6, <1>7, <1>8, <1>9, <1>10, <1>11, <1>12

\* One more times the same.
LEMMA TimesNext ==
  ASSUME NEW l \in Rational, NEW i \in Int
  PROVE  l ** Rat(i) = (l ** Rat(i - 1)) ++ l
<1> DEFINE c == l.num
           d == l.den
           j == i - 1
           C == c * j
<1>1. c \in Int /\ d \in Nat \ {0} /\ l = Frac(c, d)
  BY RationalIs
<1>2. j \in Int /\ 1 \in Nat \ {0}
  OBVIOUS
<1> HIDE DEF c, d
<1>3. Rat(i) = Frac(i, 1) /\ Rat(j) = Frac(j, 1)
  BY <1>2, RatIs
<1>4. C \in Int /\ C + c = c * i /\ d * 1 = d
  BY <1>1
<1> HIDE DEF j
<1>5. Frac(c, d) ** Frac(i, 1) = Frac(c * i, d * 1)
  BY <1>1, <1>2, FracOps
<1>6. Frac(c, d) ** Frac(j, 1) = Frac(C, d * 1)
  BY <1>1, <1>2, FracOps
<1> HIDE DEF C
<1>7. Frac(C, d) ++ Frac(c, d) = Frac(C + c, d)
  BY <1>1, <1>4, OnOneDenominator
<1>8. QED
  BY <1>1, <1>3, <1>4, <1>5, <1>6, <1>7 DEF j

\* Sums grow with their parts.
LEMMA AddMonotone ==
  ASSUME NEW x \in Rational, NEW y \in Rational, NEW z \in Rational, NEW u \in Rational,
         Leq(x, y), Leq(z, u)
  PROVE  Leq(x ++ z, y ++ u)
<1>1. PICK a \in Int, b \in Int, c \in Int, e \in Int, d \in Nat \ {0} :
         x = Frac(a, d) /\ y = Frac(b, d) /\ z = Frac(c, d) /\ u = Frac(e, d)
  BY CommonDenominator4
<1>2. (Leq(Frac(a, d), Frac(b, d)) <=> a <= b) /\ (Leq(Frac(c, d), Frac(e, d)) <=> c <= e)
  BY OnOneDenominator
<1>3. Frac(a, d) ++ Frac(c, d) = Frac(a + c, d) /\ Frac(b, d) ++ Frac(e, d) = Frac(b + e, d)
  BY OnOneDenominator
<1> DEFINE m == a + c
           n == b + e
<1>4. m \in Int /\ n \in Int /\ m <= n
  BY <1>1, <1>2
<1> HIDE DEF m, n
<1>5. Leq(Frac(m, d), Frac(n, d))
  BY <1>4, OnOneDenominator
<1>6. QED
  BY <1>1, <1>3, <1>5 DEF m, n

\* A bound on a quotient is one on the product, for a positive divisor.
LEMMA QuotientBounds ==
  ASSUME NEW x \in Rational, NEW y \in Rational, NEW l \in Rational, Less(Zero, y)
  PROVE  /\ Leq(l ** y, x) <=> Leq(l, x // y)
         /\ Leq(x, l ** y) <=> Leq(x // y, l)
         /\ Less(l ** y, x) <=> Less(l, x // y)
<1>1. PICK a \in Int, c \in Int, d \in Nat \ {0} : x = Frac(a, d) /\ l = Frac(c, d)
  BY CommonDenominator
<1> DEFINE r == y.num
           s == y.den
<1>2. r \in Int /\ s \in Nat \ {0} /\ y = Frac(r, s)
  BY RationalIs
<1> HIDE DEF r, s
<1>3. r \in Nat \ {0}
  BY <1>2, SignOf
<1>4. l ** y = Frac(c * r, d * s) /\ x // y = Frac(a * s, d * r)
  <2>1. Frac(c, d) ** Frac(r, s) = Frac(c * r, d * s)
    BY <1>2, FracOps
  <2>2. Frac(a, d) // Frac(r, s) = Frac(a * s, d * r)
    BY <1>2, <1>3, FracDiv
  <2>3. QED
    BY <1>1, <1>2, <2>1, <2>2
<1> DEFINE P == c * r
           Q == a * s
           D == d * s
           E == d * r
<1>5. P \in Int /\ Q \in Int /\ D \in Nat \ {0} /\ E \in Nat \ {0}
  <2>1. d * s > 0 /\ d * r > 0
    BY <1>2, <1>3
  <2>2. QED
    BY <2>1, <1>2
<1>6. /\ P * d = c * E
      /\ a * D = Q * d
  BY <1>2, <1>3
<1>7. l ** y = Frac(P, D) /\ x // y = Frac(Q, E)
  BY <1>4
<1> HIDE DEF P, Q, D, E
<1>8. /\ Leq(Frac(P, D), Frac(a, d)) <=> P * d <= a * D
      /\ Less(Frac(P, D), Frac(a, d)) <=> P * d < a * D
  BY <1>5, FracOps
<1>9. Leq(Frac(a, d), Frac(P, D)) <=> a * D <= P * d
  BY <1>5, FracOps
<1>10. /\ Leq(Frac(c, d), Frac(Q, E)) <=> c * E <= Q * d
       /\ Less(Frac(c, d), Frac(Q, E)) <=> c * E < Q * d
  BY <1>5, FracOps
<1>11. Leq(Frac(Q, E), Frac(c, d)) <=> Q * d <= c * E
  BY <1>5, FracOps
<1>12. QED
  BY <1>1, <1>6, <1>7, <1>8, <1>9, <1>10, <1>11

\* Products by what is not negative grow with the other factor.
LEMMA MulMonotone ==
  ASSUME NEW x \in Rational, NEW y \in Rational, NEW l \in Rational, Leq(Zero, l), Leq(x, y)
  PROVE  Leq(l ** x, l ** y)
<1>1. PICK a \in Int, b \in Int, d \in Nat \ {0} : x = Frac(a, d) /\ y = Frac(b, d)
  BY CommonDenominator
<1> DEFINE r == l.num
           s == l.den
<1>2. r \in Int /\ s \in Nat \ {0} /\ l = Frac(r, s)
  BY RationalIs
<1> HIDE DEF r, s
<1>3. 0 <= r
  BY <1>2, SignOf
<1>4. a <= b
  <2>1. Leq(Frac(a, d), Frac(b, d)) <=> a <= b
    BY OnOneDenominator
  <2>2. QED
    BY <1>1, <2>1
<1> DEFINE P == r * a
           Q == r * b
           D == s * d
<1>5. P \in Int /\ Q \in Int /\ D \in Nat \ {0} /\ P <= Q
  <2>1. s * d > 0
    BY <1>2
  <2>2. r * a <= r * b
    BY <1>2, <1>3, <1>4
  <2>3. QED
    BY <2>1, <2>2, <1>2
<1>6. Frac(r, s) ** Frac(a, d) = Frac(P, D)
  BY <1>2, FracOps
<1>7. Frac(r, s) ** Frac(b, d) = Frac(Q, D)
  BY <1>2, FracOps
<1> HIDE DEF P, Q, D
<1>8. Leq(Frac(P, D), Frac(Q, D))
  BY <1>5, OnOneDenominator
<1>9. QED
  BY <1>1, <1>2, <1>6, <1>7, <1>8

\* Signs and bounds of differences and of distances.
LEMMA DifferenceBounds ==
  ASSUME NEW x \in Rational, NEW y \in Rational, NEW z \in Rational
  PROVE  /\ Leq(x, y) <=> Leq(Zero, y -- x)
         /\ Leq(x, y) => Leq(x -- z, y -- z)
         /\ Leq(Zero, x) => Leq(y -- x, y)
         /\ Leq(Zero, x) /\ Leq(Zero, y) => /\ Leq(AbsOf(x -- y), x ++ y)
                                            /\ Leq(Zero, x ++ y)
                                            /\ Leq(x, x ++ y)
         /\ Less(Zero, x) /\ Leq(Zero, y) => Less(Zero, x ++ y)
<1>1. PICK a \in Int, b \in Int, c \in Int, d \in Nat \ {0} :
         x = Frac(a, d) /\ y = Frac(b, d) /\ z = Frac(c, d)
  BY CommonDenominator3
<1> DEFINE ba == b - a
           ac == a - c
           bc == b - c
           s == a + b
           ab == a - b
<1>2. ba \in Int /\ ac \in Int /\ bc \in Int /\ s \in Int /\ ab \in Int
  OBVIOUS
<1>3. y -- x = Frac(ba, d)
  BY <1>1, OnOneDenominator
<1>4. x -- z = Frac(ac, d)
  BY <1>1, OnOneDenominator
<1>5. y -- z = Frac(bc, d)
  BY <1>1, OnOneDenominator
<1>6. x ++ y = Frac(s, d)
  BY <1>1, OnOneDenominator
<1>7. x -- y = Frac(ab, d)
  BY <1>1, OnOneDenominator
<1>8. (Leq(x, y) <=> a <= b) /\ (Leq(Zero, x) <=> 0 <= a) /\ (Leq(Zero, y) <=> 0 <= b)
      /\ (Less(Zero, x) <=> 0 < a) /\ (Leq(y, x) <=> b <= a)
  <2>1. Leq(Frac(b, d), Frac(a, d)) <=> b <= a
    BY OnOneDenominator
  <2>2. QED
    BY <1>1, <2>1, OnOneDenominator, SignOf
<1>9. /\ a <= b <=> 0 <= ba
      /\ a <= b => ac <= bc
      /\ 0 <= a => ba <= b
      /\ 0 <= a /\ 0 <= b => 0 <= s /\ a <= s /\ ab <= s /\ ba <= s
      /\ 0 < a /\ 0 <= b => 0 < s
  OBVIOUS
<1> HIDE DEF ba, ac, bc, s, ab
<1>10. Leq(Zero, Frac(ba, d)) <=> 0 <= ba
  BY <1>2, SignOf
<1>11. Leq(Frac(ac, d), Frac(bc, d)) <=> ac <= bc
  BY <1>2, OnOneDenominator
<1>12. Leq(Frac(ba, d), Frac(b, d)) <=> ba <= b
  BY <1>2, OnOneDenominator
<1>13. Leq(Frac(ab, d), Frac(s, d)) <=> ab <= s
  BY <1>2, OnOneDenominator
<1>14. Leq(Frac(ba, d), Frac(s, d)) <=> ba <= s
  BY <1>2, OnOneDenominator
<1>15. (Leq(Zero, Frac(s, d)) <=> 0 <= s) /\ (Less(Zero, Frac(s, d)) <=> 0 < s)
  BY <1>2, SignOf
<1>16. Leq(Frac(a, d), Frac(s, d)) <=> a <= s
  BY <1>2, OnOneDenominator
<1>17. AbsOf(x -- y) = x -- y \/ AbsOf(x -- y) = y -- x
  <2>1. Leq(x, y) \/ Leq(y, x)
    BY TotalOrder
  <2>2. QED
    BY <2>1, AbsOfDifference
<1>18. 0 <= a /\ 0 <= b => Leq(AbsOf(x -- y), x ++ y)
  BY <1>3, <1>6, <1>7, <1>9, <1>13, <1>14, <1>17
<1>19. QED
  BY <1>1, <1>3, <1>4, <1>5, <1>6, <1>8, <1>9, <1>10, <1>11, <1>12, <1>15, <1>16, <1>18

\* Products distribute over sums.
LEMMA Distributes ==
  ASSUME NEW l \in Rational, NEW x \in Rational, NEW y \in Rational
  PROVE  l ** (x ++ y) = (l ** x) ++ (l ** y)
<1>1. PICK a \in Int, b \in Int, d \in Nat \ {0} : x = Frac(a, d) /\ y = Frac(b, d)
  BY CommonDenominator
<1> DEFINE c == l.num
           e == l.den
           ab == a + b
           D == e * d
           A == c * a
           B == c * b
<1>2. c \in Int /\ e \in Nat \ {0} /\ l = Frac(c, e)
  BY RationalIs
<1> HIDE DEF c, e
<1>3. ab \in Int /\ D \in Nat \ {0} /\ A \in Int /\ B \in Int /\ c * ab = A + B
  BY <1>2
<1>4. x ++ y = Frac(ab, d)
  BY <1>1, OnOneDenominator
<1> HIDE DEF ab
<1>5. l ** (x ++ y) = Frac(c * ab, D)
  BY <1>2, <1>3, <1>4, FracOps
<1>6. l ** x = Frac(A, D)
  BY <1>1, <1>2, FracOps
<1>7. l ** y = Frac(B, D)
  BY <1>1, <1>2, FracOps
<1> HIDE DEF A, B, D
<1>8. Frac(A, D) ++ Frac(B, D) = Frac(A + B, D)
  BY <1>3, OnOneDenominator
<1>9. QED
  BY <1>3, <1>5, <1>6, <1>7, <1>8
=============================================================================
