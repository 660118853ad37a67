----------------------------- MODULE NumberLemmas -----------------------------
(***************************************************************************)
(* Induction on the natural numbers, and that a recursive function whose   *)
(* argument gets smaller is defined, in forms that name sets and functions *)
(* where the library's theorems take operators.                            *)
(***************************************************************************)
EXTENDS Integers, FiniteSets, FiniteSetTheorems, WellFoundedInduction, TLAPS

\* A nonempty set of natural numbers has a least element.
LEMMA LeastNumber ==
  ASSUME NEW T, T \subseteq Nat, T # {}
  PROVE  \E n \in T : \A m \in T : n <= m
<1>1. \E x \in T : \A y \in T : <<y, x>> \notin OpToRel(<, Nat)
  BY NatLessThanWellFounded, WFMin, Zenon
<1>2. \E x \in T : \A y \in T : ~ (x \in Nat /\ y \in Nat /\ y < x)
  BY <1>1, Zenon DEF OpToRel
<1>3. \E x \in T : \A y \in T : x <= y
  BY <1>2
<1> QED
  BY <1>3, Zenon

\* A set that holds 0 and with each number the next holds every number.
LEMMA EveryNumber ==
  ASSUME NEW S, 0 \in S, \A n \in Nat : n \in S => n + 1 \in S
  PROVE  \A n \in Nat : n \in S
<1> DEFINE T == {n \in Nat : n \notin S}
<1> SUFFICES ASSUME T # {} PROVE FALSE
  OBVIOUS
<1>1. PICK n \in T : \A m \in T : n <= m
  <2>1. T \subseteq Nat
    OBVIOUS
  <2> HIDE DEF T
  <2> QED
    BY <2>1, LeastNumber
<1>2. n \in Nat /\ n \notin S /\ n # 0
  BY <1>1
<1>3. n - 1 \in Nat /\ n - 1 \notin T
  BY <1>1, <1>2
<1>4. (n - 1) + 1 \in S
  BY <1>3
<1> QED
  BY <1>2, <1>4

\* Outside Stop, next leads to an argument of smaller rank.
Descends(D, Stop, next, rank, bound) ==
  /\ bound \in Nat /\ rank \in [D -> 0 .. bound]
  /\ \A x \in D : x \notin Stop => next[x] \in D /\ rank[next[x]] < rank[x]

\* f is the function the recursion defines.
Recurses(f, D, Stop, value, next) ==
  f = [x \in D |-> IF x \in Stop THEN value[x] ELSE f[next[x]]]

\* next stays within Start, and the values there are Results.
Keeps(D, Stop, value, next, Start, Results) ==
  /\ Start \subseteq D
  /\ \A x \in Start : IF x \in Stop THEN value[x] \in Results ELSE next[x] \in Start

\* A recursion that goes on, at most once, at an argument of smaller rank defines
\* a function, when the ranks are bounded.
LEMMA TailRecursion ==
  ASSUME NEW D, NEW Stop, NEW value, NEW next, NEW rank, NEW bound,
         Descends(D, Stop, next, rank, bound)
  PROVE  \E f : Recurses(f, D, Stop, value, next)
<1> DEFINE Below(n) == {x \in D : rank[x] < n}
           Solves(f, n) == \A x \in Below(n) :
                             f[x] = IF x \in Stop THEN value[x] ELSE f[next[x]]
           S == {n \in Nat : \E f : f = [x \in D |-> f[x]] /\ Solves(f, n)}
<1> USE DEF Descends
<1>1. 0 \in S
  <2>1. \A x \in D : ~ (rank[x] < 0)
    OBVIOUS
  <2> DEFINE f == [x \in D |-> 0]
  <2>2. f = [x \in D |-> f[x]] /\ Solves(f, 0)
    BY <2>1
  <2> QED
    BY <2>2
<1>2. ASSUME NEW n \in Nat, n \in S
      PROVE  n + 1 \in S
  <2>1. PICK f : f = [x \in D |-> f[x]] /\ Solves(f, n)
    BY <1>2
  <2> DEFINE g == [x \in D |-> IF x \in Stop THEN value[x] ELSE f[next[x]]]
  <2>2. \A x \in Below(n) : g[x] = f[x]
    BY <2>1
  <2>3. ASSUME NEW x \in Below(n + 1)
        PROVE  g[x] = IF x \in Stop THEN value[x] ELSE g[next[x]]
    <3>1. CASE x \in Stop
      BY <3>1
    <3>2. CASE x \notin Stop
      <4>1. next[x] \in D /\ rank[next[x]] < n
        BY <3>2
      <4>2. g[next[x]] = f[next[x]]
        BY <4>1, <2>2
      <4> QED
        BY <3>2, <4>2
    <3> QED
      BY <3>1, <3>2
  <2>4. g = [x \in D |-> g[x]] /\ Solves(g, n + 1)
    BY <2>3
  <2> HIDE DEF g
  <2> QED
    BY <2>4
<1>3. \A n \in Nat : n \in S
  <2> HIDE DEF S
  <2> QED
    BY <1>1, <1>2, EveryNumber
<1>4. PICK f : f = [x \in D |-> f[x]] /\ Solves(f, bound + 1)
  <2>1. bound + 1 \in S
    <3> HIDE DEF S
    <3> QED
      BY <1>3
  <2> QED
    BY <2>1
<1>5. \A x \in D : x \in Below(bound + 1)
  OBVIOUS
<1> QED
  BY <1>4, <1>5 DEF Recurses

\* What such a recursion returns from any of the arguments Start, when next stays
\* within Start and its values there are Results.
LEMMA TailRecursionResult ==
  ASSUME NEW D, NEW Stop, NEW value, NEW next, NEW rank, NEW bound,
         Descends(D, Stop, next, rank, bound),
         NEW f, Recurses(f, D, Stop, value, next),
         NEW Start, NEW Results, Keeps(D, Stop, value, next, Start, Results)
  PROVE  \A x \in Start : f[x] \in Results
<1> USE DEF Descends, Recurses, Keeps
<1> SUFFICES ASSUME NEW y \in Start, f[y] \notin Results PROVE FALSE
  OBVIOUS
<1> DEFINE T == {n \in Nat : \E x \in Start : n = rank[x] /\ f[x] \notin Results}
<1>1. PICK n \in T : \A m \in T : n <= m
  <2>1. T \subseteq Nat /\ rank[y] \in T
    OBVIOUS
  <2> HIDE DEF T
  <2> QED
    BY <2>1, LeastNumber
<1>2. PICK x \in Start : n = rank[x] /\ f[x] \notin Results
  OBVIOUS
<1>3. x \notin Stop /\ f[x] = f[next[x]] /\ next[x] \in Start
  BY <1>2
<1>4. rank[next[x]] \in T /\ rank[next[x]] < n
  BY <1>2, <1>3
<1> QED
  BY <1>1, <1>4
-----------------------------------------------------------------------------
\* Induction up to a bound.
LEMMA UpTo ==
  ASSUME NEW n \in Nat, NEW S, 0 \in S, \A i \in 0 .. n - 1 : i \in S => i + 1 \in S
  PROVE  \A i \in 0 .. n : i \in S
<1> DEFINE T == {i \in Nat : i <= n => i \in S}
<1>1. 0 \in T
  OBVIOUS
<1>2. \A i \in Nat : i \in T => i + 1 \in T
  OBVIOUS
<1>3. \A i \in Nat : i \in T
  <2> HIDE DEF T
  <2> QED
    BY <1>1, <1>2, EveryNumber
<1> QED
  BY <1>3

\* f[i] is what a loop that starts with `start` has after i of n rounds.
IsStep(step, D, n) == step \in [D \X (1 .. n) -> D]

Iterates(f, D, n, start, step) ==
  f \in [0 .. n -> D] /\ f[0] = start /\ \A i \in 1 .. n : f[i] = step[<<f[i - 1], i>>]

LEMMA Iteration ==
  ASSUME NEW n \in Nat, NEW D, NEW start \in D, NEW step, IsStep(step, D, n)
  PROVE  \E f : Iterates(f, D, n, start, step)
<1> USE DEF IsStep
<1> DEFINE Runs(f, m) == f[0] = start /\ \A i \in 1 .. m : f[i] = step[<<f[i - 1], i>>]
           S == {m \in Nat : \E f \in [0 .. m -> D] : Runs(f, m)}
<1>1. 0 \in S
  <2> DEFINE f == [i \in 0 .. 0 |-> start]
  <2>1. f \in [0 .. 0 -> D] /\ Runs(f, 0)
    OBVIOUS
  <2> QED
    BY <2>1
<1>2. ASSUME NEW m \in 0 .. n - 1, m \in S
      PROVE  m + 1 \in S
  <2>1. PICK f \in [0 .. m -> D] : Runs(f, m)
    BY <1>2
  <2> DEFINE g == [i \in 0 .. m + 1 |-> IF i <= m THEN f[i] ELSE step[<<f[m], m + 1>>]]
  <2>2. step[<<f[m], m + 1>>] \in D
    <3>1. f[m] \in D /\ m + 1 \in 1 .. n
      OBVIOUS
    <3> QED
      BY <3>1
  <2>3. g \in [0 .. m + 1 -> D]
    BY <2>2
  <2>4. \A i \in 0 .. m : g[i] = f[i]
    OBVIOUS
  <2>5. g[m + 1] = step[<<f[m], m + 1>>]
    OBVIOUS
  <2> HIDE DEF g
  <2>6. Runs(g, m + 1)
    <3>1. g[0] = start
      BY <2>1, <2>4
    <3>2. ASSUME NEW i \in 1 .. m + 1
          PROVE  g[i] = step[<<g[i - 1], i>>]
      <4>1. CASE i <= m
        <5>1. i \in 0 .. m /\ i - 1 \in 0 .. m /\ i \in 1 .. m
          BY <4>1
        <5> QED
          BY <2>1, <2>4, <5>1
      <4>2. CASE i = m + 1
        <5>1. m \in 0 .. m /\ i - 1 = m
          BY <4>2
        <5> QED
          BY <2>4, <2>5, <4>2, <5>1
      <4> QED
        BY <4>1, <4>2
    <3> QED
      BY <3>1, <3>2
  <2> QED
    BY <2>3, <2>6
<1>3. \A m \in 0 .. n : m \in S
  <2> HIDE DEF S
  <2> QED
    BY <1>1, <1>2, UpTo
<1>4. n \in S
  <2> HIDE DEF S
  <2> QED
    BY <1>3
<1> QED
  BY <1>4 DEF Iterates
-----------------------------------------------------------------------------
\* M are n numbers.
AreNumbers(M, n) == M \subseteq Nat /\ IsFiniteSet(M) /\ Cardinality(M) = n

\* f lists n of the numbers M, from the smallest on.
Lists(f, n, M) == f \in [1 .. n -> M] /\ \A i, j \in 1 .. n : i < j => f[i] < f[j]

\* Every finite set of numbers can be listed.
LEMMA CanBeListed ==
  ASSUME NEW M, NEW all \in Nat, AreNumbers(M, all)
  PROVE  \E f : Lists(f, all, M)
<1> USE DEF AreNumbers
<1> DEFINE S == {n \in Nat : \A T : AreNumbers(T, n) => \E f : Lists(f, n, T)}
<1>1. 0 \in S
  <2> SUFFICES ASSUME NEW T PROVE \E f : Lists(f, 0, T)
    OBVIOUS
  <2>1. Lists([i \in 1 .. 0 |-> i], 0, T)
    BY DEF Lists
  <2> QED
    BY <2>1
<1>2. ASSUME NEW n \in Nat, n \in S
      PROVE  n + 1 \in S
  <2> SUFFICES ASSUME NEW T, AreNumbers(T, n + 1)
               PROVE  \E f : Lists(f, n + 1, T)
    OBVIOUS
  <2>1. T # {}
    BY FS_EmptySet
  <2>2. PICK m \in T : \A x \in T : m <= x
    BY <2>1, LeastNumber
  <2>3. IsFiniteSet(T \ {m}) /\ Cardinality(T \ {m}) = n
    <3>1. /\ IsFiniteSet(T \ {m})
          /\ Cardinality(T \ {m}) = IF m \in T THEN Cardinality(T) - 1 ELSE Cardinality(T)
      <4> HIDE DEF S
      <4> QED
        BY FS_RemoveElement, Zenon
    <3> QED
      BY <2>2, <3>1
  <2>4. PICK g : Lists(g, n, T \ {m})
    BY <1>2, <2>3
  <2> DEFINE f == [i \in 1 .. n + 1 |-> IF i = 1 THEN m ELSE g[i - 1]]
  <2>5. \A i \in 1 .. n + 1 : f[i] \in T /\ (i = 1 => f[i] = m) /\ (i # 1 => m < f[i])
    <3> SUFFICES ASSUME NEW i \in 1 .. n + 1
                 PROVE  f[i] \in T /\ (i = 1 => f[i] = m) /\ (i # 1 => m < f[i])
      OBVIOUS
    <3>1. CASE i = 1
      BY <2>2, <3>1
    <3>2. CASE i # 1
      <4>1. i - 1 \in 1 .. n /\ f[i] = g[i - 1]
        BY <3>2
      <4>2. g[i - 1] \in T \ {m}
        BY <2>4, <4>1 DEF Lists
      <4>3. m < g[i - 1]
        <5>1. m \in Nat /\ g[i - 1] \in Nat /\ m <= g[i - 1] /\ m # g[i - 1]
          BY <2>2, <4>2
        <5> QED
          BY <5>1
      <4> QED
        BY <3>2, <4>1, <4>2, <4>3
    <3> QED
      BY <3>1, <3>2
  <2>6. ASSUME NEW i \in 1 .. n + 1, NEW j \in 1 .. n + 1, i < j
        PROVE  f[i] < f[j]
    <3>1. CASE i = 1
      BY <2>5, <2>6, <3>1
    <3>2. CASE i # 1
      <4>1. /\ i - 1 \in 1 .. n /\ j - 1 \in 1 .. n /\ i - 1 < j - 1 /\ j # 1
        BY <2>6, <3>2
      <4>2. f[i] = g[i - 1] /\ f[j] = g[j - 1]
        BY <3>2, <4>1
      <4> QED
        BY <2>4, <4>1, <4>2 DEF Lists
    <3> QED
      BY <3>1, <3>2
  <2>7. f \in [1 .. n + 1 -> T]
    BY <2>5
  <2> HIDE DEF f
  <2>8. Lists(f, n + 1, T)
    BY <2>6, <2>7 DEF Lists
  <2> QED
    BY <2>8
<1>3. \A n \in Nat : n \in S
  <2> HIDE DEF S
  <2> QED
    BY <1>1, <1>2, EveryNumber
<1> QED
  BY <1>3

\* As many of the numbers as there are are all of them.
LEMMA ListsAll ==
  ASSUME NEW M, NEW n \in Nat, AreNumbers(M, n), NEW f, Lists(f, n, M)
  PROVE  \A m \in M : \E i \in 1 .. n : f[i] = m
<1> USE DEF AreNumbers
<1> SUFFICES ASSUME NEW m \in M, \A i \in 1 .. n : f[i] # m PROVE FALSE
  OBVIOUS
<1>1. IsFiniteSet(M \ {m}) /\ Cardinality(M \ {m}) = n - 1
  BY FS_RemoveElement
<1>2. IsFiniteSet(1 .. n) /\ Cardinality(1 .. n) = n
  BY FS_Interval
<1>3. f \in [1 .. n -> M \ {m}]
  BY DEF Lists
<1>4. \A i \in 1 .. n : f[i] \in Nat
  BY <1>3
<1>5. PICK i \in 1 .. n, j \in 1 .. n : i # j /\ f[i] = f[j]
  BY <1>1, <1>2, <1>3, FS_PigeonHole
<1>6. i < j \/ j < i
  BY <1>5
<1>7. f[i] < f[j] \/ f[j] < f[i]
  BY <1>6 DEF Lists
<1> QED
  BY <1>4, <1>5, <1>7

\* Two lists of the same numbers agree as far as the shorter goes, when it passes
\* over none of them.
LEMMA ListsAgree ==
  ASSUME NEW M, NEW all \in Nat, AreNumbers(M, all), NEW f, Lists(f, all, M),
         NEW n \in Nat, NEW g, Lists(g, n, M),
         \A i \in 1 .. n : \A m \in M : m < g[i] => \E j \in 1 .. n : g[j] = m
  PROVE  n <= all /\ \A i \in 1 .. n : g[i] = f[i]
<1> DEFINE S == {i \in 0 .. n : i <= all /\ \A j \in 1 .. i : g[j] = f[j]}
<1>1. \A m \in M : \E i \in 1 .. all : f[i] = m
  BY ListsAll
<1>2. /\ \A i, j \in 1 .. all : i < j => f[i] < f[j]
      /\ \A i, j \in 1 .. n : i < j => g[i] < g[j]
      /\ \A i \in 1 .. all : f[i] \in M /\ f[i] \in Nat
      /\ \A i \in 1 .. n : g[i] \in M /\ g[i] \in Nat
  BY DEF Lists, AreNumbers
<1>3. 0 \in S
  OBVIOUS
<1>4. ASSUME NEW i \in 0 .. n - 1, i \in S
      PROVE  i + 1 \in S
  <2>1. i + 1 \in 1 .. n /\ i <= all /\ \A j \in 1 .. i : g[j] = f[j]
    BY <1>4
  <2>2. PICK k \in 1 .. all : f[k] = g[i + 1]
    BY <1>1, <1>2, <2>1
  <2>3. k > i
    <3> SUFFICES ASSUME k <= i PROVE FALSE
      OBVIOUS
    <3>1. k \in 1 .. i /\ k \in 1 .. n /\ k < i + 1
      OBVIOUS
    <3>2. g[k] = g[i + 1] /\ g[k] < g[i + 1]
      BY <1>2, <2>1, <2>2, <3>1
    <3> QED
      BY <1>2, <2>1, <3>1, <3>2
  <2>4. k = i + 1
    <3> SUFFICES ASSUME k # i + 1 PROVE FALSE
      OBVIOUS
    <3>1. i + 1 \in 1 .. all /\ i + 1 < k
      BY <2>3
    <3>2. f[i + 1] < g[i + 1] /\ f[i + 1] \in M
      BY <1>2, <2>2, <3>1
    <3>3. PICK j \in 1 .. n : g[j] = f[i + 1]
      BY <2>1, <3>2
    <3>4. j <= i
      <4> SUFFICES ASSUME i + 1 <= j PROVE FALSE
        OBVIOUS
      <4>1. g[i + 1] <= g[j]
        BY <1>2, <2>1
      <4> QED
        BY <1>2, <2>1, <3>1, <3>2, <3>3, <4>1
    <3>5. f[j] = f[i + 1] /\ j \in 1 .. all /\ j < i + 1
      BY <2>1, <3>3, <3>4
    <3>6. f[j] < f[i + 1]
      BY <1>2, <3>1, <3>5
    <3> QED
      BY <1>2, <3>1, <3>5, <3>6
  <2>5. i + 1 <= all /\ g[i + 1] = f[i + 1]
    BY <2>2, <2>4
  <2>6. \A j \in 1 .. i + 1 : g[j] = f[j]
    BY <2>1, <2>5
  <2> QED
    BY <2>1, <2>5, <2>6
<1>5. \A i \in 0 .. n : i \in S
  <2> HIDE DEF S
  <2> QED
    BY <1>3, <1>4, UpTo
<1>6. n \in S
  <2> HIDE DEF S
  <2> QED
    BY <1>5
<1> QED
  BY <1>6

\* A list of all the numbers is as long as they are many.
LEMMA ListsComplete ==
  ASSUME NEW M, NEW all \in Nat, AreNumbers(M, all), NEW f, Lists(f, all, M),
         NEW n \in Nat, NEW g, Lists(g, n, M), \A m \in M : \E j \in 1 .. n : g[j] = m
  PROVE  n = all
<1>1. n <= all /\ \A i \in 1 .. n : g[i] = f[i]
  <2>1. \A i \in 1 .. n : \A m \in M : m < g[i] => \E j \in 1 .. n : g[j] = m
    OBVIOUS
  <2> QED
    BY <2>1, ListsAgree
<1>2. /\ \A i, j \in 1 .. all : i < j => f[i] < f[j]
      /\ \A i \in 1 .. all : f[i] \in M /\ f[i] \in Nat
  BY DEF Lists, AreNumbers
<1> SUFFICES ASSUME n < all PROVE FALSE
  BY <1>1
<1>3. n + 1 \in 1 .. all
  OBVIOUS
<1>4. PICK j \in 1 .. n : g[j] = f[n + 1]
  BY <1>2, <1>3
<1>5. f[j] = f[n + 1] /\ j \in 1 .. all /\ j < n + 1
  BY <1>1, <1>4
<1> QED
  BY <1>2, <1>3, <1>5
=============================================================================
