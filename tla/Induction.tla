----------------------------- MODULE Induction ------------------------------
(***************************************************************************)
(* Induction on natural numbers, on finite sets and along a recursive      *)
(* function, and sums over finite sets, in terms of sets.  The theorems of *)
(* the library take the formula to be proved as an operator, which is no   *)
(* use to first-order provers; here it is a set, of which any formula      *)
(* makes one.                                                              *)
(***************************************************************************)
EXTENDS Integers, FiniteSets, Functions, FiniteSetTheorems, WellFoundedInduction, TLAPS

\* A set of naturals that is not empty has a least element.
LEMMA LeastNumber ==
  ASSUME NEW S \in SUBSET Nat, S # {}
  PROVE  \E n \in S : \A m \in S : n <= m
<1> DEFINE R == OpToRel(<, Nat)
<1>1. IsWellFoundedOn(R, Nat)
  BY NatLessThanWellFounded
<1>2. \E n \in S : \A m \in S : ~ (<<m, n>> \in R)
  <2> HIDE DEF R
  <2> QED
    BY <1>1, WFMin
<1>3. ASSUME NEW n \in S, NEW m \in S, ~ (<<m, n>> \in R)
      PROVE  n <= m
  BY <1>3 DEF OpToRel
<1> QED
  BY <1>2, <1>3

\* A set that has 0, and with a number its successor, has all up to any N.
LEMMA CountUp ==
  ASSUME NEW N \in Nat, NEW S, 0 \in S, \A n \in 0 .. N - 1 : n \in S => n + 1 \in S
  PROVE  0 .. N \subseteq S
<1> DEFINE T == (0 .. N) \ S
<1> SUFFICES ASSUME T # {} PROVE FALSE
  OBVIOUS
<1>1. T \in SUBSET Nat
  OBVIOUS
<1>2. PICK n \in T : \A m \in T : n <= m
  <2> HIDE DEF T
  <2> QED
    BY <1>1, LeastNumber
<1>3. n # 0
  OBVIOUS
<1>4. n - 1 \in 0 .. N - 1 /\ n - 1 \in S
  BY <1>2, <1>3
<1> QED
  BY <1>2, <1>4

\* `f` and `g` start alike and go on alike.
SameSteps(f, g, N) ==
  f[0] = g[0] /\ \A n \in 1 .. N : f[n - 1] = g[n - 1] => f[n] = g[n]

\* So they are the same all along.
LEMMA SameAlong ==
  ASSUME NEW N \in Nat, NEW f, NEW g, SameSteps(f, g, N)
  PROVE  \A n \in 0 .. N : f[n] = g[n]
<1> DEFINE S == {n \in 0 .. N : f[n] = g[n]}
<1>1. 0 \in S
  BY DEF SameSteps
<1>2. ASSUME NEW n \in 0 .. N - 1, n \in S PROVE n + 1 \in S
  <2>1. n + 1 \in 1 .. N /\ (n + 1) - 1 = n /\ n + 1 \in 0 .. N
    OBVIOUS
  <2> QED
    BY <1>2, <2>1 DEF SameSteps
<1> HIDE DEF S
<1>3. 0 .. N \subseteq S
  BY <1>1, <1>2, CountUp
<1> QED
  BY <1>3 DEF S

\* The values of `f` start in V and stay there.
StepsWithin(f, V, N) ==
  f[0] \in V /\ \A n \in 1 .. N : f[n - 1] \in V => f[n] \in V

\* So they are in V all along.
LEMMA StaysAlong ==
  ASSUME NEW N \in Nat, NEW V, NEW f, StepsWithin(f, V, N)
  PROVE  \A n \in 0 .. N : f[n] \in V
<1> DEFINE S == {n \in 0 .. N : f[n] \in V}
<1>1. 0 \in S
  BY DEF StepsWithin
<1>2. ASSUME NEW n \in 0 .. N - 1, n \in S PROVE n + 1 \in S
  <2>1. n + 1 \in 1 .. N /\ (n + 1) - 1 = n /\ n + 1 \in 0 .. N
    OBVIOUS
  <2> QED
    BY <1>2, <2>1 DEF StepsWithin
<1> HIDE DEF S
<1>3. 0 .. N \subseteq S
  BY <1>1, <1>2, CountUp
<1> QED
  BY <1>3 DEF S

\* `f` starts with `base`, and Step[n] makes its n-th value from the one before.
Iterates(f, V, N, base, Step) ==
  /\ f \in [0 .. N -> V]
  /\ f[0] = base
  /\ \A n \in 1 .. N : f[n] = Step[n][f[n - 1]]

\* Such a function exists.
LEMMA IterationExists ==
  ASSUME NEW V, NEW N \in Nat, NEW base \in V, NEW Step \in [1 .. N -> [V -> V]]
  PROVE  \E f : Iterates(f, V, N, base, Step)
<1> DEFINE S == {k \in 0 .. N : \E f : Iterates(f, V, k, base, Step)}
<1>1. 0 \in S
  <2>1. Iterates([i \in 0 .. 0 |-> base], V, 0, base, Step)
    BY DEF Iterates
  <2>2. 0 \in 0 .. N
    OBVIOUS
  <2> QED
    BY <2>1, <2>2
<1>2. ASSUME NEW k \in 0 .. N - 1, k \in S PROVE k + 1 \in S
  <2>1. PICK f : Iterates(f, V, k, base, Step)
    BY <1>2
  <2> DEFINE g == [i \in 0 .. k + 1 |-> IF i = k + 1 THEN Step[k + 1][f[k]] ELSE f[i]]
  <2>2. k \in 0 .. k /\ k + 1 \in 1 .. N /\ f[k] \in V
    BY <2>1 DEF Iterates
  <2>3. Step[k + 1][f[k]] \in V
    BY <2>2
  <2>4. g \in [0 .. k + 1 -> V] /\ g[0] = base
    BY <2>1, <2>3 DEF Iterates
  <2>5. ASSUME NEW n \in 1 .. k + 1 PROVE g[n] = Step[n][g[n - 1]]
    <3>1. CASE n = k + 1
      <4>1. n \in 0 .. k + 1 /\ n - 1 \in 0 .. k + 1 /\ n - 1 = k /\ k # k + 1
        BY <3>1
      <4>2. g[n] = Step[k + 1][f[k]] /\ g[n - 1] = f[k]
        BY <3>1, <4>1
      <4> QED
        BY <3>1, <4>1, <4>2
    <3>2. CASE n # k + 1
      <4>1. n \in 1 .. k /\ n - 1 \in 0 .. k + 1 /\ n - 1 # k + 1 /\ n \in 0 .. k + 1
        BY <3>2
      <4> QED
        BY <2>1, <3>2, <4>1 DEF Iterates
    <3> QED
      BY <3>1, <3>2
  <2> HIDE DEF g
  <2>6. Iterates(g, V, k + 1, base, Step)
    BY <2>4, <2>5 DEF Iterates
  <2>7. k + 1 \in 0 .. N
    OBVIOUS
  <2> QED
    BY <2>6, <2>7
<1> HIDE DEF S
<1>3. 0 .. N \subseteq S
  BY <1>1, <1>2, CountUp
<1>4. N \in S
  BY <1>3
<1> QED
  BY <1>4 DEF S

-----------------------------------------------------------------------------
(***************************************************************************)
(* Sums.  SumFunctionOnSet takes the elements of a set in the order in     *)
(* which CHOOSE finds them; the sum does not depend on it.                 *)
(***************************************************************************)

first(s) == CHOOSE x \in s : TRUE

\* `it` has the sum of f over every part of S.
SumRec(it, f, S) ==
  it = [s \in SUBSET S |-> IF s = {} THEN 0 ELSE f[first(s)] + it[s \ {first(s)}]]

\* Taking an element out of a finite set.
LEMMA OneLess ==
  ASSUME NEW s, IsFiniteSet(s), NEW x \in s
  PROVE  /\ IsFiniteSet(s \ {x})
         /\ Cardinality(s) \in Nat /\ Cardinality(s \ {x}) = Cardinality(s) - 1
BY FS_RemoveElement, FS_CardinalityType

\* Whatever holds of the empty set, and of a set if it holds of the set less any
\* of its elements, holds of every finite set.
LEMMA SetInduction ==
  ASSUME NEW S, IsFiniteSet(S), NEW P, {} \in P,
         \A s \in SUBSET S : s # {} /\ (\A x \in s : s \ {x} \in P) => s \in P
  PROVE  SUBSET S \subseteq P
<1> DEFINE bad == {Cardinality(s) : s \in (SUBSET S) \ P}
<1> SUFFICES ASSUME ~(SUBSET S \subseteq P) PROVE FALSE
  OBVIOUS
<1>1. \A s \in SUBSET S : IsFiniteSet(s) /\ Cardinality(s) \in Nat
  BY FS_Subset, FS_CardinalityType
<1>2. bad \in SUBSET Nat /\ bad # {}
  BY <1>1
<1>3. PICK n \in bad : \A m \in bad : n <= m
  <2> HIDE DEF bad
  <2> QED
    BY <1>2, LeastNumber
<1>4. PICK s \in (SUBSET S) \ P : Cardinality(s) = n
  OBVIOUS
<1>5. s # {}
  BY <1>4
<1>6. ASSUME NEW x \in s PROVE s \ {x} \in P
  <2>1. s \ {x} \in SUBSET S /\ Cardinality(s \ {x}) = Cardinality(s) - 1 /\ Cardinality(s) \in Nat
    BY <1>1, <1>4, OneLess
  <2>2. ~(n <= n - 1)
    BY <1>4, <2>1
  <2> QED
    BY <1>3, <1>4, <2>1, <2>2
<1> QED
  BY <1>4, <1>5, <1>6

\* The sums of f over the parts of S exist.
LEMMA SumExists ==
  ASSUME NEW S, IsFiniteSet(S), NEW f, \A x \in S : f[x] \in Int
  PROVE  \E it \in [SUBSET S -> Int] : SumRec(it, f, S)
<1> DEFINE V == [SUBSET S -> Int]
           N == Cardinality(S) + 1
           next(g) == [s \in SUBSET S |-> IF s = {} THEN 0 ELSE f[first(s)] + g[s \ {first(s)}]]
           zero == [s \in SUBSET S |-> 0]
           Step == [n \in 1 .. N |-> [g \in V |-> next(g)]]
<1>1. \A s \in SUBSET S : s # {} => first(s) \in s /\ s \ {first(s)} \in SUBSET S
  BY DEF first
<1>2. \A g \in V : next(g) \in V
  BY <1>1
<1>3. Cardinality(S) \in Nat /\ N \in Nat /\ \A s \in SUBSET S : IsFiniteSet(s) /\ Cardinality(s) \in 0 .. N - 1
  BY FS_Subset, FS_CardinalityType
<1>4. zero \in V
  OBVIOUS
<1>5. Step \in [1 .. N -> [V -> V]] /\ \A n \in 1 .. N : \A g \in V : Step[n][g] = next(g)
  BY <1>2
<1> HIDE DEF Step, V, zero, N
<1>6. PICK h : Iterates(h, V, N, zero, Step)
  BY <1>3, <1>4, <1>5, IterationExists
<1>7. /\ \A n \in 0 .. N : h[n] \in V
      /\ h[0] = zero
      /\ \A n \in 1 .. N : h[n - 1] \in V /\ h[n] = next(h[n - 1])
  <2>1. ASSUME NEW n \in 1 .. N PROVE n - 1 \in 0 .. N
    BY <1>3
  <2> QED
    BY <1>5, <1>6, <2>1 DEF Iterates
<1> DEFINE agree == {n \in 0 .. N - 1 : \A s \in SUBSET S : Cardinality(s) <= n => h[n + 1][s] = h[n][s]}
<1>8. 0 \in agree
  <2>1. ASSUME NEW s \in SUBSET S, Cardinality(s) <= 0 PROVE h[0 + 1][s] = h[0][s]
    <3>1. s = {}
      BY <1>3, <2>1, FS_EmptySet
    <3>2. h[0 + 1] = next(h[0])
      <4>1. 0 + 1 \in 1 .. N /\ (0 + 1) - 1 = 0
        BY <1>3 DEF N
      <4> HIDE DEF next
      <4> QED
        BY <1>7, <4>1
    <3> QED
      BY <1>7, <3>1, <3>2 DEF zero
  <2>2. 0 \in 0 .. N - 1
    BY <1>3 DEF N
  <2> QED
    BY <2>1, <2>2
<1>9. ASSUME NEW n \in 0 .. (N - 1) - 1, n \in agree PROVE n + 1 \in agree
  <2>1. n + 1 \in 0 .. N - 1 /\ n + 1 \in 1 .. N /\ n + 2 \in 1 .. N /\ (n + 2) - 1 = n + 1 /\ (n + 1) - 1 = n
    BY <1>3
  <2>2. h[(n + 1) + 1] = next(h[n + 1]) /\ h[n + 1] = next(h[n])
    <3>1. (n + 1) + 1 = n + 2
      OBVIOUS
    <3> QED
      BY <1>7, <2>1, <3>1
  <2>3. ASSUME NEW s \in SUBSET S, Cardinality(s) <= n + 1
        PROVE  h[(n + 1) + 1][s] = h[n + 1][s]
    <3>1. CASE s = {}
      BY <2>2, <3>1
    <3>2. CASE s # {}
      <4> DEFINE r == s \ {first(s)}
      <4>1. r \in SUBSET S /\ Cardinality(r) <= n
        BY <1>1, <1>3, <2>3, <3>2, OneLess
      <4>2. h[n + 1][r] = h[n][r]
        BY <1>9, <4>1
      <4> QED
        BY <2>2, <3>2, <4>2
    <3> QED
      BY <3>1, <3>2
  <2> QED
    BY <2>1, <2>3
<1>10. N - 1 \in agree
  <2>1. N - 1 \in Nat /\ N - 1 \in 0 .. N - 1
    BY <1>3 DEF N
  <2> HIDE DEF agree
  <2> QED
    BY <1>8, <1>9, <2>1, CountUp
<1>11. (N - 1) + 1 \in 1 .. N /\ ((N - 1) + 1) - 1 = N - 1
  BY <1>3 DEF N
<1>12. h[(N - 1) + 1] = next(h[N - 1]) /\ h[(N - 1) + 1] \in V /\ h[N - 1] \in V
  <2>1. (N - 1) + 1 \in 0 .. N /\ N - 1 \in 0 .. N
    BY <1>3 DEF N
  <2> QED
    BY <1>7, <1>11, <2>1
<1>13. \A s \in SUBSET S : h[(N - 1) + 1][s] = h[N - 1][s]
  BY <1>3, <1>10
<1>14. h[(N - 1) + 1] = h[N - 1]
  BY <1>12, <1>13 DEF V
<1> QED
  BY <1>12, <1>14 DEF SumRec, V

\* Functions that agree on U have the same sum over U, whatever sets they are
\* summed in.
LEMMA SumUnique ==
  ASSUME NEW S, NEW T, NEW f, NEW g, NEW it, NEW jt, SumRec(it, f, S), SumRec(jt, g, T),
         NEW U, IsFiniteSet(U), U \subseteq S, U \subseteq T, \A x \in U : f[x] = g[x]
  PROVE  it[U] = jt[U]
<1> DEFINE P == {s \in SUBSET U : it[s] = jt[s]}
<1>1. {} \in P
  BY DEF SumRec
<1>2. ASSUME NEW s \in SUBSET U, s # {}, \A x \in s : s \ {x} \in P
      PROVE  s \in P
  <2> DEFINE y == first(s)
  <2>1. y \in s
    BY <1>2 DEF first
  <2>2. it[s \ {y}] = jt[s \ {y}] /\ f[y] = g[y]
    BY <1>2, <2>1
  <2>3. it[s] = f[y] + it[s \ {y}] /\ jt[s] = g[y] + jt[s \ {y}]
    BY <1>2 DEF SumRec
  <2> QED
    BY <2>2, <2>3
<1> HIDE DEF P
<1>3. SUBSET U \subseteq P
  BY <1>1, <1>2, SetInduction
<1> QED
  BY <1>3 DEF P

\* Sums over the parts of a finite set satisfy the equation.
LEMMA SumIsRec ==
  ASSUME NEW S, IsFiniteSet(S), NEW f, \A x \in S : f[x] \in Int
  PROVE  \E it \in [SUBSET S -> Int] : SumRec(it, f, S) /\ it[S] = SumFunctionOnSet(f, S)
<1> DEFINE Rec(it) == it = [s \in SUBSET S |-> IF s = {} THEN 0
                             ELSE f[CHOOSE x \in s : TRUE] + it[s \ {CHOOSE x \in s : TRUE}]]
           sum == CHOOSE it : Rec(it)
<1>1. SumFunctionOnSet(f, S) = sum[S]
  BY DEF SumFunctionOnSet, FoldFunctionOnSet, MapThenFoldSet
<1>2. PICK it \in [SUBSET S -> Int] : SumRec(it, f, S)
  BY SumExists
<1>3. Rec(it)
  BY <1>2 DEF SumRec, first
<1>4. Rec(sum)
  <2> HIDE DEF Rec
  <2> QED
    BY <1>3
<1> HIDE DEF sum
<1>5. SumRec(sum, f, S)
  BY <1>4 DEF SumRec, first
<1>6. ASSUME NEW U \in SUBSET S PROVE sum[U] = it[U]
  <2>1. IsFiniteSet(U)
    BY FS_Subset
  <2> QED
    BY <1>2, <1>5, <2>1, SumUnique
<1>7. sum \in [SUBSET S -> Int]
  BY <1>2, <1>4, <1>6
<1> QED
  BY <1>1, <1>5, <1>7

\* The sum over a part of S is that which the equation over S gives.
LEMMA SumOfPart ==
  ASSUME NEW S, IsFiniteSet(S), NEW f, \A x \in S : f[x] \in Int,
         NEW it, SumRec(it, f, S), NEW U \in SUBSET S
  PROVE  it[U] = SumFunctionOnSet(f, U) /\ it[U] \in Int
<1>1. IsFiniteSet(U)
  BY FS_Subset
<1>2. PICK jt \in [SUBSET U -> Int] : SumRec(jt, f, U) /\ jt[U] = SumFunctionOnSet(f, U)
  BY <1>1, SumIsRec
<1>3. it[U] = jt[U]
  BY <1>1, <1>2, SumUnique
<1> QED
  BY <1>2, <1>3

\* Functions that agree have the same sum, and a sum of numbers is a number.
LEMMA SumSame ==
  ASSUME NEW S, IsFiniteSet(S), NEW f, NEW g, \A x \in S : f[x] \in Int /\ g[x] = f[x]
  PROVE  SumFunctionOnSet(g, S) = SumFunctionOnSet(f, S) /\ SumFunctionOnSet(f, S) \in Int
<1>1. PICK it \in [SUBSET S -> Int] : SumRec(it, f, S) /\ it[S] = SumFunctionOnSet(f, S)
  BY SumIsRec
<1>2. PICK jt \in [SUBSET S -> Int] : SumRec(jt, g, S) /\ jt[S] = SumFunctionOnSet(g, S)
  BY SumIsRec
<1>3. it[S] = jt[S]
  BY <1>1, <1>2, SumUnique
<1> QED
  BY <1>1, <1>2, <1>3

\* A sum of nothing.
LEMMA SumEmpty == ASSUME NEW f PROVE SumFunctionOnSet(f, {}) = 0
<1>1. IsFiniteSet({})
  BY FS_EmptySet
<1>2. PICK it \in [SUBSET {} -> Int] : SumRec(it, f, {}) /\ it[{}] = SumFunctionOnSet(f, {})
  BY <1>1, SumIsRec
<1> QED
  BY <1>2 DEF SumRec

\* Any element may come first.
LEMMA SumTake ==
  ASSUME NEW S, IsFiniteSet(S), NEW f, \A x \in S : f[x] \in Int, NEW x \in S
  PROVE  SumFunctionOnSet(f, S) = f[x] + SumFunctionOnSet(f, S \ {x})
<1>1. PICK it \in [SUBSET S -> Int] : SumRec(it, f, S) /\ it[S] = SumFunctionOnSet(f, S)
  BY SumIsRec
<1> DEFINE P == {s \in SUBSET S : \A y \in s : it[s] = f[y] + it[s \ {y}]}
<1>2. {} \in P
  OBVIOUS
<1>3. ASSUME NEW s \in SUBSET S, s # {}, \A y \in s : s \ {y} \in P
      PROVE  s \in P
  <2> SUFFICES ASSUME NEW y \in s PROVE it[s] = f[y] + it[s \ {y}]
    OBVIOUS
  <2> DEFINE z == first(s)
  <2>1. z \in s
    BY <1>3 DEF first
  <2>2. it[s] = f[z] + it[s \ {z}]
    BY <1>1, <1>3 DEF SumRec
  <2> HIDE DEF z
  <2>3. CASE y = z
    BY <2>2, <2>3
  <2>4. CASE y # z
    <3>1. y \in s \ {z} /\ z \in s \ {y} /\ (s \ {z}) \ {y} = (s \ {y}) \ {z}
      BY <2>1, <2>4
    <3>2. it[s \ {z}] = f[y] + it[(s \ {z}) \ {y}]
      BY <1>3, <2>1, <3>1
    <3>3. it[s \ {y}] = f[z] + it[(s \ {y}) \ {z}]
      BY <1>3, <3>1
    <3>4. f[y] \in Int /\ f[z] \in Int /\ it[(s \ {y}) \ {z}] \in Int
      BY <1>1, <2>1
    <3> DEFINE rest == it[(s \ {y}) \ {z}]
    <3>5. it[s] = f[z] + (f[y] + rest) /\ it[s \ {y}] = f[z] + rest /\ rest \in Int
      BY <2>2, <3>1, <3>2, <3>3, <3>4
    <3> HIDE DEF rest
    <3> QED
      BY <3>4, <3>5
  <2> QED
    BY <2>3, <2>4
<1> HIDE DEF P
<1>4. SUBSET S \subseteq P
  BY <1>2, <1>3, SetInduction
<1>5. it[S] = f[x] + it[S \ {x}]
  BY <1>4 DEF P
<1>6. it[S \ {x}] = SumFunctionOnSet(f, S \ {x})
  BY <1>1, SumOfPart
<1> QED
  BY <1>1, <1>5, <1>6

\* One element more.
LEMMA SumAdd ==
  ASSUME NEW S, IsFiniteSet(S), NEW x, x \notin S, NEW f, \A y \in S \cup {x} : f[y] \in Int
  PROVE  SumFunctionOnSet(f, S \cup {x}) = f[x] + SumFunctionOnSet(f, S)
<1>1. IsFiniteSet(S \cup {x}) /\ (S \cup {x}) \ {x} = S
  BY FS_AddElement
<1> QED
  BY <1>1, SumTake

\* Functions that differ in one place.
LEMMA SumUpdate ==
  ASSUME NEW S, IsFiniteSet(S), NEW a \in S, NEW f, NEW g,
         \A x \in S : f[x] \in Int /\ g[x] \in Int, \A x \in S \ {a} : g[x] = f[x]
  PROVE  SumFunctionOnSet(g, S) = SumFunctionOnSet(f, S) - f[a] + g[a]
<1>1. IsFiniteSet(S \ {a})
  BY FS_Subset
<1>2. SumFunctionOnSet(g, S \ {a}) = SumFunctionOnSet(f, S \ {a})
      /\ SumFunctionOnSet(f, S \ {a}) \in Int
  BY <1>1, SumSame
<1>3. /\ SumFunctionOnSet(g, S) = g[a] + SumFunctionOnSet(g, S \ {a})
      /\ SumFunctionOnSet(f, S) = f[a] + SumFunctionOnSet(f, S \ {a})
  BY SumTake
<1> QED
  BY <1>2, <1>3

\* Smaller numbers over fewer elements have a smaller sum.
LEMMA SumMonotone ==
  ASSUME NEW S, IsFiniteSet(S), NEW T \in SUBSET S, NEW f, NEW g,
         \A x \in T : f[x] \in Nat, \A x \in S : g[x] \in Nat, \A x \in T : f[x] <= g[x]
  PROVE  /\ SumFunctionOnSet(f, T) \in Nat /\ SumFunctionOnSet(g, S) \in Nat
         /\ SumFunctionOnSet(f, T) <= SumFunctionOnSet(g, S)
<1> DEFINE P == {s \in SUBSET S : /\ SumFunctionOnSet(f, s \cap T) \in Nat
                                  /\ SumFunctionOnSet(g, s) \in Nat
                                  /\ SumFunctionOnSet(f, s \cap T) <= SumFunctionOnSet(g, s)}
<1>1. {} \in P
  BY SumEmpty
<1>2. ASSUME NEW s \in SUBSET S, s # {}, \A y \in s : s \ {y} \in P
      PROVE  s \in P
  <2>1. PICK x \in s : TRUE
    BY <1>2
  <2> DEFINE r == s \ {x}
  <2>2. /\ SumFunctionOnSet(f, r \cap T) \in Nat /\ SumFunctionOnSet(g, r) \in Nat
        /\ SumFunctionOnSet(f, r \cap T) <= SumFunctionOnSet(g, r)
    BY <1>2, <2>1
  <2>3. IsFiniteSet(s) /\ IsFiniteSet(s \cap T)
    BY FS_Subset
  <2>4. SumFunctionOnSet(g, s) = g[x] + SumFunctionOnSet(g, r)
    BY <2>3, SumTake
  <2>5. CASE x \in T
    <3>1. (s \cap T) \ {x} = r \cap T /\ x \in s \cap T
      BY <2>5
    <3>2. SumFunctionOnSet(f, s \cap T) = f[x] + SumFunctionOnSet(f, r \cap T)
      BY <2>3, <3>1, SumTake
    <3> QED
      BY <2>2, <2>4, <2>5, <3>2
  <2>6. CASE x \notin T
    <3>1. s \cap T = r \cap T
      BY <2>6
    <3> QED
      BY <2>2, <2>4, <3>1
  <2> QED
    BY <2>5, <2>6
<1> HIDE DEF P
<1>3. SUBSET S \subseteq P
  BY <1>1, <1>2, SetInduction
<1>4. S \cap T = T
  OBVIOUS
<1> QED
  BY <1>3, <1>4 DEF P

\* A sum of natural numbers is one.
LEMMA SumNatural ==
  ASSUME NEW S, IsFiniteSet(S), NEW f, \A x \in S : f[x] \in Nat
  PROVE  SumFunctionOnSet(f, S) \in Nat
BY SumMonotone

\* A sum of zeros.
LEMMA SumZeros ==
  ASSUME NEW S, IsFiniteSet(S), NEW f, \A x \in S : f[x] = 0
  PROVE  SumFunctionOnSet(f, S) = 0
<1> DEFINE P == {s \in SUBSET S : SumFunctionOnSet(f, s) = 0}
<1>1. {} \in P
  BY SumEmpty
<1>2. ASSUME NEW s \in SUBSET S, s # {}, \A x \in s : s \ {x} \in P
      PROVE  s \in P
  <2>1. PICK x \in s : TRUE
    BY <1>2
  <2>2. IsFiniteSet(s) /\ \A y \in s : f[y] \in Int
    BY FS_Subset
  <2>3. SumFunctionOnSet(f, s) = f[x] + SumFunctionOnSet(f, s \ {x})
    BY <2>1, <2>2, SumTake
  <2>4. f[x] = 0 /\ SumFunctionOnSet(f, s \ {x}) = 0
    BY <1>2, <2>1
  <2> QED
    BY <2>3, <2>4
<1> HIDE DEF P
<1>3. SUBSET S \subseteq P
  BY <1>1, <1>2, SetInduction
<1> QED
  BY <1>3 DEF P

\* A sum over 1 .. n grows by its next term.
LEMMA SumNext ==
  ASSUME NEW n \in Nat, NEW f, \A i \in 1 .. n + 1 : f[i] \in Int
  PROVE  SumFunctionOnSet(f, 1 .. n + 1) = SumFunctionOnSet(f, 1 .. n) + f[n + 1]
         /\ SumFunctionOnSet(f, 1 .. n) \in Int
<1>1. IsFiniteSet(1 .. n) /\ n + 1 \notin 1 .. n /\ 1 .. n + 1 = (1 .. n) \cup {n + 1}
  BY FS_Interval
<1>2. \A i \in 1 .. n : f[i] \in Int /\ f[i] = f[i]
  OBVIOUS
<1>3. SumFunctionOnSet(f, 1 .. n) \in Int
  BY <1>1, <1>2, SumSame
<1>4. \A i \in (1 .. n) \cup {n + 1} : f[i] \in Int
  OBVIOUS
<1>5. SumFunctionOnSet(f, (1 .. n) \cup {n + 1}) = f[n + 1] + SumFunctionOnSet(f, 1 .. n)
  BY <1>1, <1>4, SumAdd
<1> DEFINE last  == f[n + 1]
           whole == SumFunctionOnSet(f, 1 .. n + 1)
           rest  == SumFunctionOnSet(f, 1 .. n)
<1>6. last \in Int /\ rest \in Int /\ whole = last + rest
  BY <1>1, <1>3, <1>5
<1> HIDE DEF last, whole, rest
<1>7. whole = rest + last
  BY <1>6
<1> QED
  BY <1>3, <1>7 DEF last, whole, rest

\* A sum over a part of S, as a sum over S.
LEMMA SumFilter ==
  ASSUME NEW S, IsFiniteSet(S), NEW T \in SUBSET S, NEW f, NEW g,
         \A x \in T : f[x] \in Int /\ g[x] = f[x], \A x \in S \ T : g[x] = 0
  PROVE  SumFunctionOnSet(g, S) = SumFunctionOnSet(f, T)
<1> DEFINE P == {s \in SUBSET S : SumFunctionOnSet(g, s) = SumFunctionOnSet(f, s \cap T)}
<1>1. \A x \in S : g[x] \in Int
  OBVIOUS
<1>2. {} \in P
  BY SumEmpty
<1>3. ASSUME NEW s \in SUBSET S, s # {}, \A y \in s : s \ {y} \in P
      PROVE  s \in P
  <2>1. PICK x \in s : TRUE
    BY <1>3
  <2> DEFINE r == s \ {x}
  <2>2. SumFunctionOnSet(g, r) = SumFunctionOnSet(f, r \cap T)
    BY <1>3, <2>1
  <2>3. IsFiniteSet(s) /\ IsFiniteSet(s \cap T) /\ IsFiniteSet(r \cap T)
    BY FS_Subset
  <2>4. SumFunctionOnSet(g, s) = g[x] + SumFunctionOnSet(g, r)
    BY <1>1, <2>3, SumTake
  <2>5. CASE x \in T
    <3>1. (s \cap T) \ {x} = r \cap T /\ x \in s \cap T /\ \A y \in s \cap T : f[y] \in Int
      BY <2>5
    <3>2. SumFunctionOnSet(f, s \cap T) = f[x] + SumFunctionOnSet(f, r \cap T)
      BY <2>3, <3>1, SumTake
    <3> QED
      BY <2>2, <2>4, <2>5, <3>2
  <2>6. CASE x \notin T
    <3>1. s \cap T = r \cap T /\ g[x] = 0 /\ \A y \in r \cap T : f[y] \in Int /\ f[y] = f[y]
      BY <2>6
    <3>2. SumFunctionOnSet(f, r \cap T) \in Int
      BY <2>3, <3>1, SumSame
    <3> DEFINE rest == SumFunctionOnSet(g, r)
    <3>3. rest \in Int /\ SumFunctionOnSet(g, s) = 0 + rest
      BY <2>2, <2>4, <3>1, <3>2
    <3>4. rest = SumFunctionOnSet(f, s \cap T)
      BY <2>2, <3>1
    <3> HIDE DEF rest
    <3>5. SumFunctionOnSet(g, s) = rest
      BY <3>3
    <3> QED
      BY <3>4, <3>5
  <2> QED
    BY <2>5, <2>6
<1> HIDE DEF P
<1>4. SUBSET S \subseteq P
  BY <1>2, <1>3, SetInduction
<1>5. S \cap T = T
  OBVIOUS
<1> QED
  BY <1>4, <1>5 DEF P
=============================================================================
