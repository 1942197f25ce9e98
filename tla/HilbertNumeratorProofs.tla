------------------------ MODULE HilbertNumeratorProofs ------------------------
(***************************************************************************)
(* Proofs about HilbertNumerator and what it is built from.  The lemmas    *)
(* about intervals, monomials and finite orders are those of               *)
(* CriticalPairsProofs, which is about other variables.                    *)
(***************************************************************************)
EXTENDS HilbertNumerator, FiniteSetTheorems, FunctionTheorems, WellFoundedInduction, TLAPS

-----------------------------------------------------------------------------
(* Induction over intervals, and functions defined by recursion on them.    *)

\* A set of naturals has a least element.
LEMMA LeastNat ==
  ASSUME NEW T \in SUBSET Nat, T # {}
  PROVE  \E m \in T : \A x \in T : m <= x
<1> DEFINE R == OpToRel(<, Nat)
<1>1. IsWellFoundedOn(R, Nat)
  BY NatLessThanWellFounded
<1> HIDE DEF R
<1>2. PICK m \in T : \A x \in T : ~(<<x, m>> \in R)
  BY <1>1, WFMin
<1>3. \A x \in T : ~(x < m)
  BY <1>2 DEF R, OpToRel
<1>4. QED
  BY <1>3

\* What holds of zero and is handed on from each number to the next holds up to the bound.
LEMMA Inducts ==
  ASSUME NEW K \in Nat, NEW T, 0 \in T, \A k \in 1 .. K : k - 1 \in T => k \in T
  PROVE  \A k \in 0 .. K : k \in T
<1> SUFFICES ASSUME NEW k \in 0 .. K, k \notin T PROVE FALSE
  OBVIOUS
<1> DEFINE U == {n \in 0 .. K : n \notin T}
<1>1. U \in SUBSET Nat /\ U # {}
  OBVIOUS
<1> HIDE DEF U
<1>2. PICK m \in U : \A x \in U : m <= x
  BY <1>1, LeastNat
<1>3. m \in 0 .. K /\ m \notin T /\ m # 0
  BY <1>2 DEF U
<1>4. m - 1 \in 0 .. K /\ ~(m <= m - 1)
  BY <1>3
<1>5. m - 1 \in T
  BY <1>2, <1>4 DEF U
<1>6. QED
  BY <1>3, <1>5

\* There is a function with given first value and given steps.
Iteration(f, D, a, K, G) == f \in [0 .. K -> D] /\ f[0] = a /\ \A i \in 1 .. K : f[i] = G[i][f[i - 1]]

LEMMA Iterates ==
  ASSUME NEW D, NEW a \in D, NEW K \in Nat, NEW G \in [1 .. K -> [D -> D]]
  PROVE  \E f : Iteration(f, D, a, K, G)
<1> DEFINE T == {k \in 0 .. K : \E f \in [0 .. k -> D] : f[0] = a /\ \A i \in 1 .. k : f[i] = G[i][f[i - 1]]}
<1>1. 0 \in T
  <2> DEFINE f == [i \in 0 .. 0 |-> a]
  <2>1. f \in [0 .. 0 -> D] /\ f[0] = a /\ \A i \in 1 .. 0 : f[i] = G[i][f[i - 1]]
    OBVIOUS
  <2> HIDE DEF f
  <2>2. 0 \in 0 .. K
    OBVIOUS
  <2>3. QED
    BY <2>1, <2>2
<1>2. ASSUME NEW k \in 1 .. K, k - 1 \in T PROVE k \in T
  <2>1. PICK f \in [0 .. k - 1 -> D] : f[0] = a /\ \A i \in 1 .. k - 1 : f[i] = G[i][f[i - 1]]
    BY <1>2
  <2> DEFINE g == [i \in 0 .. k |-> IF i = k THEN G[k][f[k - 1]] ELSE f[i]]
  <2>2. G[k][f[k - 1]] \in D
    <3>1. G[k] \in [D -> D] /\ f[k - 1] \in D
      BY <2>1
    <3>2. QED
      BY <3>1
  <2>3. g \in [0 .. k -> D]
    BY <2>1, <2>2
  <2>4. g[0] = a
    BY <2>1
  <2>5. ASSUME NEW i \in 1 .. k PROVE g[i] = G[i][g[i - 1]]
    <3>1. g[i - 1] = f[i - 1]
      OBVIOUS
    <3>2. i # k => i \in 1 .. k - 1 /\ g[i] = f[i]
      OBVIOUS
    <3>3. g[k] = G[k][f[k - 1]]
      OBVIOUS
    <3>4. QED
      BY <2>1, <3>1, <3>2, <3>3
  <2> HIDE DEF g
  <2>6. k \in 0 .. K
    OBVIOUS
  <2>7. QED
    BY <2>3, <2>4, <2>5, <2>6
<1> HIDE DEF T
<1>3. K \in T
  <2>1. \A k \in 0 .. K : k \in T
    BY <1>1, <1>2, Inducts
  <2>2. QED
    BY <2>1
<1>4. QED
  BY <1>3 DEF T, Iteration

-----------------------------------------------------------------------------
(* Monomials.                                                               *)

\* More of a variable weighs more.
LEMMA Heavier ==
  ASSUME NEW x \in Nat, NEW y \in Nat, NEW w \in Nat \ {0}
  PROVE  /\ x * w \in Nat
         /\ x <= y => x * w <= y * w
         /\ x < y => x * w < y * w
<1>1. \A p, q \in Nat : p * q \in Nat
  OBVIOUS
<1>2. ASSUME x <= y PROVE y * w = x * w + (y - x) * w /\ (y - x) * w \in Nat
  BY <1>1, <1>2
<1>3. ASSUME x < y PROVE (y - x) * w >= 1
  <2>1. y - x \in Nat \ {0}
    BY <1>3
  <2>2. \A p, q \in Nat \ {0} : p * q >= 1
    OBVIOUS
  <2>3. QED
    BY <2>1, <2>2
<1>4. QED
  BY <1>1, <1>2, <1>3

\* The weight is a sum over the variables.
LEMMA WeightSums ==
  ASSUME NEW a \in [Vars -> Nat]
  PROVE  \E f \in [0 .. NVars -> Nat] :
           /\ f[0] = 0 /\ \A v \in Vars : f[v] = f[v - 1] + a[v] * Weights[v]
           /\ Weight(a) = f[NVars]
<1> DEFINE P(f) == f = [v \in 0 .. NVars |-> IF v = 0 THEN 0 ELSE f[v - 1] + a[v] * Weights[v]]
           G == [v \in 1 .. NVars |-> [x \in Nat |-> x + a[v] * Weights[v]]]
<1>1. NVars \in Nat /\ Vars = 1 .. NVars /\ \A v \in Vars : a[v] * Weights[v] \in Nat
  BY MonomialAssumption, Heavier DEF Vars
<1>2. G \in [1 .. NVars -> [Nat -> Nat]]
  BY <1>1
<1>3. \A v \in 1 .. NVars : \A x \in Nat : G[v][x] = x + a[v] * Weights[v]
  OBVIOUS
<1> HIDE DEF G
<1>4. PICK f : f \in [0 .. NVars -> Nat] /\ f[0] = 0 /\ \A i \in 1 .. NVars : f[i] = G[i][f[i - 1]]
  <2>1. 0 \in Nat
    OBVIOUS
  <2>2. \E f : Iteration(f, Nat, 0, NVars, G)
    BY <1>1, <1>2, <2>1, Iterates
  <2>3. QED
    BY <2>2 DEF Iteration
<1>5. ASSUME NEW v \in 1 .. NVars PROVE f[v] = f[v - 1] + a[v] * Weights[v]
  <2>1. f[v - 1] \in Nat
    BY <1>1, <1>4
  <2>2. QED
    BY <1>3, <1>4, <2>1
<1>6. P(f)
  BY <1>1, <1>4, <1>5
<1> DEFINE g == CHOOSE h : P(h)
<1>7. P(g)
  <2> HIDE DEF P
  <2>1. QED
    BY <1>6
<1>8. Weight(a) = g[NVars]
  BY DEF Weight
<1> HIDE DEF g
<1>9. g[0] = 0 /\ \A v \in 1 .. NVars : g[v] = g[v - 1] + a[v] * Weights[v]
  BY <1>1, <1>7
<1>10. g \in [0 .. NVars -> Nat]
  <2> DEFINE T == {k \in 0 .. NVars : g[k] = f[k]}
  <2>1. 0 \in T
    BY <1>1, <1>4, <1>9
  <2>2. \A k \in 1 .. NVars : k - 1 \in T => k \in T
    BY <1>1, <1>5, <1>9
  <2> HIDE DEF T
  <2>3. \A k \in 0 .. NVars : k \in T
    BY <1>1, <2>1, <2>2, Inducts
  <2>4. \A k \in 0 .. NVars : g[k] \in Nat
    BY <1>4, <2>3 DEF T
  <2>5. QED
    BY <1>7, <2>4
<1>11. QED
  BY <1>1, <1>8, <1>9, <1>10

\* A divisor weighs less, a proper divisor properly less.
LEMMA WeightMonotone ==
  ASSUME NEW a \in [Vars -> Nat], NEW b \in [Vars -> Nat], Divides(a, b)
  PROVE  Weight(a) \in Nat /\ Weight(b) \in Nat /\ Weight(a) <= Weight(b) /\ (a # b => Weight(a) < Weight(b))
<1>1. PICK f \in [0 .. NVars -> Nat] :
           /\ f[0] = 0 /\ \A v \in Vars : f[v] = f[v - 1] + a[v] * Weights[v]
           /\ Weight(a) = f[NVars]
  BY WeightSums
<1>2. PICK g \in [0 .. NVars -> Nat] :
           /\ g[0] = 0 /\ \A v \in Vars : g[v] = g[v - 1] + b[v] * Weights[v]
           /\ Weight(b) = g[NVars]
  BY WeightSums
<1>3. NVars \in Nat /\ Vars = 1 .. NVars
  BY MonomialAssumption DEF Vars
<1> DEFINE T == {k \in 0 .. NVars : f[k] <= g[k] /\ ((\E v \in 1 .. k : a[v] # b[v]) => f[k] < g[k])}
<1>4. 0 \in T
  BY <1>1, <1>2, <1>3
<1>5. ASSUME NEW k \in 1 .. NVars, k - 1 \in T PROVE k \in T
  <2> DEFINE x == a[k] * Weights[k]
             y == b[k] * Weights[k]
  <2>1. a[k] \in Nat /\ b[k] \in Nat /\ a[k] <= b[k] /\ Weights[k] \in Nat \ {0}
    BY <1>3, MonomialAssumption DEF Divides
  <2>2. x \in Nat /\ y \in Nat /\ x <= y /\ (a[k] # b[k] => x < y)
    <3>1. /\ x \in Nat /\ y \in Nat
          /\ a[k] <= b[k] => x <= y
          /\ a[k] < b[k] => x < y
      BY <2>1, Heavier
    <3>2. QED
      BY <2>1, <3>1
  <2>3. f[k] = f[k - 1] + x /\ g[k] = g[k - 1] + y /\ f[k - 1] \in Nat /\ g[k - 1] \in Nat
    BY <1>1, <1>2, <1>3
  <2> HIDE DEF x, y
  <2>4. f[k] <= g[k]
    BY <1>5, <2>2, <2>3
  <2>5. ASSUME NEW v \in 1 .. k, a[v] # b[v] PROVE f[k] < g[k]
    <3>1. v # k => v \in 1 .. k - 1
      OBVIOUS
    <3>2. v # k => f[k - 1] < g[k - 1]
      BY <1>5, <2>5, <3>1
    <3>3. f[k - 1] <= g[k - 1]
      BY <1>5
    <3>4. CASE v # k
      BY <2>2, <2>3, <3>2, <3>4
    <3>5. CASE v = k
      BY <2>2, <2>3, <2>5, <3>3, <3>5
    <3>6. QED
      BY <3>4, <3>5
  <2>6. QED
    BY <2>4, <2>5
<1> HIDE DEF T
<1>6. NVars \in T
  <2>1. \A k \in 0 .. NVars : k \in T
    BY <1>3, <1>4, <1>5, Inducts
  <2>2. QED
    BY <1>3, <2>1
<1>7. f[NVars] <= g[NVars] /\ ((\E v \in 1 .. NVars : a[v] # b[v]) => f[NVars] < g[NVars])
  BY <1>6 DEF T
<1>8. a # b => \E v \in 1 .. NVars : a[v] # b[v]
  BY <1>3
<1>9. f[NVars] \in Nat /\ g[NVars] \in Nat
  BY <1>1, <1>2, <1>3
<1>10. QED
  BY <1>1, <1>2, <1>7, <1>8, <1>9

-----------------------------------------------------------------------------
(* Orders.                                                                  *)

TotalOn(S, R) ==
  /\ \A x \in S : <<x, x>> \notin R
  /\ \A x, y \in S : x = y \/ <<x, y>> \in R \/ <<y, x>> \in R
  /\ \A x, y, z \in S : <<x, y>> \in R /\ <<y, z>> \in R => <<x, z>> \in R

Enumerated(f, S, R) ==
  /\ Cardinality(S) \in Nat /\ f \in [1 .. Cardinality(S) -> S]
  /\ \A x \in S : \E n \in 1 .. Cardinality(S) : f[n] = x
  /\ \A m, n \in 1 .. Cardinality(S) : m < n => <<f[m], f[n]>> \in R

Lower(S, R, x) == {y \in S : <<y, x>> \in R}

\* In a finite set with a total order, the number of elements below it tells an element from
\* all others, and every number occurs.
LEMMA RanksEnumerate ==
  ASSUME NEW S, IsFiniteSet(S), NEW R, TotalOn(S, R)
  PROVE  Enumerated([n \in 1 .. Cardinality(S) |-> CHOOSE x \in S : Cardinality(Lower(S, R, x)) = n - 1], S, R)
<1> DEFINE N == Cardinality(S)
           rank(x) == Cardinality(Lower(S, R, x))
           f == [x \in S |-> rank(x) + 1]
           g == [n \in 1 .. N |-> CHOOSE x \in S : rank(x) = n - 1]
<1>1. N \in Nat
  BY FS_CardinalityType
<1>2. ASSUME NEW x \in S
      PROVE  IsFiniteSet(Lower(S, R, x)) /\ rank(x) \in Nat /\ rank(x) < N
  <2>1. Lower(S, R, x) \in SUBSET S /\ x \notin Lower(S, R, x)
    BY DEF Lower, TotalOn
  <2>2. IsFiniteSet(Lower(S, R, x)) /\ rank(x) <= N /\ (N = rank(x) => S = Lower(S, R, x))
    BY <2>1, FS_Subset
  <2>3. rank(x) \in Nat
    BY <2>2, FS_CardinalityType
  <2>4. rank(x) # N
    BY <2>1, <2>2
  <2>5. QED
    BY <1>1, <2>2, <2>3, <2>4
<1>3. ASSUME NEW x \in S, NEW y \in S, <<x, y>> \in R PROVE rank(x) < rank(y)
  <2>1. Lower(S, R, x) \in SUBSET Lower(S, R, y) /\ x \notin Lower(S, R, x) /\ x \in Lower(S, R, y)
    BY <1>3 DEF Lower, TotalOn
  <2>2. rank(x) <= rank(y) /\ (rank(y) = rank(x) => Lower(S, R, y) = Lower(S, R, x))
    BY <1>2, <2>1, FS_Subset
  <2>3. QED
    BY <1>2, <2>1, <2>2
<1>4. ASSUME NEW x \in S, NEW y \in S, rank(x) = rank(y) PROVE x = y
  <2>1. rank(x) \in Nat /\ rank(y) \in Nat
    BY <1>2
  <2>2. <<x, y>> \notin R /\ <<y, x>> \notin R
    BY <1>3, <1>4, <2>1
  <2>3. QED
    BY <2>2 DEF TotalOn
<1>5. f \in [S -> 1 .. N] /\ \A x \in S : f[x] = rank(x) + 1
  BY <1>1, <1>2
<1> HIDE DEF f
<1>6. f \in Injection(S, 1 .. N)
  <2>1. \A x, y \in S : f[x] = f[y] => x = y
    BY <1>2, <1>4, <1>5
  <2>2. QED
    BY <1>5, <2>1, Fun_IsInj
<1>7. IsFiniteSet(1 .. N) /\ Cardinality(1 .. N) = N
  <2>1. N \in Int
    BY <1>1
  <2>2. IsFiniteSet(1 .. N) /\ Cardinality(1 .. N) = IF 1 > N THEN 0 ELSE N - 1 + 1
    BY <2>1, FS_Interval
  <2>3. QED
    BY <1>1, <2>2
<1>8. f \in Surjection(S, 1 .. N)
  BY <1>6, <1>7, FS_Injection
<1>9. \A n \in 1 .. N : \E x \in S : f[x] = n
  BY <1>8, Fun_SurjectionProperties
<1>10. \A n \in 1 .. N : \E x \in S : rank(x) = n - 1
  BY <1>2, <1>5, <1>9
<1>11. \A n \in 1 .. N : g[n] \in S /\ rank(g[n]) = n - 1
  <2> HIDE DEF rank
  <2>1. QED
    BY <1>10
<1>12. g = [n \in 1 .. N |-> g[n]]
  OBVIOUS
<1>13. g = [n \in 1 .. Cardinality(S) |-> CHOOSE x \in S : Cardinality(Lower(S, R, x)) = n - 1]
  OBVIOUS
<1> HIDE DEF g, rank
<1>14. g \in [1 .. N -> S]
  BY <1>11, <1>12
<1>15. \A x \in S : \E n \in 1 .. N : g[n] = x
  <2>1. SUFFICES ASSUME NEW x \in S PROVE \E n \in 1 .. N : g[n] = x
    OBVIOUS
  <2>2. rank(x) + 1 \in 1 .. N /\ rank(g[rank(x) + 1]) = rank(x)
    BY <1>1, <1>2, <1>11
  <2>3. g[rank(x) + 1] = x
    BY <1>4, <1>11, <2>2
  <2>4. QED
    BY <2>2, <2>3
<1>16. ASSUME NEW m \in 1 .. N, NEW n \in 1 .. N, m < n PROVE <<g[m], g[n]>> \in R
  <2>1. g[m] \in S /\ g[n] \in S /\ rank(g[m]) = m - 1 /\ rank(g[n]) = n - 1
    BY <1>11
  <2>2. g[m] # g[n]
    BY <1>16, <2>1
  <2>3. <<g[n], g[m]>> \in R => rank(g[n]) < rank(g[m])
    BY <1>3, <2>1
  <2>4. <<g[n], g[m]>> \notin R
    BY <1>16, <2>1, <2>3
  <2>5. QED
    BY <2>1, <2>2, <2>4 DEF TotalOn
<1>17. Enumerated(g, S, R)
  BY <1>1, <1>14, <1>15, <1>16 DEF Enumerated
<1>18. QED
  BY <1>13, <1>17

\* Different monomials differ in a variable.
LEMMA Differ ==
  ASSUME NEW a \in [Vars -> Nat], NEW b \in [Vars -> Nat], a # b
  PROVE  \E v \in Vars : a[v] # b[v]
OBVIOUS

\* Monomials are ordered by the first variable in which they differ,
LEMMA LexTotal ==
  /\ \A a \in [Vars -> Nat] : ~LexLess(a, a)
  /\ \A a, b \in [Vars -> Nat] : a = b \/ LexLess(a, b) \/ LexLess(b, a)
  /\ \A a, b, c \in [Vars -> Nat] : LexLess(a, b) /\ LexLess(b, c) => LexLess(a, c)
<1>1. NVars \in Nat /\ Vars = 1 .. NVars
  BY MonomialAssumption DEF Vars
<1>2. \A a \in [Vars -> Nat] : ~LexLess(a, a)
  BY <1>1 DEF LexLess
<1>3. ASSUME NEW a \in [Vars -> Nat], NEW b \in [Vars -> Nat], a # b
      PROVE  LexLess(a, b) \/ LexLess(b, a)
  <2> DEFINE T == {v \in Vars : a[v] # b[v]}
  <2>1. T \in SUBSET Nat /\ T # {}
    <3>1. \E v \in Vars : a[v] # b[v]
      BY <1>3, Differ
    <3>2. QED
      BY <1>1, <3>1
  <2> HIDE DEF T
  <2>2. PICK v \in T : \A w \in T : v <= w
    BY <2>1, LeastNat
  <2>3. v \in Vars /\ a[v] # b[v] /\ \A w \in 1 .. v - 1 : w \in Vars /\ ~(v <= w)
    BY <1>1, <2>2 DEF T
  <2>4. \A w \in 1 .. v - 1 : a[w] = b[w]
    BY <2>2, <2>3 DEF T
  <2>5. a[v] \in Nat /\ b[v] \in Nat
    BY <2>3
  <2>6. a[v] < b[v] \/ b[v] < a[v]
    BY <2>3, <2>5
  <2>7. QED
    BY <2>3, <2>4, <2>6 DEF LexLess
<1>4. ASSUME NEW a \in [Vars -> Nat], NEW b \in [Vars -> Nat], NEW c \in [Vars -> Nat], LexLess(a, b), LexLess(b, c)
      PROVE  LexLess(a, c)
  <2>1. PICK u \in Vars : a[u] < b[u] /\ \A w \in 1 .. u - 1 : a[w] = b[w]
    BY <1>4 DEF LexLess
  <2>2. PICK v \in Vars : b[v] < c[v] /\ \A w \in 1 .. v - 1 : b[w] = c[w]
    BY <1>4 DEF LexLess
  <2>3. u \in Nat /\ v \in Nat /\ u >= 1 /\ v >= 1
    BY <1>1
  <2>4. \A w \in Vars : a[w] \in Nat /\ b[w] \in Nat /\ c[w] \in Nat
    OBVIOUS
  <2>5. CASE u < v
    <3>1. b[u] = c[u] /\ \A w \in 1 .. u - 1 : b[w] = c[w]
      BY <2>2, <2>3, <2>5
    <3>2. QED
      BY <2>1, <3>1 DEF LexLess
  <2>6. CASE v < u
    <3>1. a[v] = b[v] /\ \A w \in 1 .. v - 1 : a[w] = b[w]
      BY <2>1, <2>3, <2>6
    <3>2. QED
      BY <2>2, <3>1 DEF LexLess
  <2>7. CASE u = v
    <3>1. a[u] < c[u]
      BY <2>1, <2>2, <2>4, <2>7
    <3>2. QED
      BY <2>1, <2>2, <2>7, <3>1 DEF LexLess
  <2>8. QED
    BY <2>3, <2>5, <2>6, <2>7
<1>5. QED
  BY <1>2, <1>3, <1>4

\* Divisibility is an order.
LEMMA DividesOrder ==
  ASSUME NEW a \in [Vars -> Nat], NEW b \in [Vars -> Nat], NEW c \in [Vars -> Nat], Divides(a, b)
  PROVE  (Divides(b, c) => Divides(a, c)) /\ (Divides(b, a) => a = b)
<1>1. \A v \in Vars : a[v] \in Nat /\ b[v] \in Nat /\ c[v] \in Nat /\ a[v] <= b[v]
  BY DEF Divides
<1>2. Divides(b, c) => Divides(a, c)
  BY <1>1 DEF Divides
<1>3. ASSUME Divides(b, a) PROVE a = b
  <2>1. \A v \in Vars : a[v] = b[v]
    BY <1>1, <1>3 DEF Divides
  <2>2. QED
    BY <2>1, Differ
<1>4. QED
  BY <1>2, <1>3

\* The images of a finite set under a function.
LEMMA FiniteImage ==
  ASSUME NEW S, IsFiniteSet(S), NEW f, DOMAIN f = S
  PROVE  IsFiniteSet({f[x] : x \in S})
<1> DEFINE T == {f[x] : x \in S}
           g == [x \in S |-> f[x]]
<1>1. g \in [S -> T] /\ \A t \in T : \E x \in S : g[x] = t
  OBVIOUS
<1> HIDE DEF g, T
<1>2. g \in Surjection(S, T)
  BY <1>1, Fun_IsSurj
<1>3. IsFiniteSet(T)
  BY <1>2, FS_Surjection
<1>4. QED
  BY <1>3 DEF T

-----------------------------------------------------------------------------
(* Monomials and their supports.                                            *)

Exponents == [Vars -> Nat]

LEMMA VarsAre == NVars \in Nat \ {0} /\ Vars = 1 .. NVars /\ IsFiniteSet(Vars) /\ Vars \subseteq Nat
<1>1. NVars \in Nat \ {0} /\ Vars = 1 .. NVars
  BY MonomialAssumption DEF Vars
<1>2. 1 \in Int /\ NVars \in Int
  BY <1>1
<1>3. IsFiniteSet(1 .. NVars)
  BY <1>2, FS_Interval
<1>4. QED
  BY <1>1, <1>3

\* A bounded set of numbers has a greatest one.
LEMMA GreatestNat ==
  ASSUME NEW N \in Nat, NEW T \in SUBSET (1 .. N), T # {}
  PROVE  \E m \in T : \A x \in T : x <= m
<1> DEFINE U == {N - x : x \in T}
<1>1. U \in SUBSET Nat /\ U # {}
  <2>1. \A x \in T : x \in Nat /\ N - x \in Nat
    OBVIOUS
  <2>2. QED
    BY <2>1
<1>2. \A x \in T : N - x \in U
  OBVIOUS
<1>3. \A u \in U : \E x \in T : u = N - x
  OBVIOUS
<1> HIDE DEF U
<1>4. PICK u \in U : \A x \in U : u <= x
  BY <1>1, LeastNat
<1>5. PICK m \in T : u = N - m
  BY <1>3
<1>6. \A x \in T : x \in 1 .. N /\ m \in 1 .. N /\ N - m <= N - x
  BY <1>2, <1>4, <1>5
<1>7. QED
  BY <1>6

\* The support is a finite set of variables, empty for the monomial one alone.
LEMMA SupportIs ==
  ASSUME NEW m \in Exponents
  PROVE  /\ Support(m) \subseteq Vars /\ IsFiniteSet(Support(m)) /\ Cardinality(Support(m)) \in Nat
         /\ \A v \in Vars : m[v] \in Nat /\ (v \in Support(m) <=> m[v] # 0)
         /\ Support(m) = {} => \A n \in Exponents : Divides(m, n)
<1>1. Support(m) \in SUBSET Vars
  BY DEF Support
<1>2. IsFiniteSet(Support(m))
  BY <1>1, VarsAre, FS_Subset
<1>3. Cardinality(Support(m)) \in Nat
  BY <1>2, FS_CardinalityType
<1>4. \A v \in Vars : m[v] \in Nat /\ (v \in Support(m) <=> m[v] # 0)
  BY DEF Support, Exponents
<1>5. ASSUME Support(m) = {}, NEW n \in Exponents PROVE Divides(m, n)
  <2>1. \A v \in Vars : m[v] = 0 /\ n[v] \in Nat
    BY <1>4, <1>5 DEF Exponents
  <2>2. QED
    BY <2>1 DEF Divides
<1>6. QED
  BY <1>1, <1>2, <1>3, <1>4, <1>5

\* The greatest variable of a set of monomials.
LEMMA TopVarIs ==
  ASSUME NEW I \in SUBSET Exponents
  PROVE  /\ TopVar(I) \in Vars
         /\ \A m \in I : \A v \in Support(m) : v <= TopVar(I)
         /\ (\E m \in I : Support(m) # {}) => \E m \in I : TopVar(I) \in Support(m)
<1> DEFINE vs == UNION {Support(m) : m \in I}
<1>1. vs \in SUBSET Vars
  BY SupportIs
<1>2. CASE vs = {}
  <2>1. TopVar(I) = 1
    BY <1>2 DEF TopVar
  <2>2. QED
    BY <1>2, <2>1, VarsAre
<1>3. CASE vs # {}
  <2> DEFINE P(v) == v \in vs /\ \A w \in vs : w <= v
  <2>1. \E v : P(v)
    <3> HIDE DEF vs
    <3>1. vs \in SUBSET (1 .. NVars) /\ NVars \in Nat
      BY <1>1, VarsAre
    <3>2. \E v \in vs : \A w \in vs : w <= v
      BY <1>3, <3>1, GreatestNat
    <3>3. QED
      BY <3>2
  <2>2. TopVar(I) = CHOOSE v \in vs : \A w \in vs : w <= v
    BY <1>3 DEF TopVar
  <2> HIDE DEF vs
  <2>3. P(TopVar(I))
    BY <2>1, <2>2
  <2>4. QED
    BY <1>1, <2>3 DEF vs
<1>4. QED
  BY <1>2, <1>3

\* A monomial in more than one variable has one that is counted.
LEMMA CountedIs ==
  ASSUME NEW m \in Exponents
  PROVE  /\ Counted(m) \subseteq Support(m)
         /\ Cardinality(Support(m)) > 1 <=> \E v, w \in Support(m) : v # w
         /\ Cardinality(Support(m)) > 1 => Counted(m) # {}
<1> DEFINE S == Support(m)
<1>1. IsFiniteSet(S) /\ Cardinality(S) \in Nat
  BY SupportIs
<1>2. (Cardinality(S) = 0 <=> S = {}) /\ (Cardinality(S) = 1 <=> \E x : S = {x})
  BY <1>1, FS_EmptySet, FS_Singleton
<1>3. Cardinality(S) > 1 <=> \E v, w \in S : v # w
  <2> HIDE DEF S
  <2>1. QED
    BY <1>1, <1>2
<1>4. QED
  BY <1>3 DEF Counted

\* The first place at which numbers are greatest.
LEMMA FirstGreatest ==
  ASSUME NEW N \in Nat \ {0}, NEW h \in [1 .. N -> Nat]
  PROVE  \E v \in 1 .. N : \A w \in 1 .. N : h[w] < h[v] \/ (h[w] = h[v] /\ v <= w)
<1> DEFINE First(k, v) == v \in 1 .. k /\ \A w \in 1 .. k : h[w] < h[v] \/ (h[w] = h[v] /\ v <= w)
           T == {k \in 0 .. N : k = 0 \/ \E v : First(k, v)}
<1>1. 0 \in T
  OBVIOUS
<1>2. ASSUME NEW k \in 1 .. N, k - 1 \in T PROVE k \in T
  <2>1. h[k] \in Nat /\ \A w \in 1 .. k : h[w] \in Nat
    OBVIOUS
  <2>2. CASE k = 1
    <3>1. First(k, 1)
      BY <2>2
    <3>2. QED
      BY <3>1
  <2>3. CASE k # 1
    <3>1. PICK v : First(k - 1, v)
      BY <1>2, <2>3
    <3>2. \A w \in 1 .. k : w = k \/ w \in 1 .. k - 1
      OBVIOUS
    <3>3. CASE h[v] < h[k]
      <4>1. First(k, k)
        BY <2>1, <3>1, <3>2, <3>3
      <4>2. QED
        BY <4>1
    <3>4. CASE ~(h[v] < h[k])
      <4>1. First(k, v)
        BY <2>1, <3>1, <3>2, <3>4
      <4> HIDE DEF First
      <4>2. QED
        BY <4>1
    <3>5. QED
      BY <3>3, <3>4
  <2>4. QED
    BY <2>2, <2>3
<1> HIDE DEF T
<1>3. N \in T
  <2>1. \A k \in 0 .. N : k \in T
    BY <1>1, <1>2, Inducts
  <2>2. QED
    BY <2>1
<1>4. QED
  BY <1>3 DEF T

-----------------------------------------------------------------------------
(* Ideals: finite sets of monomials, none of which divides another.         *)

Ideal(I) == IsFiniteSet(I) /\ I \subseteq Exponents /\ I = Minimal(I)

LEMMA IdealIs ==
  ASSUME NEW I
  PROVE  Ideal(I) <=> /\ IsFiniteSet(I) /\ I \subseteq Exponents
                      /\ \A m, n \in I : Divides(m, n) => m = n
BY DEF Ideal, Minimal

LEMMA PartIdeal ==
  ASSUME NEW I, Ideal(I), NEW J \in SUBSET I
  PROVE  Ideal(J)
<1>1. IsFiniteSet(J)
  BY FS_Subset DEF Ideal
<1>2. QED
  BY <1>1, IdealIs

LEMMA ReflexivePower ==
  /\ \A m \in Exponents : Divides(m, m)
  /\ \A v \in Vars, e \in Nat : Power(v, e) \in Exponents
  /\ \A v \in Vars, e \in Nat : \A w \in Vars : Power(v, e)[w] = IF w = v THEN e ELSE 0
BY DEF Divides, Power, Exponents

\* In a connected ideal of more than one generator there is one in two variables.
LEMMA MixedExists ==
  ASSUME NEW I, Ideal(I), Connected(I), NEW g \in I, NEW h \in I, g # h
  PROVE  Mixed(I) # {}
<1> SUFFICES ASSUME Mixed(I) = {} PROVE FALSE
  OBVIOUS
<1>1. I \subseteq Exponents /\ \A m, n \in I : Divides(m, n) => m = n
  BY IdealIs
<1>2. {g} \in (SUBSET I) \ {{}, I}
  <2>1. h \notin {g} /\ g \in {g}
    OBVIOUS
  <2>2. {g} # {} /\ {g} # I
    BY <2>1
  <2>3. QED
    BY <2>2
<1>3. PICK m \in {g}, n \in I \ {g} : Support(m) \cap Support(n) # {}
  BY <1>2 DEF Connected
<1>4. PICK v : v \in Support(g) /\ v \in Support(n)
  BY <1>3
<1>5. ASSUME NEW k \in I, v \in Support(k) PROVE \A w \in Vars : w # v => k[w] = 0
  <2>1. ~(Cardinality(Support(k)) > 1)
    BY DEF Mixed
  <2>2. \A w \in Support(k) : w = v
    BY <1>1, <1>5, <2>1, CountedIs
  <2>3. QED
    BY <1>1, <2>2, SupportIs
<1>6. g \in Exponents /\ n \in Exponents /\ v \in Vars /\ g[v] \in Nat /\ n[v] \in Nat
  BY <1>1, <1>4, SupportIs
<1>7. \A w \in Vars : w # v => g[w] = 0 /\ n[w] = 0
  BY <1>3, <1>4, <1>5
<1>8. Divides(g, n) \/ Divides(n, g)
  <2>1. CASE g[v] <= n[v]
    <3>1. Divides(g, n)
      BY <1>6, <1>7, <2>1 DEF Divides
    <3>2. QED
      BY <3>1
  <2>2. CASE ~(g[v] <= n[v])
    <3>1. Divides(n, g)
      BY <1>6, <1>7, <2>2 DEF Divides
    <3>2. QED
      BY <3>1
  <2>3. QED
    BY <2>1, <2>2
<1>9. QED
  BY <1>1, <1>3, <1>8

\* What find_pivot returns: a power of a variable that a generator in two variables has to
\* just that power, so that no generator divides it.
PivotOf(I, p, g, v, e) ==
  /\ p = Power(v, e) /\ v \in Vars /\ e \in Nat \ {0}
  /\ g \in Mixed(I) /\ g[v] = e
  /\ \A m \in I : ~Divides(m, p)

LEMMA PivotIs ==
  ASSUME NEW I, Ideal(I), Mixed(I) # {}
  PROVE  \E g, v, e : PivotOf(I, Pivot(I), g, v, e)
<1>1. IsFiniteSet(I) /\ I \subseteq Exponents /\ \A m, n \in I : Divides(m, n) => m = n
  BY IdealIs
<1> DEFINE M == Mixed(I)
           hit(v) == {m \in M : v \in Counted(m)}
           hits(v) == Cardinality(hit(v))
           h == [v \in Vars |-> hits(v)]
           P(v) == v \in Vars /\ \A w \in Vars : hits(w) < hits(v) \/ (hits(w) = hits(v) /\ v <= w)
           v == PopularVar(I)
<1>2. M \in SUBSET I /\ IsFiniteSet(M) /\ \A m \in M : Cardinality(Support(m)) > 1
  <2>1. M \in SUBSET I /\ \A m \in M : Cardinality(Support(m)) > 1
    BY DEF Mixed
  <2>2. QED
    BY <1>1, <2>1, FS_Subset
<1>3. ASSUME NEW u PROVE IsFiniteSet(hit(u)) /\ hits(u) \in Nat /\ (hits(u) = 0 <=> hit(u) = {})
  <2>1. hit(u) \in SUBSET M
    OBVIOUS
  <2> HIDE DEF hit, M
  <2>2. IsFiniteSet(hit(u))
    BY <1>2, <2>1, FS_Subset
  <2>3. QED
    BY <2>2, FS_CardinalityType, FS_EmptySet
<1>4. P(v)
  <2>1. \E u : P(u)
    <3> HIDE DEF hits
    <3>1. h \in [1 .. NVars -> Nat] /\ NVars \in Nat \ {0} /\ \A w \in Vars : h[w] = hits(w)
      BY <1>3, VarsAre
    <3>2. PICK u \in 1 .. NVars : \A w \in 1 .. NVars : h[w] < h[u] \/ (h[w] = h[u] /\ u <= w)
      <4> HIDE DEF h
      <4>1. QED
        BY <3>1, FirstGreatest
    <3>3. P(u)
      BY <3>1, <3>2, VarsAre
    <3>4. QED
      BY <3>3
  <2>2. v = CHOOSE u \in Vars : \A w \in Vars : hits(w) < hits(u) \/ (hits(w) = hits(u) /\ u <= w)
    BY DEF PopularVar
  <2> HIDE DEF hits, v
  <2>3. v = CHOOSE u : P(u)
    BY <2>2
  <2> HIDE DEF P
  <2>4. QED
    BY <2>1, <2>3
<1>5. hit(v) # {}
  <2>1. PICK m \in M : TRUE
    OBVIOUS
  <2>2. m \in Exponents /\ Counted(m) \subseteq Support(m) /\ Counted(m) # {} /\ Support(m) \subseteq Vars
    BY <1>1, <1>2, <2>1, CountedIs, SupportIs
  <2>3. PICK u \in Vars : u \in Counted(m)
    BY <2>2
  <2>4. hit(u) # {} /\ v \in Vars
    BY <1>4, <2>3
  <2> HIDE DEF hit, v
  <2>5. hits(u) \in Nat /\ hits(u) # 0 /\ hits(v) \in Nat
    BY <1>3, <2>4
  <2>6. hits(u) < hits(v) \/ hits(u) = hits(v)
    BY <1>4
  <2> HIDE DEF hits
  <2>7. hits(v) # 0
    BY <2>5, <2>6
  <2>8. QED
    BY <1>3, <2>7
<1>6. ASSUME NEW m \in hit(v) PROVE m \in M /\ m[v] \in Nat \ {0}
  <2>1. m \in M /\ m \in Exponents /\ v \in Vars /\ v \in Support(m)
    BY <1>1, <1>2, <1>4, CountedIs
  <2>2. QED
    BY <2>1, SupportIs
<1> DEFINE exps == {m[v] : m \in hit(v)}
           e == CHOOSE f \in exps : \A x \in exps : f <= x
<1>7. Pivot(I) = Power(v, e)
  BY DEF Pivot
<1> HIDE DEF v, M, hit
<1>8. e \in exps
  <2>1. exps \in SUBSET Nat /\ exps # {}
    BY <1>5, <1>6
  <2> HIDE DEF exps
  <2>2. \E f \in exps : \A x \in exps : f <= x
    BY <2>1, LeastNat
  <2>3. QED
    BY <2>2
<1>9. PICK g \in hit(v) : g[v] = e
  BY <1>8
<1> HIDE DEF e, exps
<1>10. g \in M /\ e \in Nat \ {0} /\ v \in Vars
  BY <1>4, <1>6, <1>9
<1>11. ASSUME NEW m \in I, Divides(m, Power(v, e)) PROVE FALSE
  <2>1. g \in I /\ g \in Exponents /\ m \in Exponents
    BY <1>1, <1>2, <1>10
  <2>2. \A w \in Vars : m[w] \in Nat /\ g[w] \in Nat /\ m[w] <= IF w = v THEN e ELSE 0
    BY <1>10, <1>11, <2>1, SupportIs, ReflexivePower DEF Divides
  <2>3. Divides(m, g)
    BY <1>9, <2>2 DEF Divides
  <2>4. m = g
    BY <1>1, <2>1, <2>3
  <2>5. PICK w \in Support(g) : w # v
    BY <1>2, <1>10, <2>1, CountedIs
  <2>6. w \in Vars /\ g[w] # 0 /\ g[w] <= 0 /\ g[w] \in Nat
    BY <2>1, <2>2, <2>4, <2>5, SupportIs
  <2>7. QED
    BY <2>6
<1>12. PivotOf(I, Pivot(I), g, v, e)
  BY <1>7, <1>9, <1>10, <1>11 DEF PivotOf, M
<1>13. QED
  BY <1>12

\* What recurse relies on, of every ideal that do_ideal gets.
Good(I) == Ideal(I) /\ I # {} /\ Connected(I)

LEMMA FitIs ==
  ASSUME NEW I, Good(I), ~Few(I)
  PROVE  /\ ~NoPivot(I) /\ Mixed(I) # {}
         /\ Support(Pivot(I)) # {} /\ \A m \in I : ~Divides(m, Pivot(I))
<1>1. Ideal(I) /\ IsFiniteSet(I) /\ Connected(I)
  BY DEF Good, Ideal
<1>2. Cardinality(I) \in Nat /\ Cardinality(I) > 2
  BY <1>1, FS_CardinalityType DEF Few
<1>3. ~NoPivot(I)
  BY <1>2 DEF NoPivot, NPure
<1>4. \E g, h \in I : g # h
  <2>1. Cardinality(I) # 0 /\ Cardinality(I) # 1
    BY <1>2
  <2>2. I # {} /\ \A g : I # {g}
    BY <1>1, <2>1, FS_EmptySet, FS_Singleton
  <2>3. QED
    BY <2>2
<1>5. Mixed(I) # {}
  BY <1>1, <1>4, MixedExists
<1>6. PICK g, v, e : PivotOf(I, Pivot(I), g, v, e)
  BY <1>1, <1>5, PivotIs
<1>7. v \in Support(Pivot(I))
  BY <1>6, ReflexivePower DEF PivotOf, Support
<1>8. QED
  BY <1>3, <1>5, <1>6, <1>7 DEF PivotOf

-----------------------------------------------------------------------------
(* The sum with the pivot and the quotient by it.                           *)

\* B is a multiple of all monomials of I.
Within(I, B) == \A m \in I : Divides(m, B)

LEMMA SumIs ==
  ASSUME NEW I, Ideal(I), NEW p, NEW g, NEW v, NEW e, PivotOf(I, p, g, v, e)
  PROVE  /\ Ideal(SumWith(I, p)) /\ SumWith(I, p) # {}
         /\ \A J \in SUBSET SumWith(I, p) : Cardinality(Mixed(J)) < Cardinality(Mixed(I))
         /\ \A B \in Exponents : Within(I, B) => Within(SumWith(I, p), B) /\ Divides(p, B)
<1> DEFINE S == SumWith(I, p)
           rest == {h \in I : ~Divides(p, h)}
<1>1. IsFiniteSet(I) /\ I \subseteq Exponents /\ \A m, n \in I : Divides(m, n) => m = n
  BY IdealIs
<1>2. /\ v \in Vars /\ e \in Nat \ {0} /\ p \in Exponents /\ g \in I /\ g \in Exponents /\ g \in Mixed(I) /\ g[v] = e
      /\ \A w \in Vars : p[w] = IF w = v THEN e ELSE 0
      /\ \A m \in I : ~Divides(m, p)
  BY <1>1, ReflexivePower DEF PivotOf, Mixed
<1>3. S = {p} \cup rest
  BY DEF SumWith
<1>4. Divides(p, g)
  <2>1. \A w \in Vars : g[w] \in Nat
    BY <1>2, SupportIs
  <2>2. QED
    BY <1>2, <2>1 DEF Divides
<1>5. rest \in SUBSET (I \ {g})
  BY <1>4
<1>6. IsFiniteSet(rest)
  BY <1>1, <1>5, FS_Subset
<1> HIDE DEF rest, S
<1>7. IsFiniteSet(S)
  <2>1. IsFiniteSet(rest \cup {p})
    BY <1>6, FS_AddElement
  <2>2. S = rest \cup {p}
    BY <1>3
  <2>3. QED
    BY <2>1, <2>2
<1>8. Ideal(S)
  <2>1. \A m, n \in S : Divides(m, n) => m = n
    BY <1>1, <1>2, <1>3 DEF rest
  <2>2. S \subseteq Exponents
    BY <1>1, <1>2, <1>3, <1>5
  <2>3. QED
    BY <1>7, <2>1, <2>2, IdealIs
<1>9. ASSUME NEW J \in SUBSET S PROVE Cardinality(Mixed(J)) < Cardinality(Mixed(I))
  <2>1. p \notin Mixed(J)
    <3>1. \A w \in Support(p) : w = v
      BY <1>2, SupportIs
    <3>2. ~(Cardinality(Support(p)) > 1)
      BY <1>2, <3>1, CountedIs
    <3>3. QED
      BY <3>2 DEF Mixed
  <2>2. Mixed(J) \in SUBSET Mixed(I) /\ g \notin Mixed(J)
    BY <1>3, <1>5, <2>1, <1>2, <1>4 DEF Mixed, rest
  <2>3. Mixed(I) \in SUBSET I
    BY DEF Mixed
  <2>4. IsFiniteSet(Mixed(I))
    BY <1>1, <2>3, FS_Subset
  <2>5. /\ Cardinality(Mixed(J)) <= Cardinality(Mixed(I)) /\ Cardinality(Mixed(J)) # Cardinality(Mixed(I))
        /\ IsFiniteSet(Mixed(J))
    BY <1>2, <2>2, <2>4, FS_Subset
  <2>6. Cardinality(Mixed(J)) \in Nat /\ Cardinality(Mixed(I)) \in Nat
    BY <2>4, <2>5, FS_CardinalityType
  <2>7. QED
    BY <2>5, <2>6
<1>10. ASSUME NEW B \in Exponents, Within(I, B) PROVE Within(S, B) /\ Divides(p, B)
  <2>1. Divides(p, B)
    BY <1>2, <1>4, <1>10, DividesOrder DEF Within, Exponents
  <2>2. QED
    BY <1>3, <1>5, <1>10, <2>1 DEF Within
<1>11. S # {}
  BY <1>3
<1>12. QED
  BY <1>8, <1>9, <1>10, <1>11 DEF S

LEMMA QuotientIs ==
  ASSUME NEW a \in Exponents, NEW p \in Exponents
  PROVE  /\ Quotient(a, p) \in Exponents /\ Divides(Quotient(a, p), a)
         /\ \A w \in Vars : Quotient(a, p)[w] = IF a[w] > p[w] THEN a[w] - p[w] ELSE 0
         /\ \A c \in Exponents : Divides(p, c) /\ Divides(Quotient(a, p), Quotient(c, p)) => Divides(a, c)
<1>1. \A c \in Exponents : \A w \in Vars : c[w] \in Nat
  BY DEF Exponents
<1>2. ASSUME NEW c \in Exponents
      PROVE  \A w \in Vars : Quotient(c, p)[w] = IF c[w] > p[w] THEN c[w] - p[w] ELSE 0
  BY DEF Quotient
<1>3. Quotient(a, p) \in Exponents
  BY <1>1 DEF Quotient, Exponents
<1>4. Divides(Quotient(a, p), a)
  BY <1>1, <1>2 DEF Divides
<1>5. ASSUME NEW c \in Exponents, Divides(p, c), Divides(Quotient(a, p), Quotient(c, p))
      PROVE  Divides(a, c)
  <2>1. ASSUME NEW w \in Vars PROVE a[w] <= c[w]
    <3>1. a[w] \in Nat /\ c[w] \in Nat /\ p[w] \in Nat
      BY <1>1
    <3>2. p[w] <= c[w] /\ Quotient(a, p)[w] <= Quotient(c, p)[w]
      BY <1>5 DEF Divides
    <3>3. QED
      BY <1>2, <3>1, <3>2
  <2>2. QED
    BY <2>1 DEF Divides
<1>6. QED
  BY <1>2, <1>3, <1>4, <1>5

LEMMA QuotIs ==
  ASSUME NEW I, Ideal(I), NEW p, NEW g, NEW v, NEW e, PivotOf(I, p, g, v, e)
  PROVE  /\ Ideal(QuotientBy(I, p)) /\ QuotientBy(I, p) # {}
         /\ \A b \in QuotientBy(I, p) : \E k \in I : b = Quotient(k, p)
         /\ \A B \in Exponents : Within(I, B) => Within(QuotientBy(I, p), B)
<1> DEFINE exact  == {Quotient(k, p) : k \in {h \in I : Divides(p, h)}}
           others == {Quotient(k, p) : k \in {h \in I : ~Divides(p, h)}}
           Q == QuotientBy(I, p)
           all == {Quotient(k, p) : k \in I}
<1>1. IsFiniteSet(I) /\ I \subseteq Exponents /\ \A m, n \in I : Divides(m, n) => m = n
  BY IdealIs
<1>2. p \in Exponents /\ g \in I /\ Divides(p, g)
  <2>1. /\ v \in Vars /\ e \in Nat \ {0} /\ p \in Exponents /\ g \in I /\ g \in Exponents /\ g[v] = e
        /\ \A w \in Vars : p[w] = IF w = v THEN e ELSE 0
    BY <1>1, ReflexivePower DEF PivotOf, Mixed
  <2>2. \A w \in Vars : g[w] \in Nat
    BY <2>1, SupportIs
  <2>3. QED
    BY <2>1, <2>2 DEF Divides
<1>3. Q = exact \cup {b \in others : \A c \in exact \cup others : Divides(c, b) => c = b}
  BY DEF QuotientBy
<1>4. exact \subseteq all /\ others \subseteq all
  OBVIOUS
<1>5. \A b \in exact : \E h \in I : Divides(p, h) /\ b = Quotient(h, p)
  OBVIOUS
<1>6. exact # {}
  BY <1>2
<1>7. all \subseteq exact \cup others
  OBVIOUS
<1>8. \A b \in all : \E k \in I : b = Quotient(k, p)
  OBVIOUS
<1>9. IsFiniteSet(all)
  <2> DEFINE f == [k \in I |-> Quotient(k, p)]
  <2>1. IsFiniteSet({f[k] : k \in I})
    BY <1>1, FiniteImage
  <2>2. {f[k] : k \in I} = all
    OBVIOUS
  <2>3. QED
    BY <2>1, <2>2
<1> HIDE DEF exact, others, all, Q
<1>10. Q \in SUBSET all /\ Q # {}
  BY <1>3, <1>4, <1>6
<1>11. Q \subseteq Exponents
  BY <1>1, <1>2, <1>8, <1>10, QuotientIs
<1>12. ASSUME NEW x \in Q, NEW y \in Q, Divides(x, y) PROVE x = y
  <2>1. CASE y \in exact
    <3>1. PICK h \in I : Divides(p, h) /\ y = Quotient(h, p)
      BY <1>5, <2>1
    <3>2. PICK k \in I : x = Quotient(k, p)
      BY <1>8, <1>10
    <3>3. Divides(k, h)
      BY <1>1, <1>2, <1>12, <3>1, <3>2, QuotientIs
    <3>4. QED
      BY <1>1, <3>1, <3>2, <3>3
  <2>2. CASE y \notin exact
    BY <1>3, <1>7, <1>10, <1>12, <2>2
  <2>3. QED
    BY <2>1, <2>2
<1>13. Ideal(Q)
  <2>1. IsFiniteSet(Q)
    BY <1>9, <1>10, FS_Subset
  <2>2. QED
    BY <1>11, <1>12, <2>1, IdealIs
<1>14. ASSUME NEW B \in Exponents, Within(I, B) PROVE Within(Q, B)
  <2>1. ASSUME NEW b \in Q PROVE Divides(b, B)
    <3>1. PICK k \in I : b = Quotient(k, p)
      BY <1>8, <1>10
    <3>2. k \in Exponents /\ b \in Exponents /\ Divides(b, k) /\ Divides(k, B)
      BY <1>1, <1>2, <1>14, <3>1, QuotientIs DEF Within
    <3>3. QED
      BY <3>2, DividesOrder DEF Exponents
  <2>2. QED
    BY <2>1 DEF Within
<1>15. QED
  BY <1>8, <1>10, <1>13, <1>14 DEF Q

\* The degree of an ideal, as PartsSmaller counts it.
Boxes(I) == UNION {{m} \X (1 .. Weight(m)) : m \in I}

LEMMA BoxesAre ==
  ASSUME NEW I, IsFiniteSet(I), I \subseteq Exponents
  PROVE  /\ IsFiniteSet(Boxes(I)) /\ Cardinality(Boxes(I)) \in Nat
         /\ \A x : x \in Boxes(I) <=> \E m \in I : \E n \in 1 .. Weight(m) : x = <<m, n>>
<1>1. ASSUME NEW m \in I PROVE IsFiniteSet({m} \X (1 .. Weight(m)))
  <2>1. m \in [Vars -> Nat] /\ Divides(m, m)
    BY ReflexivePower DEF Exponents
  <2>2. Weight(m) \in Int /\ 1 \in Int
    BY <2>1, WeightMonotone
  <2>3. IsFiniteSet(1 .. Weight(m)) /\ IsFiniteSet({m})
    BY <2>2, FS_Interval, FS_Singleton
  <2>4. QED
    BY <2>3, FS_Product
<1> DEFINE f == [m \in I |-> {m} \X (1 .. Weight(m))]
<1>2. IsFiniteSet({f[m] : m \in I})
  <2>1. DOMAIN f = I
    OBVIOUS
  <2> HIDE DEF f
  <2>2. QED
    BY <2>1, FiniteImage
<1>3. {f[m] : m \in I} = {{m} \X (1 .. Weight(m)) : m \in I}
  OBVIOUS
<1>4. IsFiniteSet(UNION {f[m] : m \in I})
  BY <1>1, <1>2, FS_UNION
<1>5. IsFiniteSet(Boxes(I))
  BY <1>3, <1>4 DEF Boxes
<1>6. \A x : x \in Boxes(I) <=> \E m \in I : \E n \in 1 .. Weight(m) : x = <<m, n>>
  BY DEF Boxes
<1>7. QED
  BY <1>5, <1>6, FS_CardinalityType

\* What PartsSmaller says of two ideals.
SmallerThan(I, J) ==
  \/ Cardinality(Mixed(I)) < Cardinality(Mixed(J))
  \/ Cardinality(Mixed(I)) = Cardinality(Mixed(J)) /\ Cardinality(Boxes(I)) < Cardinality(Boxes(J))

\* The parts of a quotient have no more generators in two variables, and a lower degree.
LEMMA QuotSmaller ==
  ASSUME NEW I, Ideal(I), NEW p, NEW g, NEW v, NEW e, PivotOf(I, p, g, v, e),
         NEW J, J \subseteq QuotientBy(I, p)
  PROVE  SmallerThan(J, I)
<1>1. IsFiniteSet(I) /\ I \subseteq Exponents
  BY IdealIs
<1>2. /\ v \in Vars /\ e \in Nat \ {0} /\ p \in Exponents /\ g \in I /\ g \in Exponents /\ g[v] = e
      /\ p[v] = e
  BY <1>1, ReflexivePower DEF PivotOf, Mixed
<1> DEFINE back == [b \in J |-> CHOOSE k \in I : b = Quotient(k, p)]
<1>3. ASSUME NEW b \in J
      PROVE  /\ back[b] \in I /\ back[b] \in Exponents /\ b = Quotient(back[b], p)
             /\ b \in Exponents /\ Divides(b, back[b])
  <2>1. \E k \in I : b = Quotient(k, p)
    BY QuotIs
  <2>2. back[b] \in I /\ b = Quotient(back[b], p)
    BY <2>1
  <2> HIDE DEF back
  <2>3. QED
    BY <1>1, <1>2, <2>2, QuotientIs
<1> HIDE DEF back
<1>4. \A a, b \in J : back[a] = back[b] => a = b
  BY <1>3
<1>5. J \subseteq Exponents /\ IsFiniteSet(J)
  <2>1. IsFiniteSet(QuotientBy(I, p))
    BY QuotIs DEF Ideal
  <2>2. QED
    BY <1>3, <2>1, FS_Subset
<1>6. \A b \in Mixed(J) : b \in J /\ back[b] \in Mixed(I)
  <2>1. ASSUME NEW b \in Mixed(J) PROVE b \in J /\ back[b] \in Mixed(I)
    <3>1. b \in J /\ Cardinality(Support(b)) > 1
      BY DEF Mixed
    <3>2. PICK x, y \in Support(b) : x # y
      BY <1>3, <3>1, CountedIs
    <3>3. \A w \in Vars : b[w] <= back[b][w] /\ b[w] \in Nat /\ back[b][w] \in Nat
      BY <1>3, <3>1, SupportIs DEF Divides
    <3>4. x \in Support(back[b]) /\ y \in Support(back[b])
      BY <1>3, <3>1, <3>2, <3>3, SupportIs
    <3>5. Cardinality(Support(back[b])) > 1
      BY <1>3, <3>1, <3>2, <3>4, CountedIs
    <3>6. QED
      BY <1>3, <3>1, <3>5 DEF Mixed
  <2>2. QED
    BY <2>1
<1>7. /\ Cardinality(Mixed(J)) \in Nat /\ Cardinality(Mixed(I)) \in Nat
      /\ Cardinality(Mixed(J)) <= Cardinality(Mixed(I))
  <2> DEFINE f == [b \in Mixed(J) |-> back[b]]
  <2>1. f \in Injection(Mixed(J), Mixed(I))
    <3>1. f \in [Mixed(J) -> Mixed(I)] /\ \A a, b \in Mixed(J) : f[a] = f[b] => a = b
      BY <1>4, <1>6
    <3> HIDE DEF f
    <3>2. QED
      BY <3>1, Fun_IsInj
  <2>2. Mixed(I) \in SUBSET I
    BY DEF Mixed
  <2>3. IsFiniteSet(Mixed(I))
    BY <1>1, <2>2, FS_Subset
  <2> HIDE DEF f
  <2>4. IsFiniteSet(Mixed(J)) /\ Cardinality(Mixed(J)) <= Cardinality(Mixed(I))
    BY <2>1, <2>3, FS_Injection
  <2>5. QED
    BY <2>3, <2>4, FS_CardinalityType
<1>8. \A k \in Exponents : Weight(k) \in Nat
  BY ReflexivePower, WeightMonotone DEF Exponents
<1>9. ASSUME NEW b \in J PROVE Weight(b) <= Weight(back[b]) /\ (back[b] = g => Weight(b) < Weight(g))
  <2>1. b \in [Vars -> Nat] /\ back[b] \in [Vars -> Nat] /\ Divides(b, back[b])
    BY <1>3 DEF Exponents
  <2>2. Weight(b) <= Weight(back[b]) /\ (b # back[b] => Weight(b) < Weight(back[b]))
    BY <2>1, WeightMonotone
  <2>3. ASSUME back[b] = g PROVE b # g
    <3>1. b[v] = 0
      BY <1>2, <1>3, <2>3, QuotientIs
    <3>2. QED
      BY <1>2, <3>1
  <2>4. QED
    BY <2>2, <2>3
<1>10. Cardinality(Boxes(J)) < Cardinality(Boxes(I))
  <2> DEFINE F == [x \in Boxes(J) |-> <<back[x[1]], x[2]>>]
  <2>1. /\ IsFiniteSet(Boxes(I)) /\ Cardinality(Boxes(I)) \in Nat
        /\ IsFiniteSet(Boxes(J)) /\ Cardinality(Boxes(J)) \in Nat
    BY <1>1, <1>5, BoxesAre
  <2>2. ASSUME NEW x \in Boxes(J)
        PROVE  /\ x = <<x[1], x[2]>> /\ x[1] \in J /\ x[2] \in 1 .. Weight(x[1])
               /\ F[x] \in Boxes(I) /\ F[x] # <<g, Weight(g)>>
    <3>1. PICK m \in J : \E n \in 1 .. Weight(m) : x = <<m, n>>
      BY <1>5, BoxesAre
    <3>2. PICK n \in 1 .. Weight(m) : x = <<m, n>>
      BY <3>1
    <3>3. /\ Weight(m) \in Nat /\ Weight(back[m]) \in Nat /\ Weight(m) <= Weight(back[m]) /\ back[m] \in I
          /\ back[m] = g => Weight(m) < Weight(g)
      BY <1>3, <1>8, <1>9
    <3>4. F[x] = <<back[m], n>> /\ n \in 1 .. Weight(back[m])
      BY <3>2, <3>3
    <3>5. F[x] \in Boxes(I)
      BY <1>1, <3>3, <3>4, BoxesAre
    <3>6. F[x] # <<g, Weight(g)>>
      <4>1. ~(back[m] = g /\ n = Weight(g))
        BY <3>3
      <4>2. QED
        BY <3>4, <4>1
    <3>7. QED
      BY <3>2, <3>5, <3>6
  <2>3. F \in [Boxes(J) -> Boxes(I)]
    BY <2>2
  <2>4. ASSUME NEW x \in Boxes(J), NEW y \in Boxes(J), F[x] = F[y] PROVE x = y
    <3>1. back[x[1]] = back[y[1]] /\ x[2] = y[2]
      BY <2>4
    <3>2. x[1] = y[1]
      BY <1>4, <2>2, <3>1
    <3>3. QED
      BY <2>2, <3>1, <3>2
  <2>5. <<g, Weight(g)>> \in Boxes(I)
    <3>1. Divides(One, g) /\ One \in [Vars -> Nat] /\ g \in [Vars -> Nat] /\ One # g
      BY <1>2 DEF One, Divides, Exponents
    <3>2. Weight(g) \in Nat /\ Weight(One) \in Nat /\ Weight(One) < Weight(g)
      BY <3>1, WeightMonotone
    <3>3. Weight(g) \in 1 .. Weight(g)
      BY <3>2
    <3>4. QED
      BY <1>1, <1>2, <3>3, BoxesAre
  <2>6. \A x \in Boxes(J) : F[x] # <<g, Weight(g)>>
    BY <2>2
  <2> HIDE DEF F
  <2>7. F \in Injection(Boxes(J), Boxes(I))
    BY <2>3, <2>4, Fun_IsInj
  <2>8. F \notin Surjection(Boxes(J), Boxes(I))
    BY <2>5, <2>6, Fun_SurjectionProperties
  <2>9. Cardinality(Boxes(J)) <= Cardinality(Boxes(I)) /\ Cardinality(Boxes(J)) # Cardinality(Boxes(I))
    BY <2>1, <2>7, <2>8, FS_Injection
  <2>10. QED
    BY <2>1, <2>9
<1>11. QED
  BY <1>7, <1>10 DEF SmallerThan

-----------------------------------------------------------------------------
(* The forest of a partition table.  c is the root of each variable; r grows *)
(* on the way to it.                                                        *)

Forest(n, dad, c, r) ==
  /\ n \in 0 .. NVars
  /\ dad \in [1 .. n -> Int] /\ c \in [1 .. n -> 1 .. n] /\ r \in [1 .. n -> Nat]
  /\ \A v \in 1 .. n : /\ dad[v] # 0
                       /\ dad[v] > 0 => dad[v] \in 1 .. n /\ r[v] < r[dad[v]] /\ c[dad[v]] = c[v]
                       /\ dad[v] < 0 => c[v] = v
                       /\ dad[c[v]] < 0

\* One step up.
Up(dad, v) == IF dad[v] > 0 THEN dad[v] ELSE v

\* The way up from x, as long as there are variables.
Way(n, dad, x, up) ==
  /\ up \in [0 .. NVars -> 1 .. n] /\ up[0] = x
  /\ \A k \in 1 .. NVars : up[k] = Up(dad, up[k - 1])

LEMMA WayExists ==
  ASSUME NEW n, NEW dad, NEW c, NEW r, Forest(n, dad, c, r), NEW x \in 1 .. n
  PROVE  \E up : Way(n, dad, x, up) /\ Representative(dad, x) = up[NVars]
<1> DEFINE D == 1 .. n
           G == [k \in 1 .. NVars |-> [v \in D |-> Up(dad, v)]]
           P(up) == up = [k \in 0 .. NVars |-> IF k = 0 THEN x ELSE Up(dad, up[k - 1])]
           up == CHOOSE u : P(u)
<1>1. NVars \in Nat
  BY VarsAre
<1>2. \A v \in D : Up(dad, v) \in D
  BY DEF Forest, Up
<1>3. G \in [1 .. NVars -> [D -> D]] /\ \A k \in 1 .. NVars : \A v \in D : G[k][v] = Up(dad, v)
  BY <1>2
<1> HIDE DEF G
<1>4. PICK f : Iteration(f, D, x, NVars, G)
  BY <1>1, <1>3, Iterates
<1>5. Way(n, dad, x, f)
  <2>1. ASSUME NEW k \in 1 .. NVars PROVE f[k] = Up(dad, f[k - 1])
    <3>1. f[k - 1] \in D /\ f[k] = G[k][f[k - 1]]
      BY <1>1, <1>4 DEF Iteration
    <3>2. QED
      BY <1>3, <3>1
  <2>2. QED
    BY <1>4, <2>1 DEF Way, Iteration
<1>6. P(f)
  BY <1>1, <1>5 DEF Way
<1>7. P(up)
  <2> HIDE DEF P
  <2>1. QED
    BY <1>6
<1>8. Representative(dad, x) = up[NVars]
  BY DEF Representative, Up
<1> HIDE DEF up
<1>9. up[0] = x /\ \A k \in 1 .. NVars : up[k] = Up(dad, up[k - 1])
  BY <1>1, <1>7
<1>10. up \in [0 .. NVars -> D]
  <2> DEFINE T == {k \in 0 .. NVars : up[k] \in D}
  <2>1. 0 \in T
    BY <1>1, <1>9
  <2>2. \A k \in 1 .. NVars : k - 1 \in T => k \in T
    BY <1>1, <1>2, <1>9
  <2> HIDE DEF T
  <2>3. \A k \in 0 .. NVars : k \in T
    BY <1>1, <2>1, <2>2, Inducts
  <2>4. \A k \in 0 .. NVars : up[k] \in D
    BY <2>3 DEF T
  <2>5. QED
    BY <1>7, <2>4
<1>11. QED
  BY <1>8, <1>9, <1>10 DEF Way

\* There are not enough variables for the way not to end at the root.
LEMMA RepresentativeIs ==
  ASSUME NEW n, NEW dad, NEW c, NEW r, Forest(n, dad, c, r), NEW x \in 1 .. n
  PROVE  Representative(dad, x) = c[x] /\ r[x] <= r[c[x]]
<1>1. PICK up : Way(n, dad, x, up) /\ Representative(dad, x) = up[NVars]
  BY WayExists
<1>2. NVars \in Nat /\ n \in Nat /\ n <= NVars
  BY VarsAre DEF Forest
<1>3. \A k \in 0 .. NVars : up[k] \in 1 .. n /\ r[up[k]] \in Nat
  BY <1>1 DEF Way, Forest
<1>4. \A k \in 0 .. NVars : c[up[k]] = c[x] /\ r[x] <= r[up[k]]
  <2> DEFINE T == {k \in 0 .. NVars : c[up[k]] = c[x] /\ r[x] <= r[up[k]]}
  <2>1. 0 \in T
    BY <1>1, <1>2, <1>3 DEF Way, Forest
  <2>2. ASSUME NEW k \in 1 .. NVars, k - 1 \in T PROVE k \in T
    <3>1. k - 1 \in 0 .. NVars /\ k \in 0 .. NVars
      BY <1>2
    <3>2. up[k - 1] \in 1 .. n /\ r[up[k]] \in Nat /\ r[up[k - 1]] \in Nat
      BY <1>3, <3>1
    <3>3. up[k] = Up(dad, up[k - 1]) /\ r[x] \in Nat
      <4>1. up[k] = Up(dad, up[k - 1])
        BY <1>1 DEF Way
      <4>2. r[x] \in Nat
        BY DEF Forest
      <4>3. QED
        BY <4>1, <4>2
    <3>4. c[up[k]] = c[up[k - 1]] /\ (up[k] = up[k - 1] \/ r[up[k - 1]] < r[up[k]])
      <4> DEFINE u == up[k - 1]
      <4>1. dad[u] > 0 => r[u] < r[dad[u]] /\ c[dad[u]] = c[u]
        BY <3>2 DEF Forest
      <4>2. up[k] = IF dad[u] > 0 THEN dad[u] ELSE u
        BY <3>3 DEF Up
      <4> HIDE DEF u
      <4>3. c[up[k]] = c[u] /\ (up[k] = u \/ r[u] < r[up[k]])
        BY <4>1, <4>2
      <4>4. QED
        BY <4>3 DEF u
    <3>5. QED
      BY <2>2, <3>1, <3>2, <3>3, <3>4
  <2> HIDE DEF T
  <2>3. \A k \in 0 .. NVars : k \in T
    BY <1>2, <2>1, <2>2, Inducts
  <2>4. QED
    BY <2>3 DEF T
<1>5. dad[up[NVars]] < 0
  <2> SUFFICES ASSUME ~(dad[up[NVars]] < 0) PROVE FALSE
    OBVIOUS
  <2> DEFINE Inner(k) == dad[up[k]] > 0
             T == {k \in 0 .. NVars : Inner(NVars - k)}
             U == {k \in 0 .. NVars : \A i \in 0 .. NVars : i < k => r[up[i]] < r[up[k]]}
  <2>1. \A k \in 0 .. NVars : dad[up[k]] \in Int /\ dad[up[k]] # 0
    BY <1>3 DEF Forest
  <2>2. \A k \in 0 .. NVars : Inner(k)
    <3>1. 0 \in T
      BY <1>2, <2>1
    <3>2. ASSUME NEW k \in 1 .. NVars, k - 1 \in T PROVE k \in T
      <4> DEFINE j == NVars - k + 1
      <4>1. j \in 1 .. NVars /\ j - 1 = NVars - k /\ j = NVars - (k - 1) /\ k \in 0 .. NVars
        BY <1>2
      <4>2. Inner(j)
        BY <3>2, <4>1
      <4>3. up[j] = Up(dad, up[j - 1])
        BY <1>1, <4>1 DEF Way
      <4>4. Inner(j - 1)
        BY <4>2, <4>3 DEF Up
      <4>5. QED
        BY <4>1, <4>4
    <3> HIDE DEF T
    <3>3. \A k \in 0 .. NVars : k \in T
      BY <1>2, <3>1, <3>2, Inducts
    <3>4. ASSUME NEW k \in 0 .. NVars PROVE Inner(k)
      <4>1. NVars - k \in T /\ NVars - (NVars - k) = k
        BY <1>2, <3>3
      <4>2. QED
        BY <4>1 DEF T
    <3>5. QED
      BY <3>4
  <2>3. \A k \in 1 .. NVars : r[up[k - 1]] < r[up[k]]
    <3>1. ASSUME NEW k \in 1 .. NVars PROVE r[up[k - 1]] < r[up[k]]
      <4>1. k - 1 \in 0 .. NVars /\ up[k] = Up(dad, up[k - 1])
        BY <1>1, <1>2 DEF Way
      <4>2. up[k] = dad[up[k - 1]] /\ up[k - 1] \in 1 .. n /\ dad[up[k - 1]] > 0
        BY <1>3, <2>2, <4>1 DEF Up
      <4>3. QED
        BY <4>2 DEF Forest
    <3>2. QED
      BY <3>1
  <2>4. \A k \in 0 .. NVars : k \in U
    <3>1. 0 \in U
      BY <1>2
    <3>2. ASSUME NEW k \in 1 .. NVars, k - 1 \in U PROVE k \in U
      <4>1. ASSUME NEW i \in 0 .. NVars, i < k PROVE r[up[i]] < r[up[k]]
        <5>1. k - 1 \in 0 .. NVars /\ (i = k - 1 \/ i < k - 1)
          BY <1>2, <4>1
        <5>2. r[up[i]] \in Nat /\ r[up[k]] \in Nat /\ r[up[k - 1]] \in Nat
          BY <1>2, <1>3, <5>1
        <5>3. i < k - 1 => r[up[i]] < r[up[k - 1]]
          BY <3>2
        <5>4. QED
          BY <2>3, <5>1, <5>2, <5>3
      <4>2. QED
        BY <1>2, <4>1
    <3> HIDE DEF U
    <3>3. QED
      BY <1>2, <3>1, <3>2, Inducts
  <2>5. PICK i, j \in 0 .. NVars : i # j /\ up[i] = up[j]
    <3>1. /\ IsFiniteSet(0 .. NVars) /\ Cardinality(0 .. NVars) = NVars + 1
          /\ IsFiniteSet(1 .. n) /\ Cardinality(1 .. n) = n
      BY <1>2, FS_Interval
    <3>2. up \in [0 .. NVars -> 1 .. n]
      BY <1>1 DEF Way
    <3>3. Cardinality(1 .. n) < Cardinality(0 .. NVars)
      BY <1>2, <3>1
    <3>4. QED
      BY <3>1, <3>2, <3>3, FS_PigeonHole
  <2>6. i < j \/ j < i
    BY <1>2, <2>5
  <2>7. r[up[i]] < r[up[j]] \/ r[up[j]] < r[up[i]]
    BY <2>4, <2>6
  <2>8. QED
    BY <1>3, <2>5, <2>7
<1>6. NVars \in 0 .. NVars
  BY <1>2
<1>7. c[up[NVars]] = up[NVars]
  BY <1>3, <1>5, <1>6 DEF Forest
<1>8. QED
  BY <1>1, <1>4, <1>6, <1>7

\* The chain of x stays in its set and reaches the root.
Wider(dad, vs) == vs \cup {dad[v] : v \in {w \in vs : dad[w] > 0}}

LEMMA ChainIs ==
  ASSUME NEW n, NEW dad, NEW c, NEW r, Forest(n, dad, c, r), NEW x \in 1 .. n
  PROVE  c[x] \in Chain(dad, x) /\ \A v \in Chain(dad, x) : v \in 1 .. n /\ c[v] = c[x]
<1> DEFINE D == SUBSET {v \in 1 .. n : c[v] = c[x]}
           G == [k \in 1 .. NVars |-> [vs \in D |-> Wider(dad, vs)]]
           P(W) == W = [k \in 0 .. NVars |-> IF k = 0 THEN {x} ELSE Wider(dad, W[k - 1])]
           W == CHOOSE U : P(U)
<1>1. NVars \in Nat /\ {x} \in D
  BY VarsAre
<1>2. ASSUME NEW vs \in D PROVE Wider(dad, vs) \in D
  <2>1. ASSUME NEW v \in vs, dad[v] > 0 PROVE dad[v] \in 1 .. n /\ c[dad[v]] = c[x]
    BY <2>1 DEF Forest
  <2>2. QED
    BY <2>1 DEF Wider
<1>3. G \in [1 .. NVars -> [D -> D]] /\ \A k \in 1 .. NVars : \A vs \in D : G[k][vs] = Wider(dad, vs)
  BY <1>2
<1> HIDE DEF G, D
<1>4. PICK f : Iteration(f, D, {x}, NVars, G)
  BY <1>1, <1>3, Iterates
<1>5. f[0] = {x} /\ f \in [0 .. NVars -> D] /\ \A k \in 1 .. NVars : f[k] = Wider(dad, f[k - 1])
  <2>1. ASSUME NEW k \in 1 .. NVars PROVE f[k] = Wider(dad, f[k - 1])
    <3>1. k - 1 \in 0 .. NVars
      BY <1>1
    <3>2. f[k - 1] \in D /\ f[k] = G[k][f[k - 1]]
      BY <1>4, <3>1 DEF Iteration
    <3>3. QED
      BY <1>3, <3>2
  <2>2. QED
    BY <1>4, <2>1 DEF Iteration
<1>6. P(f)
  BY <1>1, <1>5
<1>7. P(W)
  <2> HIDE DEF P
  <2>1. QED
    BY <1>6
<1>8. Chain(dad, x) = W[NVars]
  BY DEF Chain, Wider
<1> HIDE DEF W
<1>9. W[0] = {x} /\ \A k \in 1 .. NVars : W[k] = Wider(dad, W[k - 1])
  <2>1. \A k \in 0 .. NVars : W[k] = IF k = 0 THEN {x} ELSE Wider(dad, W[k - 1])
    BY <1>7
  <2>2. 0 \in 0 .. NVars /\ \A k \in 1 .. NVars : k \in 0 .. NVars /\ k # 0
    BY <1>1
  <2>3. QED
    BY <2>1, <2>2
<1>10. PICK up : Way(n, dad, x, up) /\ up[NVars] = c[x]
  BY WayExists, RepresentativeIs
<1> DEFINE T == {k \in 0 .. NVars : W[k] \in D /\ up[k] \in W[k]}
<1>11. 0 \in T
  <2>1. up[0] \in W[0] /\ W[0] \in D
    BY <1>1, <1>9, <1>10 DEF Way
  <2>2. 0 \in 0 .. NVars
    BY <1>1
  <2>3. QED
    BY <2>1, <2>2
<1>12. ASSUME NEW k \in 1 .. NVars, k - 1 \in T PROVE k \in T
  <2>1. W[k - 1] \in D /\ up[k - 1] \in W[k - 1] /\ W[k] = Wider(dad, W[k - 1])
    BY <1>9, <1>12
  <2>2. up[k] = Up(dad, up[k - 1])
    BY <1>10 DEF Way
  <2>3. up[k] \in W[k]
    BY <2>1, <2>2 DEF Up, Wider
  <2>4. k \in 0 .. NVars
    BY <1>1
  <2>5. QED
    BY <1>2, <2>1, <2>3, <2>4
<1> HIDE DEF T
<1>13. NVars \in T
  <2>1. \A k \in 0 .. NVars : k \in T
    BY <1>1, <1>11, <1>12, Inducts
  <2>2. QED
    BY <1>1, <2>1
<1>14. QED
  BY <1>8, <1>10, <1>13 DEF T, D

\* The tables, with the root of each variable.
Tables(n) == [dad : [1 .. n -> Int], occurs : SUBSET Vars, n_sets : Int, var1 : Int]

Roots(n, pt) == {v \in 1 .. n : pt.dad[v] < 0}

Classes(n, pt, c) ==
  /\ pt \in Tables(n) /\ \E r : Forest(n, pt.dad, c, r)
  /\ IsFiniteSet(Roots(n, pt)) /\ pt.n_sets = Cardinality(Roots(n, pt))

\* The sets are not across A.
Keeps(n, c, A) == \A v \in 1 .. n : v \in A <=> c[v] \in A

\* What merge_in(x, y) does to the sets.
Merged(n, c, c2, x, y) ==
  /\ c2[x] = c2[y]
  /\ \A v, w \in 1 .. n : c[v] = c[w] => c2[v] = c2[w]
  /\ \A A : Keeps(n, c, A) /\ (x \in A <=> y \in A) => Keeps(n, c2, A)

MergedTable(n, pt, pt2, c, x, y) ==
  \E c2 : /\ Classes(n, pt2, c2) /\ Merged(n, c, c2, x, y)
          /\ pt2.var1 = c2[x] /\ c2[x] \in 1 .. n
          /\ pt2.occurs = pt.occurs

LEMMA MergeIs ==
  ASSUME NEW n, NEW pt, NEW c, Classes(n, pt, c), NEW x \in 1 .. n, NEW y \in 1 .. n
  PROVE  MergedTable(n, pt, MergeVars(pt, x, y), c, x, y)
<1> DEFINE dad == pt.dad
           i == c[x]
           j == c[y]
           top == IF dad[i] > dad[j] THEN j ELSE i
           other == IF dad[i] > dad[j] THEN i ELSE j
           both == Chain(dad, x) \cup Chain(dad, y)
           dad2 == [v \in 1 .. n |-> IF v = top THEN dad[i] + dad[j] ELSE IF v \in both THEN top ELSE dad[v]]
           c2 == [v \in 1 .. n |-> IF c[v] \in {i, j} THEN top ELSE c[v]]
           pt2 == MergeVars(pt, x, y)
<1>1. PICK r : Forest(n, dad, c, r)
  BY DEF Classes
<1>2. pt \in Tables(n) /\ IsFiniteSet(Roots(n, pt)) /\ pt.n_sets = Cardinality(Roots(n, pt))
  BY DEF Classes
<1>3. Representative(dad, x) = i /\ Representative(dad, y) = j
  BY <1>1, RepresentativeIs
<1>4. /\ n \in Nat /\ dad \in [1 .. n -> Int] /\ c \in [1 .. n -> 1 .. n] /\ r \in [1 .. n -> Nat]
      /\ i \in 1 .. n /\ j \in 1 .. n /\ c[i] = i /\ c[j] = j /\ dad[i] < 0 /\ dad[j] < 0
      /\ dad[i] \in Int /\ dad[j] \in Int /\ r[i] \in Nat /\ r[j] \in Nat
  <2>1. n \in Nat /\ dad \in [1 .. n -> Int] /\ c \in [1 .. n -> 1 .. n] /\ r \in [1 .. n -> Nat]
    BY <1>1, VarsAre DEF Forest
  <2>2. i \in 1 .. n /\ j \in 1 .. n
    BY <2>1
  <2>3. ASSUME NEW v \in 1 .. n PROVE c[c[v]] = c[v] /\ dad[c[v]] < 0
    <3>1. c[v] \in 1 .. n
      BY <2>1
    <3>2. QED
      BY <1>1, <3>1 DEF Forest
  <2> HIDE DEF dad
  <2>4. QED
    BY <2>1, <2>2, <2>3
<1>5. \A v \in 1 .. n : /\ dad[v] # 0 /\ dad[v] \in Int /\ r[v] \in Nat /\ c[v] \in 1 .. n
                        /\ dad[v] > 0 => dad[v] \in 1 .. n /\ r[v] < r[dad[v]] /\ c[dad[v]] = c[v]
                        /\ dad[v] < 0 => c[v] = v
                        /\ dad[c[v]] < 0 /\ c[c[v]] = c[v] /\ r[v] <= r[c[v]]
  <2>1. ASSUME NEW v \in 1 .. n PROVE r[v] <= r[c[v]]
    BY <1>1, RepresentativeIs
  <2>2. QED
    BY <1>1, <2>1 DEF Forest
<1>6. i \in both /\ j \in both /\ \A v \in both : v \in 1 .. n /\ c[v] \in {i, j}
  BY <1>1, ChainIs
<1> HIDE DEF dad, i, j
<1>7. CASE i = j
  <2>1. pt2 = [pt EXCEPT !.var1 = i]
    BY <1>3, <1>7 DEF MergeVars, dad
  <2>2. pt2 \in Tables(n) /\ pt2.dad = pt.dad /\ pt2.occurs = pt.occurs /\ pt2.n_sets = pt.n_sets /\ pt2.var1 = i
    <3>1. i \in Int
      BY <1>4
    <3> HIDE DEF pt2
    <3>2. QED
      BY <1>2, <2>1, <3>1 DEF Tables
  <2>3. Classes(n, pt2, c)
    BY <1>1, <1>2, <2>2 DEF Classes, Roots, dad
  <2>4. Merged(n, c, c, x, y)
    BY <1>7 DEF Merged, i, j
  <2>5. c[x] = i
    BY DEF i
  <2>6. i \in 1 .. n
    BY <1>4
  <2> HIDE DEF pt2
  <2>7. MergedTable(n, pt, pt2, c, x, y)
    BY <2>2, <2>3, <2>4, <2>5, <2>6 DEF MergedTable
  <2>8. QED
    BY <2>7 DEF pt2
<1>8. CASE i # j
  <2>1. pt2 = [pt EXCEPT !.n_sets = @ - 1, !.var1 = top, !.dad = dad2]
    <3>1. DOMAIN pt.dad = 1 .. n
      BY <1>4 DEF dad
    <3>2. QED
      BY <1>3, <1>8, <3>1 DEF MergeVars, dad
  <2> HIDE DEF both
  <2>2. top \in {i, j} /\ other \in {i, j} /\ top # other /\ top \in 1 .. n /\ other \in 1 .. n
    BY <1>4, <1>8
  <2> HIDE DEF top, other
  <2>3. \A v \in 1 .. n : /\ v = top => dad2[v] = dad[i] + dad[j]
                          /\ v # top /\ v \in both => dad2[v] = top
                          /\ v # top /\ v \notin both => dad2[v] = dad[v]
    OBVIOUS
  <2>4. \A v \in 1 .. n : c2[v] = IF c[v] \in {i, j} THEN top ELSE c[v]
    OBVIOUS
  <2>5. dad2 \in [1 .. n -> Int]
    BY <1>4, <1>5, <2>2
  <2>6. c2 \in [1 .. n -> 1 .. n]
    BY <1>5, <2>2
  <2>7. c2[x] = top /\ c2[y] = top
    BY <1>4 DEF i, j
  <2>8. dad[i] + dad[j] < 0
    BY <1>4
  <2> HIDE DEF dad2, c2
  <2>9. pt2 \in Tables(n) /\ pt2.dad = dad2 /\ pt2.occurs = pt.occurs /\ pt2.n_sets = pt.n_sets - 1 /\ pt2.var1 = top
    <3>1. top \in Int
      BY <2>2
    <3> HIDE DEF pt2
    <3>2. /\ pt = [dad |-> pt.dad, occurs |-> pt.occurs, n_sets |-> pt.n_sets, var1 |-> pt.var1]
          /\ pt.occurs \in SUBSET Vars /\ pt.n_sets - 1 \in Int
      BY <1>2 DEF Tables
    <3>3. pt2 = [dad |-> dad2, occurs |-> pt.occurs, n_sets |-> pt.n_sets - 1, var1 |-> top]
      BY <2>1, <3>2
    <3>4. QED
      BY <2>5, <3>1, <3>2, <3>3 DEF Tables
  <2> DEFINE r2 == [v \in 1 .. n |-> IF v = top THEN r[i] + r[j] + 1 ELSE r[v]]
  <2>10. Forest(n, dad2, c2, r2)
    <3>1. r2 \in [1 .. n -> Nat]
      <4>1. r[i] \in Nat /\ r[j] \in Nat
        BY <1>4
      <4>2. r[i] + r[j] + 1 \in Nat
        BY <4>1
      <4>3. \A v \in 1 .. n : r[v] \in Nat
        BY <1>5
      <4>4. QED
        BY <4>2, <4>3
    <3>2. \A v \in 1 .. n : r2[v] = IF v = top THEN r[i] + r[j] + 1 ELSE r[v]
      OBVIOUS
    <3>3. r[i] \in Nat /\ r[j] \in Nat /\ r2[top] = r[i] + r[j] + 1 /\ r[top] < r2[top]
      <4>1. r[i] \in Nat /\ r[j] \in Nat /\ r[top] \in {r[i], r[j]}
        BY <1>4, <2>2
      <4>2. r2[top] = r[i] + r[j] + 1
        BY <2>2, <3>2
      <4> HIDE DEF r2
      <4>3. QED
        BY <4>1, <4>2
    <3> HIDE DEF r2
    <3>4. c2[top] = top /\ dad2[top] < 0
      BY <1>4, <2>2, <2>3, <2>4, <2>8
    <3>5. ASSUME NEW v \in 1 .. n
          PROVE  /\ dad2[v] # 0
                 /\ dad2[v] > 0 => dad2[v] \in 1 .. n /\ r2[v] < r2[dad2[v]] /\ c2[dad2[v]] = c2[v]
                 /\ dad2[v] < 0 => c2[v] = v
                 /\ dad2[c2[v]] < 0
      <4>1. dad2[c2[v]] < 0
        <5>1. CASE c[v] \in {i, j}
          BY <2>4, <3>4, <5>1
        <5>2. CASE c[v] \notin {i, j}
          <6>1. c2[v] = c[v] /\ c[v] # top /\ c[v] \in 1 .. n /\ c[c[v]] = c[v] /\ dad[c[v]] < 0
            BY <1>5, <2>2, <2>4, <5>2
          <6>2. c[v] \notin both
            BY <1>6, <5>2, <6>1
          <6>3. QED
            BY <2>3, <6>1, <6>2
        <5>3. QED
          BY <5>1, <5>2
      <4>2. CASE v = top
        BY <2>3, <2>5, <2>8, <3>4, <4>1, <4>2
      <4>3. CASE v # top /\ v \in both
        <5>1. dad2[v] = top /\ c[v] \in {i, j} /\ c2[v] = top
          BY <1>6, <2>3, <2>4, <4>3
        <5>2. r2[v] = r[v] /\ r[v] <= r[c[v]] /\ r[v] \in Nat
          BY <1>5, <3>2, <4>3
        <5>3. r2[v] < r2[top]
          BY <3>3, <5>1, <5>2
        <5>4. QED
          BY <2>2, <3>4, <4>1, <5>1, <5>3
      <4>4. CASE v # top /\ v \notin both
        <5>1. dad2[v] = dad[v] /\ r2[v] = r[v]
          BY <2>3, <3>2, <4>4
        <5>2. ASSUME dad[v] > 0
              PROVE  dad[v] \in 1 .. n /\ r2[v] < r2[dad[v]] /\ c2[dad[v]] = c2[v]
          <6>1. dad[v] \in 1 .. n /\ r[v] < r[dad[v]] /\ c[dad[v]] = c[v] /\ r[v] \in Nat /\ r[dad[v]] \in Nat
            BY <1>5, <5>2
          <6>2. r[dad[v]] <= r2[dad[v]]
            BY <3>2, <3>3, <6>1
          <6>3. c2[dad[v]] = c2[v]
            BY <2>4, <6>1
          <6>4. r2[dad[v]] \in Nat
            BY <3>1, <6>1
          <6>5. QED
            BY <5>1, <6>1, <6>2, <6>3, <6>4
        <5>3. ASSUME dad[v] < 0 PROVE c2[v] = v
          <6>1. c[v] = v /\ v # i /\ v # j
            BY <1>5, <1>6, <4>4, <5>3
          <6>2. QED
            BY <2>4, <6>1
        <5>4. QED
          BY <1>5, <4>1, <5>1, <5>2, <5>3
      <4>5. QED
        BY <4>2, <4>3, <4>4
    <3>6. QED
      BY <1>1, <2>5, <2>6, <3>1, <3>5 DEF Forest
  <2>11. Roots(n, pt2) = Roots(n, pt) \ {other}
    <3>1. ASSUME NEW v \in 1 .. n PROVE dad2[v] < 0 <=> dad[v] < 0 /\ v # other
      <4>1. CASE v = top
        BY <1>4, <2>2, <2>3, <2>8, <4>1
      <4>2. CASE v # top /\ v \in both
        <5>1. dad2[v] = top /\ ~(top < 0)
          BY <2>2, <2>3, <4>2
        <5>2. dad[v] < 0 => v \in {i, j}
          BY <1>5, <1>6, <4>2
        <5>3. QED
          BY <2>2, <4>2, <5>1, <5>2
      <4>3. CASE v # top /\ v \notin both
        BY <1>6, <2>2, <2>3, <4>3
      <4>4. QED
        BY <4>1, <4>2, <4>3
    <3>2. QED
      BY <2>9, <3>1 DEF Roots, dad
  <2>12. Classes(n, pt2, c2)
    <3>1. other \in Roots(n, pt)
      BY <1>4, <2>2 DEF Roots, dad
    <3>2. IsFiniteSet(Roots(n, pt2)) /\ Cardinality(Roots(n, pt2)) = Cardinality(Roots(n, pt)) - 1
      BY <1>2, <2>11, <3>1, FS_RemoveElement
    <3>3. QED
      BY <1>2, <2>9, <2>10, <3>2 DEF Classes
  <2>13. Merged(n, c, c2, x, y)
    <3>1. ASSUME NEW A, Keeps(n, c, A), x \in A <=> y \in A PROVE Keeps(n, c2, A)
      <4>1. (x \in A <=> i \in A) /\ (y \in A <=> j \in A) /\ (i \in A <=> top \in A) /\ (j \in A <=> top \in A)
        BY <2>2, <3>1 DEF Keeps, i, j
      <4>2. ASSUME NEW v \in 1 .. n PROVE v \in A <=> c2[v] \in A
        <5>1. v \in A <=> c[v] \in A
          BY <3>1 DEF Keeps
        <5>2. QED
          BY <2>4, <4>1, <5>1
      <4>3. QED
        BY <4>2 DEF Keeps
    <3>2. \A v, w \in 1 .. n : c[v] = c[w] => c2[v] = c2[w]
      BY <2>4
    <3>3. QED
      BY <2>7, <3>1, <3>2 DEF Merged
  <2> HIDE DEF pt2
  <2>14. MergedTable(n, pt, pt2, c, x, y)
    BY <2>2, <2>7, <2>9, <2>12, <2>13 DEF MergedTable
  <2>15. QED
    BY <2>14 DEF pt2
<1>9. QED
  BY <1>7, <1>8

-----------------------------------------------------------------------------
(* The elements of a finite set in order.                                   *)

Listed(f, S) ==
  /\ Cardinality(S) \in Nat /\ f \in [1 .. Cardinality(S) -> S] /\ Len(f) = Cardinality(S)
  /\ \A x \in S : \E n \in 1 .. Cardinality(S) : f[n] = x

LEMMA RanksList ==
  ASSUME NEW S, IsFiniteSet(S), NEW R, TotalOn(S, R), NEW f,
         f = [n \in 1 .. Cardinality(S) |-> CHOOSE x \in S : Cardinality(Lower(S, R, x)) = n - 1]
  PROVE  Listed(f, S)
<1>1. Enumerated(f, S, R)
  BY RanksEnumerate
<1>2. QED
  BY <1>1 DEF Enumerated, Listed

\* Upwards,
LEMMA UpListed ==
  ASSUME NEW S, IsFiniteSet(S), S \subseteq Nat
  PROVE  Listed([n \in 1 .. Cardinality(S) |-> CHOOSE x \in S : Cardinality({y \in S : y < x}) = n - 1], S)
<1> DEFINE R == {r \in S \X S : r[1] < r[2]}
           f == [n \in 1 .. Cardinality(S) |-> CHOOSE x \in S : Cardinality({y \in S : y < x}) = n - 1]
<1>1. \A x, y \in S : <<x, y>> \in R <=> x < y
  OBVIOUS
<1> HIDE DEF R
<1>2. \A x \in S : {y \in S : y < x} = Lower(S, R, x)
  BY <1>1 DEF Lower
<1>3. TotalOn(S, R)
  <2>1. \A x \in S : x \in Nat
    OBVIOUS
  <2>2. QED
    BY <1>1, <2>1 DEF TotalOn
<1>4. f = [n \in 1 .. Cardinality(S) |-> CHOOSE x \in S : Cardinality(Lower(S, R, x)) = n - 1]
  <2> DEFINE at(n) == CHOOSE x \in S : Cardinality({y \in S : y < x}) = n - 1
             by(n) == CHOOSE x \in S : Cardinality(Lower(S, R, x)) = n - 1
  <2>1. \A n : at(n) = by(n)
    BY <1>2
  <2>2. f = [n \in 1 .. Cardinality(S) |-> at(n)]
    OBVIOUS
  <2> HIDE DEF at, by, f
  <2>3. f = [n \in 1 .. Cardinality(S) |-> by(n)]
    BY <2>1, <2>2
  <2>4. QED
    BY <2>3 DEF by
<1> HIDE DEF f
<1>5. Listed(f, S)
  BY <1>3, <1>4, RanksList
<1>6. QED
  BY <1>5 DEF f

\* downwards,
LEMMA DownListed ==
  ASSUME NEW S, IsFiniteSet(S), S \subseteq Nat
  PROVE  Listed([n \in 1 .. Cardinality(S) |-> CHOOSE x \in S : Cardinality({y \in S : y > x}) = n - 1], S)
<1> DEFINE R == {r \in S \X S : r[1] > r[2]}
           f == [n \in 1 .. Cardinality(S) |-> CHOOSE x \in S : Cardinality({y \in S : y > x}) = n - 1]
<1>1. \A x, y \in S : <<x, y>> \in R <=> x > y
  OBVIOUS
<1> HIDE DEF R
<1>2. \A x \in S : {y \in S : y > x} = Lower(S, R, x)
  BY <1>1 DEF Lower
<1>3. TotalOn(S, R)
  <2>1. \A x \in S : x \in Nat
    OBVIOUS
  <2>2. QED
    BY <1>1, <2>1 DEF TotalOn
<1>4. f = [n \in 1 .. Cardinality(S) |-> CHOOSE x \in S : Cardinality(Lower(S, R, x)) = n - 1]
  <2> DEFINE at(n) == CHOOSE x \in S : Cardinality({y \in S : y > x}) = n - 1
             by(n) == CHOOSE x \in S : Cardinality(Lower(S, R, x)) = n - 1
  <2>1. \A n : at(n) = by(n)
    BY <1>2
  <2>2. f = [n \in 1 .. Cardinality(S) |-> at(n)]
    OBVIOUS
  <2> HIDE DEF at, by, f
  <2>3. f = [n \in 1 .. Cardinality(S) |-> by(n)]
    BY <2>1, <2>2
  <2>4. QED
    BY <2>3 DEF by
<1> HIDE DEF f
<1>5. Listed(f, S)
  BY <1>3, <1>4, RanksList
<1>6. QED
  BY <1>5 DEF f

\* and monomials by the first variable in which they differ.
LEMMA LexListed ==
  ASSUME NEW S, IsFiniteSet(S), S \subseteq Exponents
  PROVE  Listed(InOrder(S, LexLess), S)
<1> DEFINE R == {r \in S \X S : LexLess(r[1], r[2])}
           f == InOrder(S, LexLess)
<1>1. \A x, y \in S : <<x, y>> \in R <=> LexLess(x, y)
  OBVIOUS
<1> HIDE DEF R
<1>2. \A x \in S : {y \in S : LexLess(y, x)} = Lower(S, R, x)
  BY <1>1 DEF Lower
<1>3. TotalOn(S, R)
  <2>1. \A x \in S : x \in [Vars -> Nat]
    BY DEF Exponents
  <2>2. \A x, y \in S : ~LexLess(x, x) /\ (x = y \/ LexLess(x, y) \/ LexLess(y, x))
    BY <2>1, LexTotal
  <2>3. \A x, y, z \in S : LexLess(x, y) /\ LexLess(y, z) => LexLess(x, z)
    BY <2>1, LexTotal
  <2>4. QED
    BY <1>1, <2>2, <2>3 DEF TotalOn
<1>4. f = [n \in 1 .. Cardinality(S) |-> CHOOSE x \in S : Cardinality(Lower(S, R, x)) = n - 1]
  <2> DEFINE at(n) == CHOOSE x \in S : Cardinality({y \in S : LexLess(y, x)}) = n - 1
             by(n) == CHOOSE x \in S : Cardinality(Lower(S, R, x)) = n - 1
  <2>1. \A n : at(n) = by(n)
    BY <1>2
  <2>2. f = [n \in 1 .. Cardinality(S) |-> at(n)]
    BY DEF InOrder
  <2> HIDE DEF at, by, f
  <2>3. f = [n \in 1 .. Cardinality(S) |-> by(n)]
    BY <2>1, <2>2
  <2>4. QED
    BY <2>3 DEF by
<1> HIDE DEF f
<1>5. Listed(f, S)
  BY <1>3, <1>4, RanksList
<1>6. QED
  BY <1>5 DEF f

-----------------------------------------------------------------------------
(* The sets of a partition table.                                           *)

\* The variables of S come into one set, and nothing else does.
Joined(n, c, c2, S) ==
  /\ \A v, w \in 1 .. n : c[v] = c[w] => c2[v] = c2[w]
  /\ \A v, w \in S : c2[v] = c2[w]
  /\ \A A : Keeps(n, c, A) /\ (S \subseteq A \/ S \cap A = {}) => Keeps(n, c2, A)

\* The first k variables of S, in the order of vs, have been merged.
SoFar(n, pt, c, S, vs, k, t) ==
  \E c2 : /\ Classes(n, t, c2) /\ t.occurs = pt.occurs /\ t.var1 \in 1 .. n
          /\ \A i \in 1 .. k : c2[vs[i]] = c2[t.var1]
          /\ \A v, w \in 1 .. n : c[v] = c[w] => c2[v] = c2[w]
          /\ \A A : Keeps(n, c, A) /\ (S \subseteq A \/ S \cap A = {}) => Keeps(n, c2, A)

LEMMA SoFarNext ==
  ASSUME NEW n \in Nat, NEW pt, NEW c, NEW S, S \subseteq 1 .. n, NEW N \in Nat, NEW vs \in [1 .. N -> S],
         NEW k \in 1 .. N, k # 1, NEW t, SoFar(n, pt, c, S, vs, k - 1, t)
  PROVE  SoFar(n, pt, c, S, vs, k, MergeVars(t, t.var1, vs[k]))
<1> DEFINE from == t.var1
           other == vs[k]
           t2 == MergeVars(t, from, other)
<1>1. PICK c1 : /\ Classes(n, t, c1) /\ t.occurs = pt.occurs /\ t.var1 \in 1 .. n
                /\ \A i \in 1 .. k - 1 : c1[vs[i]] = c1[t.var1]
                /\ \A v, w \in 1 .. n : c[v] = c[w] => c1[v] = c1[w]
                /\ \A A : Keeps(n, c, A) /\ (S \subseteq A \/ S \cap A = {}) => Keeps(n, c1, A)
  BY DEF SoFar
<1>2. from \in 1 .. n /\ other \in 1 .. n /\ other \in S /\ vs[1] \in S
  <2>1. 1 \in 1 .. N /\ \A i \in 1 .. N : vs[i] \in S
    OBVIOUS
  <2>2. other \in S /\ vs[1] \in S
    BY <2>1
  <2>3. QED
    BY <1>1, <2>2
<1> HIDE DEF from, other
<1>3. PICK c2 : /\ Classes(n, t2, c2) /\ Merged(n, c1, c2, from, other) /\ t2.var1 = c2[from] /\ c2[from] \in 1 .. n
                /\ t2.occurs = t.occurs
  <2>1. Classes(n, t, c1) /\ from \in 1 .. n /\ other \in 1 .. n
    BY <1>1, <1>2
  <2> HIDE DEF t2
  <2>2. MergedTable(n, t, t2, c1, from, other)
    BY <2>1, MergeIs DEF t2
  <2>3. QED
    BY <2>2 DEF MergedTable
<1>4. c2[c2[from]] = c2[from]
  BY <1>2, <1>3 DEF Classes, Forest
<1> HIDE DEF t2
<1>5. \A i \in 1 .. k : c2[vs[i]] = c2[t2.var1]
  <2>1. SUFFICES ASSUME NEW i \in 1 .. k PROVE c2[vs[i]] = c2[from]
    BY <1>3, <1>4
  <2>2. CASE i = k
    BY <1>3, <2>2 DEF Merged, other
  <2>3. CASE i # k
    <3>1. i \in 1 .. k - 1 /\ vs[i] \in 1 .. n
      <4>1. i \in 1 .. N /\ i \in 1 .. k - 1
        BY <2>3
      <4>2. vs[i] \in S
        BY <4>1
      <4>3. QED
        BY <4>1, <4>2
    <3>2. c1[vs[i]] = c1[from]
      BY <1>1, <3>1 DEF from
    <3>3. QED
      BY <1>2, <1>3, <3>1, <3>2 DEF Merged
  <2>4. QED
    BY <2>2, <2>3
<1>6. ASSUME NEW A, Keeps(n, c, A), S \subseteq A \/ S \cap A = {} PROVE Keeps(n, c2, A)
  <2>1. Keeps(n, c1, A)
    BY <1>1, <1>6
  <2>2. c1[vs[1]] = c1[from]
    <3>1. 1 \in 1 .. k - 1
      OBVIOUS
    <3>2. QED
      BY <1>1, <3>1 DEF from
  <2>3. from \in A <=> vs[1] \in A
    BY <1>2, <2>1, <2>2 DEF Keeps
  <2>4. from \in A <=> other \in A
    BY <1>2, <1>6, <2>3
  <2>5. QED
    BY <1>3, <2>1, <2>4 DEF Merged
<1>7. \A v, w \in 1 .. n : c[v] = c[w] => c2[v] = c2[w]
  BY <1>1, <1>3 DEF Merged
<1>8. SoFar(n, pt, c, S, vs, k, t2)
  BY <1>1, <1>3, <1>5, <1>6, <1>7 DEF SoFar
<1>9. QED
  BY <1>8 DEF t2, from, other

LEMMA MergeMonomialIs ==
  ASSUME NEW n, NEW pt, NEW c, Classes(n, pt, c),
         NEW m \in Exponents, Support(m) # {}, Support(m) \subseteq 1 .. n
  PROVE  \E c2 : /\ Classes(n, MergeMonomial(pt, m), c2) /\ Joined(n, c, c2, Support(m))
                 /\ MergeMonomial(pt, m).occurs = pt.occurs \cup Support(m)
<1> DEFINE S == Support(m)
           N == Cardinality(S)
           greater(v, w) == v > w
           vs == InOrder(S, greater)
           first == [pt EXCEPT !.var1 = vs[1]]
           D == {t \in Tables(n) : \E k \in 1 .. N : SoFar(n, pt, c, S, vs, k, t)}
           E(k) == {t \in Tables(n) : SoFar(n, pt, c, S, vs, k, t)}
           step(k, t) == MergeVars(t, t.var1, vs[k])
           P(g) == g = [k \in 1 .. Len(vs) |-> IF k = 1 THEN first ELSE step(k, g[k - 1])]
           W == CHOOSE g : P(g)
<1>1. n \in Nat /\ pt \in Tables(n)
  BY VarsAre DEF Classes, Forest
<1>2. IsFiniteSet(S) /\ S \subseteq Nat /\ S \subseteq 1 .. n /\ S \subseteq Vars /\ S # {}
  BY SupportIs, VarsAre
<1>3. Listed(vs, S)
  <2>1. vs = [k \in 1 .. Cardinality(S) |-> CHOOSE x \in S : Cardinality({y \in S : y > x}) = k - 1]
    BY DEF InOrder
  <2> HIDE DEF vs, S
  <2>2. Listed([k \in 1 .. Cardinality(S) |-> CHOOSE x \in S : Cardinality({y \in S : y > x}) = k - 1], S)
    BY <1>2, DownListed
  <2>3. QED
    BY <2>1, <2>2
<1>4. MergeMonomial(pt, m) = [W[Len(vs)] EXCEPT !.occurs = @ \cup S]
  BY DEF MergeMonomial
<1> HIDE DEF vs, S
<1>5. N \in Nat /\ N # 0 /\ Len(vs) = N /\ vs \in [1 .. N -> S] /\ \A x \in S : \E k \in 1 .. N : vs[k] = x
  BY <1>2, <1>3, FS_EmptySet DEF Listed
<1> HIDE DEF N
<1>6. vs[1] \in S /\ vs[1] \in 1 .. n /\ vs[1] \in Int
  <2>1. 1 \in 1 .. N
    BY <1>5
  <2>2. vs[1] \in S
    BY <1>5, <2>1
  <2>3. vs[1] \in 1 .. n /\ vs[1] \in Nat
    BY <1>2, <2>2
  <2>4. QED
    BY <2>2, <2>3
<1>7. first \in Tables(n) /\ first.dad = pt.dad /\ first.occurs = pt.occurs /\ first.n_sets = pt.n_sets /\ first.var1 = vs[1]
  BY <1>1, <1>6 DEF Tables
<1>8. SoFar(n, pt, c, S, vs, 1, first)
  <2>1. Classes(n, first, c)
    BY <1>7 DEF Classes, Roots
  <2>2. \A i \in 1 .. 1 : c[vs[i]] = c[first.var1]
    BY <1>7
  <2> HIDE DEF first
  <2>3. QED
    BY <1>6, <1>7, <2>1, <2>2 DEF SoFar
<1> HIDE DEF first
<1>9. ASSUME NEW k \in 1 .. N, k # 1, NEW t, SoFar(n, pt, c, S, vs, k - 1, t)
      PROVE  step(k, t) \in Tables(n) /\ SoFar(n, pt, c, S, vs, k, step(k, t))
  <2>1. SoFar(n, pt, c, S, vs, k, step(k, t))
    BY <1>1, <1>2, <1>5, <1>9, SoFarNext
  <2>2. step(k, t) \in Tables(n)
    BY <2>1 DEF SoFar, Classes
  <2>3. QED
    BY <2>1, <2>2
<1> HIDE DEF step
<1>10. \E g : P(g)
  <2> DEFINE X == UNION {E(k) : k \in 1 .. N}
             a == <<1, first>>
             Y == {z \in (1 .. N) \X Tables(n) : SoFar(n, pt, c, S, vs, z[1], z[2])}
             up(z) == IF z[1] \in 1 .. N - 1 THEN <<z[1] + 1, step(z[1] + 1, z[2])>> ELSE z
             G == [k \in 1 .. N - 1 |-> [z \in Y |-> up(z)]]
  <2>1. a \in Y
    BY <1>5, <1>7, <1>8
  <2>2. ASSUME NEW z \in Y PROVE up(z) \in Y
    <3>1. z = <<z[1], z[2]>> /\ z[1] \in 1 .. N /\ z[2] \in Tables(n) /\ SoFar(n, pt, c, S, vs, z[1], z[2])
      OBVIOUS
    <3>2. CASE z[1] \in 1 .. N - 1
      <4> DEFINE k == z[1] + 1
      <4>1. k \in 1 .. N /\ k # 1 /\ k - 1 = z[1]
        BY <1>5, <3>2
      <4> HIDE DEF k
      <4>2. step(k, z[2]) \in Tables(n) /\ SoFar(n, pt, c, S, vs, k, step(k, z[2]))
        BY <1>9, <3>1, <4>1
      <4>3. up(z) = <<k, step(k, z[2])>>
        BY <3>2 DEF k
      <4>4. QED
        BY <4>1, <4>2, <4>3
    <3>3. CASE z[1] \notin 1 .. N - 1
      BY <3>3
    <3>4. QED
      BY <3>2, <3>3
  <2>3. N - 1 \in Nat
    BY <1>5
  <2>4. G \in [1 .. N - 1 -> [Y -> Y]] /\ \A k \in 1 .. N - 1 : \A z \in Y : G[k][z] = up(z)
    BY <2>2
  <2> HIDE DEF G, Y
  <2>5. PICK f : Iteration(f, Y, a, N - 1, G)
    BY <2>1, <2>3, <2>4, Iterates
  <2>6. f \in [0 .. N - 1 -> Y] /\ f[0] = a /\ \A k \in 1 .. N - 1 : f[k] = up(f[k - 1])
    <3>1. ASSUME NEW k \in 1 .. N - 1 PROVE f[k] = up(f[k - 1])
      <4>1. k - 1 \in 0 .. N - 1
        BY <2>3
      <4>2. f[k - 1] \in Y /\ f[k] = G[k][f[k - 1]]
        BY <2>5, <4>1 DEF Iteration
      <4>3. QED
        BY <2>4, <4>2
    <3>2. QED
      BY <2>5, <3>1 DEF Iteration
  <2> DEFINE T == {k \in 0 .. N - 1 : f[k][1] = k + 1}
  <2>7. \A k \in 0 .. N - 1 : k \in T
    <3>1. 0 \in T
      BY <2>3, <2>6
    <3>2. ASSUME NEW k \in 1 .. N - 1, k - 1 \in T PROVE k \in T
      <4>1. f[k - 1][1] = k /\ f[k] = up(f[k - 1])
        BY <2>6, <3>2
      <4>2. QED
        BY <4>1
    <3> HIDE DEF T
    <3>3. QED
      BY <2>3, <3>1, <3>2, Inducts
  <2> DEFINE g == [k \in 1 .. N |-> f[k - 1][2]]
  <2>8. ASSUME NEW k \in 1 .. N, k # 1 PROVE g[k] = step(k, g[k - 1])
    <3>1. k - 1 \in 1 .. N - 1 /\ k - 2 \in 0 .. N - 1 /\ k - 1 \in 1 .. N
      BY <1>5, <2>8
    <3>2. f[k - 1] = up(f[k - 1 - 1])
      BY <2>6, <3>1
    <3>3. k - 1 - 1 = k - 2 /\ k - 2 + 1 = k - 1
      OBVIOUS
    <3>4. f[k - 2][1] = k - 1
      BY <2>7, <3>1, <3>3
    <3>5. f[k - 1] = <<k, step(k, f[k - 2][2])>>
      <4>1. up(f[k - 2]) = <<k - 1 + 1, step(k - 1 + 1, f[k - 2][2])>>
        BY <3>1, <3>4
      <4>2. k - 1 + 1 = k
        OBVIOUS
      <4>3. QED
        BY <3>2, <3>3, <4>1, <4>2
    <3>6. g[k] = step(k, f[k - 2][2])
      BY <3>5
    <3>7. g[k - 1] = f[k - 2][2]
      BY <3>1, <3>3
    <3>8. QED
      BY <3>6, <3>7
  <2>9. g[1] = first
    <3>1. g[1] = f[0][2]
      BY <1>5
    <3>2. QED
      BY <2>6, <3>1
  <2>10. g = [k \in 1 .. N |-> g[k]]
    OBVIOUS
  <2> HIDE DEF g
  <2>11. P(g)
    BY <1>5, <2>8, <2>9, <2>10
  <2>12. QED
    BY <2>11
<1>11. P(W)
  <2> HIDE DEF P
  <2>1. QED
    BY <1>10
<1> HIDE DEF W
<1>12. W[1] = first /\ \A k \in 1 .. N : k # 1 => W[k] = step(k, W[k - 1])
  <2>1. \A k \in 1 .. N : W[k] = IF k = 1 THEN first ELSE step(k, W[k - 1])
    BY <1>5, <1>11
  <2>2. QED
    BY <1>5, <2>1
<1> DEFINE T == {k \in 0 .. N : k = 0 \/ SoFar(n, pt, c, S, vs, k, W[k])}
<1>13. N \in T
  <2>1. 0 \in T
    BY <1>5
  <2>2. ASSUME NEW k \in 1 .. N, k - 1 \in T PROVE k \in T
    <3>1. CASE k = 1
      BY <1>5, <1>8, <1>12, <3>1
    <3>2. CASE k # 1
      <4>1. SoFar(n, pt, c, S, vs, k - 1, W[k - 1])
        BY <2>2, <3>2
      <4>2. QED
        BY <1>9, <1>12, <3>2, <4>1
    <3>3. QED
      BY <3>1, <3>2
  <2> HIDE DEF T
  <2>3. \A k \in 0 .. N : k \in T
    BY <1>5, <2>1, <2>2, Inducts
  <2>4. QED
    BY <1>5, <2>3
<1>14. SoFar(n, pt, c, S, vs, N, W[N])
  BY <1>5, <1>13
<1>15. PICK c2 : /\ Classes(n, W[N], c2) /\ W[N].occurs = pt.occurs
                 /\ \A i \in 1 .. N : c2[vs[i]] = c2[W[N].var1]
                 /\ \A v, w \in 1 .. n : c[v] = c[w] => c2[v] = c2[w]
                 /\ \A A : Keeps(n, c, A) /\ (S \subseteq A \/ S \cap A = {}) => Keeps(n, c2, A)
  BY <1>14 DEF SoFar
<1> DEFINE last == W[N]
           done == [last EXCEPT !.occurs = @ \cup S]
<1>16. MergeMonomial(pt, m) = done
  BY <1>4, <1>5
<1>17. /\ done \in Tables(n) /\ done.dad = last.dad /\ done.occurs = last.occurs \cup S
       /\ done.n_sets = last.n_sets
  <2>1. last \in Tables(n)
    BY <1>15 DEF Classes
  <2> HIDE DEF last
  <2>2. QED
    BY <1>2, <2>1 DEF Tables
<1>18. Classes(n, done, c2)
  <2>1. Classes(n, last, c2)
    BY <1>15
  <2> HIDE DEF last, done
  <2>2. QED
    BY <1>17, <2>1 DEF Classes, Roots
<1>19. Joined(n, c, c2, S)
  <2>1. \A v \in S : c2[v] = c2[W[N].var1]
    BY <1>5, <1>15
  <2>2. QED
    BY <1>15, <2>1 DEF Joined
<1>20. done.occurs = pt.occurs \cup S
  BY <1>15, <1>17
<1> HIDE DEF done
<1>21. QED
  BY <1>16, <1>18, <1>19, <1>20 DEF S

LEMMA SetsAre ==
  ASSUME NEW n, NEW pt, NEW c, Classes(n, pt, c)
  PROVE  /\ n \in Nat /\ pt.n_sets \in Nat /\ pt.n_sets <= n
         /\ \A v \in 1 .. n : c[v] \in 1 .. n /\ c[c[v]] = c[v] /\ pt.dad[c[v]] < 0
                              /\ (pt.dad[v] < 0 => c[v] = v) /\ Representative(pt.dad, v) = c[v]
<1>1. PICK r : Forest(n, pt.dad, c, r)
  BY DEF Classes
<1>2. n \in Nat /\ c \in [1 .. n -> 1 .. n]
  BY <1>1, VarsAre DEF Forest
<1>3. pt.n_sets \in Nat /\ pt.n_sets <= n
  <2>1. Roots(n, pt) \in SUBSET (1 .. n)
    BY DEF Roots
  <2>2. IsFiniteSet(1 .. n) /\ Cardinality(1 .. n) = n
    <3>1. 1 \in Int /\ n \in Int
      BY <1>2
    <3>2. IsFiniteSet(1 .. n) /\ Cardinality(1 .. n) = IF 1 > n THEN 0 ELSE n - 1 + 1
      BY <3>1, FS_Interval
    <3>3. QED
      BY <1>2, <3>2
  <2>3. Cardinality(Roots(n, pt)) <= n /\ IsFiniteSet(Roots(n, pt))
    BY <2>1, <2>2, FS_Subset
  <2>4. Cardinality(Roots(n, pt)) \in Nat
    BY <2>3, FS_CardinalityType
  <2>5. QED
    BY <2>3, <2>4 DEF Classes
<1>4. ASSUME NEW v \in 1 .. n
      PROVE  /\ c[v] \in 1 .. n /\ c[c[v]] = c[v] /\ pt.dad[c[v]] < 0
             /\ (pt.dad[v] < 0 => c[v] = v) /\ Representative(pt.dad, v) = c[v]
  <2>1. c[v] \in 1 .. n
    BY <1>2
  <2>2. Representative(pt.dad, v) = c[v]
    BY <1>1, RepresentativeIs
  <2>3. pt.dad[c[v]] < 0 /\ (pt.dad[v] < 0 => c[v] = v)
    BY <1>1 DEF Forest
  <2>4. c[c[v]] = c[v]
    BY <1>1, <2>1, <2>3 DEF Forest
  <2>5. QED
    BY <2>1, <2>2, <2>3, <2>4
<1>5. QED
  BY <1>2, <1>3, <1>4

\* As many variables as partition_table has.
Top(I) == IF I = {} THEN 0 ELSE TopVar(I)

LEMMA TopIs ==
  ASSUME NEW I, Ideal(I)
  PROVE  /\ Top(I) \in 0 .. NVars
         /\ \A m \in I : m \in Exponents /\ Support(m) \subseteq 1 .. Top(I) /\ (Top(I) > 1 => Support(m) # {})
<1>1. I \in SUBSET Exponents /\ \A m, n \in I : Divides(m, n) => m = n
  BY IdealIs
<1>2. TopVar(I) \in Vars /\ \A m \in I : \A v \in Support(m) : v <= TopVar(I)
  BY <1>1, TopVarIs
<1>3. Top(I) \in 0 .. NVars
  BY <1>2, VarsAre DEF Top
<1>4. ASSUME NEW m \in I
      PROVE  m \in Exponents /\ Support(m) \subseteq 1 .. Top(I) /\ (Top(I) > 1 => Support(m) # {})
  <2>1. m \in Exponents /\ Top(I) = TopVar(I)
    BY <1>1 DEF Top
  <2>2. Support(m) \subseteq 1 .. Top(I)
    <3>1. \A v \in Support(m) : v \in 1 .. NVars /\ v <= Top(I)
      BY <1>2, <2>1, SupportIs, VarsAre
    <3>2. Top(I) \in Nat
      BY <1>3
    <3>3. QED
      BY <3>1, <3>2
  <2>3. ASSUME Support(m) = {} PROVE ~(Top(I) > 1)
    <3>1. \A n \in I : n = m
      BY <1>1, <2>1, <2>3, SupportIs
    <3>2. UNION {Support(n) : n \in I} = {}
      BY <2>3, <3>1
    <3>3. TopVar(I) = 1
      BY <3>2 DEF TopVar
    <3>4. QED
      BY <2>1, <3>3
  <2>4. QED
    BY <2>1, <2>2, <2>3
<1>5. QED
  BY <1>3, <1>4

\* The table of the monomials D: each has its variables in one set, and the sets do not go
\* across what no monomial of D goes across.
Together(n, t, c, D) ==
  /\ Classes(n, t, c)
  /\ t.occurs = UNION {Support(m) : m \in D}
  /\ \A m \in D : \A v, w \in Support(m) : c[v] = c[w]
  /\ \A A : (\A m \in D : Support(m) \subseteq A \/ Support(m) \cap A = {}) => Keeps(n, c, A)

NoTable(n) == [dad |-> [v \in 1 .. n |-> -1], occurs |-> {}, n_sets |-> n, var1 |-> 1]

LEMMA FirstTable ==
  ASSUME NEW n \in 0 .. NVars
  PROVE  \E c : Together(n, NoTable(n), c, {})
<1> DEFINE t == NoTable(n)
           dad == [v \in 1 .. n |-> -1]
           c == [v \in 1 .. n |-> v]
           r == [v \in 1 .. n |-> 0]
<1>1. n \in Nat /\ n \in Int
  BY VarsAre
<1>2. t.dad = dad /\ t.occurs = {} /\ t.n_sets = n /\ t = [dad |-> dad, occurs |-> {}, n_sets |-> n, var1 |-> 1]
  BY DEF NoTable
<1>3. dad \in [1 .. n -> Int] /\ \A v \in 1 .. n : dad[v] = -1
  OBVIOUS
<1>4. c \in [1 .. n -> 1 .. n] /\ \A v \in 1 .. n : c[v] = v
  OBVIOUS
<1>5. r \in [1 .. n -> Nat]
  OBVIOUS
<1> HIDE DEF t, dad, c, r
<1>6. t \in Tables(n)
  BY <1>1, <1>2, <1>3 DEF Tables
<1>7. Forest(n, t.dad, c, r)
  BY <1>2, <1>3, <1>4, <1>5 DEF Forest
<1>8. Roots(n, t) = 1 .. n
  BY <1>2, <1>3 DEF Roots
<1>9. IsFiniteSet(1 .. n) /\ Cardinality(1 .. n) = n
  <2>1. 1 \in Int
    OBVIOUS
  <2>2. IsFiniteSet(1 .. n) /\ Cardinality(1 .. n) = IF 1 > n THEN 0 ELSE n - 1 + 1
    BY <1>1, <2>1, FS_Interval
  <2>3. QED
    BY <1>1, <2>2
<1>10. Classes(n, t, c)
  BY <1>2, <1>6, <1>7, <1>8, <1>9 DEF Classes
<1>11. \A A : Keeps(n, c, A)
  BY <1>4 DEF Keeps
<1>12. Together(n, t, c, {})
  BY <1>2, <1>10, <1>11 DEF Together
<1>13. QED
  BY <1>12 DEF t

LEMMA NextTable ==
  ASSUME NEW n, NEW t, NEW c, NEW D, Together(n, t, c, D),
         NEW m \in Exponents, Support(m) # {}, Support(m) \subseteq 1 .. n, \A k \in D : Support(k) \subseteq 1 .. n
  PROVE  \E c2 : Together(n, MergeMonomial(t, m), c2, D \cup {m})
<1> DEFINE t2 == MergeMonomial(t, m)
           E == D \cup {m}
<1>1. /\ Classes(n, t, c) /\ t.occurs = UNION {Support(k) : k \in D}
      /\ \A k \in D : \A v, w \in Support(k) : c[v] = c[w]
      /\ \A A : (\A k \in D : Support(k) \subseteq A \/ Support(k) \cap A = {}) => Keeps(n, c, A)
  BY DEF Together
<1>2. PICK c2 : /\ Classes(n, t2, c2) /\ Joined(n, c, c2, Support(m)) /\ t2.occurs = t.occurs \cup Support(m)
  BY <1>1, MergeMonomialIs
<1> HIDE DEF t2
<1>3. t2.occurs = UNION {Support(k) : k \in E}
  BY <1>1, <1>2
<1>4. \A k \in E : \A v, w \in Support(k) : c2[v] = c2[w]
  BY <1>1, <1>2 DEF Joined
<1>5. ASSUME NEW A, \A k \in E : Support(k) \subseteq A \/ Support(k) \cap A = {}
      PROVE  Keeps(n, c2, A)
  <2>1. Keeps(n, c, A)
    BY <1>1, <1>5
  <2>2. Support(m) \subseteq A \/ Support(m) \cap A = {}
    BY <1>5
  <2>3. QED
    BY <1>2, <2>1, <2>2 DEF Joined
<1>6. Together(n, t2, c2, E)
  BY <1>2, <1>3, <1>4, <1>5 DEF Together
<1>7. QED
  BY <1>6 DEF t2

\* The monomials that partition_table has taken are all of them, unless one set was left.
TableFor(I, t) ==
  \E c, D : D \in SUBSET I /\ Together(Top(I), t, c, D) /\ (t.n_sets > 1 => D = I)

LEMMA TableIs ==
  ASSUME NEW I, Ideal(I)
  PROVE  TableFor(I, TableOf(I))
<1> DEFINE n == Top(I)
           N == Cardinality(I)
           ms == InOrder(I, LexLess)
           step(k, t) == IF t.n_sets > 1 THEN MergeMonomial(t, ms[k]) ELSE t
           P(g) == g = [k \in 0 .. Len(ms) |-> IF k = 0 THEN NoTable(n) ELSE step(k, g[k - 1])]
           W == CHOOSE g : P(g)
           Taken(k) == {ms[i] : i \in 1 .. k}
           Here(k, t, c, D) == D \in SUBSET Taken(k) /\ Together(n, t, c, D) /\ (t.n_sets > 1 => D = Taken(k))
           Done(k, t) == \E c, D : Here(k, t, c, D)
           Y == {t \in Tables(n) : \E c : Classes(n, t, c)}
           G == [k \in 1 .. N |-> [t \in Y |-> step(k, t)]]
<1>1. n \in 0 .. NVars
  BY TopIs
<1>2. /\ IsFiniteSet(I) /\ I \subseteq Exponents
      /\ \A m \in I : m \in Exponents /\ Support(m) \subseteq 1 .. n /\ (n > 1 => Support(m) # {})
  BY IdealIs, TopIs
<1>3. Listed(ms, I)
  BY <1>2, LexListed
<1>4. TableOf(I) = W[Len(ms)]
  BY DEF TableOf, NoTable, Top
<1> HIDE DEF ms, n
<1>5. N \in Nat /\ Len(ms) = N /\ ms \in [1 .. N -> I] /\ (\A m \in I : \E k \in 1 .. N : ms[k] = m)
  BY <1>3 DEF Listed
<1> HIDE DEF N
<1>6. \A k \in 1 .. N : ms[k] \in I
  BY <1>5
<1>7. ASSUME NEW t, NEW c, Classes(n, t, c), t.n_sets > 1 PROVE n > 1
  BY <1>7, SetsAre
<1>8. ASSUME NEW k \in 1 .. N, NEW t \in Y PROVE step(k, t) \in Y
  <2>1. PICK c : t \in Tables(n) /\ Classes(n, t, c)
    OBVIOUS
  <2>2. CASE t.n_sets > 1
    <3>1. n > 1
      BY <1>7, <2>1, <2>2
    <3>2. ms[k] \in Exponents /\ Support(ms[k]) # {} /\ Support(ms[k]) \subseteq 1 .. n
      BY <1>2, <1>6, <3>1
    <3>3. PICK c2 : Classes(n, MergeMonomial(t, ms[k]), c2)
      BY <2>1, <3>2, MergeMonomialIs
    <3>4. MergeMonomial(t, ms[k]) \in Tables(n)
      BY <3>3 DEF Classes
    <3>5. QED
      BY <2>2, <3>3, <3>4
  <2>3. CASE ~(t.n_sets > 1)
    BY <2>3
  <2>4. QED
    BY <2>2, <2>3
<1>9. PICK c0 : Together(n, NoTable(n), c0, {})
  BY <1>1, FirstTable
<1>10. NoTable(n) \in Y
  BY <1>9 DEF Together, Classes
<1> HIDE DEF step, Y
<1>11. G \in [1 .. N -> [Y -> Y]] /\ \A k \in 1 .. N : \A t \in Y : G[k][t] = step(k, t)
  BY <1>8
<1> HIDE DEF G
<1>12. PICK f : Iteration(f, Y, NoTable(n), N, G)
  BY <1>5, <1>10, <1>11, Iterates
<1>13. f \in [0 .. N -> Y] /\ f[0] = NoTable(n) /\ \A k \in 1 .. N : f[k] = step(k, f[k - 1])
  <2>1. ASSUME NEW k \in 1 .. N PROVE f[k] = step(k, f[k - 1])
    <3>1. k - 1 \in 0 .. N
      BY <1>5
    <3>2. f[k - 1] \in Y /\ f[k] = G[k][f[k - 1]]
      BY <1>12, <3>1 DEF Iteration
    <3>3. QED
      BY <1>11, <3>2
  <2>2. QED
    BY <1>12, <2>1 DEF Iteration
<1>14. P(f)
  BY <1>5, <1>13
<1>15. P(W)
  <2> HIDE DEF P
  <2>1. QED
    BY <1>14
<1> HIDE DEF W
<1>16. W[0] = NoTable(n) /\ \A k \in 1 .. N : W[k] = step(k, W[k - 1])
  <2>1. \A k \in 0 .. N : W[k] = IF k = 0 THEN NoTable(n) ELSE step(k, W[k - 1])
    BY <1>5, <1>15
  <2>2. 0 \in 0 .. N /\ \A k \in 1 .. N : k \in 0 .. N /\ k # 0
    BY <1>5
  <2>3. QED
    BY <2>1, <2>2
<1> DEFINE T == {k \in 0 .. N : Done(k, W[k])}
<1>17. 0 \in T
  <2>1. Taken(0) = {} /\ 0 \in 0 .. N
    BY <1>5
  <2> HIDE DEF Taken
  <2>2. Here(0, W[0], c0, {})
    BY <1>9, <1>16, <2>1
  <2> HIDE DEF Here
  <2>3. QED
    BY <2>1, <2>2
<1>18. ASSUME NEW k \in 1 .. N, k - 1 \in T PROVE k \in T
  <2>1. PICK c, D : Here(k - 1, W[k - 1], c, D)
    BY <1>18
  <2> DEFINE t == W[k - 1]
             m == ms[k]
  <2>2. W[k] = step(k, t)
    BY <1>16
  <2>3. Taken(k) = Taken(k - 1) \cup {m}
    <3>1. \A i \in 1 .. k : i \in 1 .. k - 1 \/ i = k
      BY <1>5
    <3>2. \A i \in 1 .. k - 1 : i \in 1 .. k
      BY <1>5
    <3>3. k \in 1 .. k
      BY <1>5
    <3>4. QED
      BY <3>1, <3>2, <3>3
  <2>4. \A i \in 1 .. k - 1 : ms[i] \in I
    BY <1>5, <1>6
  <2>5. \A d \in Taken(k - 1) : d \in I
    BY <2>4
  <2> HIDE DEF Taken
  <2>6. D \in SUBSET Taken(k - 1) /\ Together(n, t, c, D) /\ (t.n_sets > 1 => D = Taken(k - 1))
    BY <2>1
  <2>7. Classes(n, t, c)
    BY <2>6 DEF Together
  <2>8. CASE t.n_sets > 1
    <3>1. n > 1
      BY <1>7, <2>7, <2>8
    <3>2. m \in Exponents /\ Support(m) # {} /\ Support(m) \subseteq 1 .. n
      BY <1>2, <1>6, <3>1
    <3>3. \A d \in D : Support(d) \subseteq 1 .. n
      BY <1>2, <2>5, <2>6
    <3>4. PICK c2 : Together(n, MergeMonomial(t, m), c2, D \cup {m})
      BY <2>6, <3>2, <3>3, NextTable
    <3>5. W[k] = MergeMonomial(t, m)
      BY <2>2, <2>8 DEF step
    <3> HIDE DEF t, m
    <3>6. Here(k, W[k], c2, D \cup {m})
      BY <2>3, <2>6, <2>8, <3>4, <3>5
    <3> HIDE DEF Here
    <3>7. QED
      BY <3>6
  <2>9. CASE ~(t.n_sets > 1)
    <3>1. W[k] = t
      BY <2>2, <2>9 DEF step
    <3> HIDE DEF t, m
    <3>2. Here(k, W[k], c, D)
      BY <2>3, <2>6, <2>9, <3>1
    <3> HIDE DEF Here
    <3>3. QED
      BY <3>2
  <2>10. QED
    BY <2>8, <2>9
<1> HIDE DEF T
<1>19. N \in T
  <2>1. \A k \in 0 .. N : k \in T
    BY <1>5, <1>17, <1>18, Inducts
  <2>2. QED
    BY <1>5, <2>1
<1>20. PICK c, D : Here(N, W[N], c, D)
  BY <1>19 DEF T
<1>21. Taken(N) = I
  BY <1>5, <1>6
<1> HIDE DEF Taken
<1>22. TableOf(I) = W[N]
  BY <1>4, <1>5
<1>23. QED
  BY <1>20, <1>21, <1>22 DEF TableFor, n

-----------------------------------------------------------------------------
(* What partition makes of an ideal.                                        *)

\* J are those of the monomials D that have their variables under this root.
Under(c, D, J, root) ==
  /\ \A m \in J : \A v \in Support(m) : c[v] = root
  /\ \A m \in D \ J : \A v \in Support(m) : c[v] # root

\* The monomials of one set are held together by their variables.
LEMMA ConnectedIf ==
  ASSUME NEW I, Ideal(I), NEW t, NEW c, NEW D \in SUBSET I, Together(Top(I), t, c, D),
         NEW J \in SUBSET I, NEW root, Under(c, D, J, root)
  PROVE  Connected(J)
<1> DEFINE n == Top(I)
<1> SUFFICES ASSUME NEW K \in (SUBSET J) \ {{}, J},
                    \A m \in K, k \in J \ K : Support(m) \cap Support(k) = {}
             PROVE  FALSE
  BY DEF Connected
<1> DEFINE A == UNION {Support(m) : m \in K}
<1>1. \A m, k \in I : Divides(m, k) => m = k
  BY IdealIs
<1>2. \A m \in I : m \in Exponents /\ Support(m) \subseteq 1 .. n
  BY TopIs
<1>3. \A m \in D : Support(m) \subseteq A \/ Support(m) \cap A = {}
  <2>1. SUFFICES ASSUME NEW m \in D, NEW v \in Support(m), v \in A, m \notin K PROVE FALSE
    OBVIOUS
  <2>2. PICK k \in K : v \in Support(k)
    BY <2>1
  <2>3. k \in J /\ c[v] = root
    BY <2>2 DEF Under
  <2>4. m \in J
    BY <2>1, <2>3 DEF Under
  <2>5. QED
    BY <2>1, <2>2, <2>4
<1>4. Keeps(n, c, A)
  BY <1>3 DEF Together
<1>5. PICK k \in K, m \in J \ K : TRUE
  OBVIOUS
<1>6. \A h \in I : Support(h) = {} => h = k /\ h = m
  <2>1. SUFFICES ASSUME NEW h \in I, Support(h) = {} PROVE h = k /\ h = m
    OBVIOUS
  <2>2. Divides(h, k) /\ Divides(h, m)
    BY <1>2, <2>1, SupportIs
  <2>3. QED
    BY <1>1, <2>2
<1>7. PICK v : v \in Support(k)
  BY <1>6
<1>8. PICK w : w \in Support(m)
  BY <1>6
<1>9. v \in 1 .. n /\ w \in 1 .. n /\ v \in A /\ c[v] = root /\ c[w] = root
  BY <1>2, <1>7, <1>8 DEF Under
<1>10. w \in A
  <2> HIDE DEF A
  <2>1. QED
    BY <1>4, <1>9 DEF Keeps
<1>11. QED
  BY <1>8, <1>10

LEMMA PartitionIs ==
  ASSUME NEW I, Ideal(I)
  PROVE  \E N \in Nat : /\ Partition(I) \in [1 .. N -> SUBSET I]
                        /\ \A k \in 1 .. N : Good(Partition(I)[k])
<1> DEFINE t == TableOf(I)
           n == Top(I)
           R == {v \in t.occurs : t.dad[v] < 0}
           less(v, w) == v < w
           roots == InOrder(R, less)
           part(k) == {m \in I : Representative(t.dad, TopVar({m})) = roots[k]}
           N == Len(roots)
<1>1. Partition(I) = IF t.n_sets = 1 \/ N = 1 THEN <<I>> ELSE [k \in 1 .. N |-> part(k)]
  BY DEF Partition
<1>2. PICK c, D : D \in SUBSET I /\ Together(n, t, c, D) /\ (t.n_sets > 1 => D = I)
  BY TableIs DEF TableFor
<1> HIDE DEF t
<1>3. /\ Classes(n, t, c) /\ t.occurs = UNION {Support(m) : m \in D}
      /\ \A m \in D : \A v, w \in Support(m) : c[v] = c[w]
      /\ \A A : (\A m \in D : Support(m) \subseteq A \/ Support(m) \cap A = {}) => Keeps(n, c, A)
  BY <1>2 DEF Together
<1>4. /\ n \in 0 .. NVars
      /\ \A m \in I : m \in Exponents /\ Support(m) \subseteq 1 .. n /\ (n > 1 => Support(m) # {})
  BY TopIs
<1>5. /\ n \in Nat /\ t.n_sets \in Nat /\ t.n_sets <= n
      /\ \A v \in 1 .. n : c[v] \in 1 .. n /\ c[c[v]] = c[v] /\ t.dad[c[v]] < 0
                           /\ (t.dad[v] < 0 => c[v] = v) /\ Representative(t.dad, v) = c[v]
  BY <1>3, SetsAre
<1>6. t.occurs \subseteq 1 .. n
  BY <1>2, <1>3, <1>4
<1>7. Listed(roots, R)
  <2>1. IsFiniteSet(1 .. n)
    <3>1. 1 \in Int /\ n \in Int
      BY <1>5
    <3>2. QED
      BY <3>1, FS_Interval
  <2>2. R \in SUBSET (1 .. n)
    BY <1>6
  <2>3. IsFiniteSet(R)
    BY <2>1, <2>2, FS_Subset
  <2>4. roots = [k \in 1 .. Cardinality(R) |-> CHOOSE x \in R : Cardinality({y \in R : y < x}) = k - 1]
    BY DEF InOrder
  <2> HIDE DEF R, roots
  <2>5. R \subseteq Nat
    BY <1>5, <2>2
  <2>6. Listed([k \in 1 .. Cardinality(R) |-> CHOOSE x \in R : Cardinality({y \in R : y < x}) = k - 1], R)
    BY <2>3, <2>5, UpListed
  <2>7. QED
    BY <2>4, <2>6
<1> HIDE DEF roots
<1>8. N \in Nat /\ roots \in [1 .. N -> R] /\ \A v \in R : \E k \in 1 .. N : roots[k] = v
  BY <1>7 DEF Listed
<1> HIDE DEF N
<1>9. R # {} => I # {}
  BY <1>2, <1>3
<1>10. CASE t.n_sets = 1
  <2>1. PICK root : Roots(n, t) = {root}
    BY <1>3, <1>10, FS_Singleton DEF Classes
  <2>2. \A v \in 1 .. n : c[v] = root
    BY <1>5, <2>1 DEF Roots
  <2>3. \A m \in I : \A v \in Support(m) : c[v] = root
    BY <1>4, <2>2
  <2>4. Connected(I)
    <3>1. Together(Top(I), t, c, D) /\ D \in SUBSET I /\ I \in SUBSET I
      BY <1>2
    <3>2. Under(c, D, I, root)
      BY <1>2, <2>3 DEF Under
    <3>3. QED
      BY <3>1, <3>2, ConnectedIf
  <2>5. I # {}
    <3>1. n # 0
      BY <1>5, <1>10
    <3>2. QED
      BY <3>1 DEF Top
  <2>6. Good(I)
    BY <2>4, <2>5 DEF Good
  <2>7. Partition(I) = <<I>>
    BY <1>1, <1>10
  <2>8. Partition(I) \in [1 .. 1 -> SUBSET I] /\ \A k \in 1 .. 1 : Partition(I)[k] = I
    BY <2>7
  <2>9. QED
    BY <2>6, <2>8
<1>11. CASE t.n_sets # 1 /\ N = 1
  <2>1. R = {roots[1]}
    <3>1. \A v \in R : v = roots[1]
      BY <1>8, <1>11
    <3>2. roots[1] \in R
      <4>1. 1 \in 1 .. N
        BY <1>11
      <4>2. QED
        BY <1>8, <4>1
    <3> HIDE DEF R
    <3>3. QED
      BY <3>1, <3>2
  <2>2. I # {}
    BY <1>9, <2>1
  <2>3. D = I
    <3>1. t.n_sets # 0
      <4>1. SUFFICES ASSUME t.n_sets = 0 PROVE FALSE
        OBVIOUS
      <4>2. Roots(n, t) = {}
        BY <1>3, <4>1, FS_EmptySet DEF Classes
      <4>3. PICK v \in 1 .. n : v = roots[1] /\ t.dad[v] < 0
        BY <1>6, <2>1
      <4>4. QED
        BY <4>2, <4>3 DEF Roots
    <3>2. QED
      BY <1>2, <1>5, <1>11, <3>1
  <2>4. Keeps(n, c, t.occurs)
    BY <1>3
  <2>5. \A v \in t.occurs : c[v] = roots[1]
    <3>1. \A v \in t.occurs : c[v] \in R
      BY <1>5, <1>6, <2>4 DEF Keeps
    <3> HIDE DEF R
    <3>2. QED
      BY <2>1, <3>1
  <2>6. \A m \in I : \A v \in Support(m) : c[v] = roots[1]
    BY <1>3, <2>3, <2>5
  <2>7. Connected(I)
    <3>1. Together(Top(I), t, c, D) /\ D \in SUBSET I /\ I \in SUBSET I
      BY <1>2
    <3>2. Under(c, D, I, roots[1])
      BY <1>2, <2>6 DEF Under
    <3>3. QED
      BY <3>1, <3>2, ConnectedIf
  <2>8. Good(I)
    BY <2>2, <2>7 DEF Good
  <2>9. Partition(I) = <<I>>
    BY <1>1, <1>11
  <2>10. Partition(I) \in [1 .. 1 -> SUBSET I] /\ \A k \in 1 .. 1 : Partition(I)[k] = I
    BY <2>9
  <2>11. QED
    BY <2>8, <2>10
<1>12. CASE t.n_sets # 1 /\ N # 1
  <2>1. Partition(I) = [k \in 1 .. N |-> part(k)]
    BY <1>1, <1>12
  <2>2. \A k \in 1 .. N : part(k) \in SUBSET I
    OBVIOUS
  <2>3. ASSUME NEW k \in 1 .. N PROVE Good(part(k))
    <3> DEFINE root == roots[k]
               J == part(k)
    <3>1. root \in R /\ root \in 1 .. n /\ t.dad[root] < 0
      BY <1>6, <1>8
    <3>2. t.n_sets # 0
      <4>1. root \in Roots(n, t)
        BY <3>1 DEF Roots
      <4> HIDE DEF root
      <4>2. QED
        BY <1>3, <4>1, FS_EmptySet DEF Classes
    <3>3. D = I /\ n > 1
      BY <1>2, <1>5, <1>12, <3>2
    <3>4. ASSUME NEW m \in I PROVE TopVar({m}) \in Support(m)
      <4>1. Support(m) # {} /\ {m} \in SUBSET Exponents
        BY <1>4, <3>3
      <4>2. \E h \in {m} : TopVar({m}) \in Support(h)
        BY <4>1, TopVarIs
      <4>3. QED
        BY <4>2
    <3>5. ASSUME NEW m \in I, NEW v \in Support(m) PROVE m \in J <=> c[v] = root
      <4>1. TopVar({m}) \in Support(m) /\ TopVar({m}) \in 1 .. n
        BY <1>4, <3>4
      <4>2. Representative(t.dad, TopVar({m})) = c[TopVar({m})]
        BY <1>5, <4>1
      <4>3. c[TopVar({m})] = c[v]
        BY <1>3, <3>3, <4>1
      <4>4. QED
        BY <4>2, <4>3
    <3>6. J \in SUBSET I
      OBVIOUS
    <3>7. J # {}
      <4>1. PICK m \in I : root \in Support(m)
        BY <1>3, <3>1, <3>3
      <4>2. c[root] = root
        BY <1>5, <3>1
      <4>3. QED
        BY <3>5, <4>1, <4>2
    <3> HIDE DEF J, root
    <3>8. Connected(J)
      <4>1. Together(Top(I), t, c, D) /\ D \in SUBSET I
        BY <1>2
      <4>2. Under(c, D, J, root)
        BY <3>3, <3>5, <3>6 DEF Under
      <4>3. QED
        BY <3>6, <4>1, <4>2, ConnectedIf
    <3>9. Good(J)
      BY <3>6, <3>7, <3>8, PartIdeal DEF Good
    <3>10. QED
      BY <3>9 DEF J
  <2> HIDE DEF part
  <2>4. Partition(I) \in [1 .. N -> SUBSET I] /\ \A k \in 1 .. N : Partition(I)[k] = part(k)
    BY <2>1, <2>2
  <2>5. QED
    BY <1>8, <2>3, <2>4
<1>13. QED
  BY <1>10, <1>11, <1>12

-----------------------------------------------------------------------------
(* Polynomials.                                                             *)

\* Nothing but terms with a whole coefficient.
WholeTerms(p) == \A t \in p : t[2] \in Int

LEMMA CoeffIs ==
  ASSUME NEW p, WholeTerms(p), NEW d
  PROVE  Coeff(p, d) \in Int
<1>1. CASE \E t \in p : t[1] = d
  <2> DEFINE t == CHOOSE t \in p : t[1] = d
  <2>1. t \in p
    BY <1>1
  <2>2. Coeff(p, d) = t[2]
    BY <1>1 DEF Coeff
  <2> HIDE DEF t
  <2>3. QED
    BY <2>1, <2>2 DEF WholeTerms
<1>2. CASE ~\E t \in p : t[1] = d
  BY <1>2 DEF Coeff
<1>3. QED
  BY <1>1, <1>2

LEMMA PolynomialIs ==
  ASSUME NEW p, IsPolynomial(p)
  PROVE  /\ WholeTerms(p) /\ IsFiniteSet(p) /\ p \in SUBSET (Degrees \X Int)
<1>1. p \subseteq Degrees \X (Int \ {0}) /\ \A s, t \in p : s[1] = t[1] => s = t
  BY DEF IsPolynomial
<1>2. WholeTerms(p) /\ p \in SUBSET (Degrees \X Int)
  BY <1>1 DEF WholeTerms
<1>3. IsFiniteSet(p)
  <2> DEFINE f == [t \in p |-> t[1]]
  <2>1. f \in [p -> Degrees] /\ \A s, t \in p : f[s] = f[t] => s = t
    BY <1>1
  <2> HIDE DEF f
  <2>2. f \in Injection(p, Degrees)
    BY <2>1, Fun_IsInj
  <2>3. IsFiniteSet(Degrees)
    <3>1. 0 \in Int /\ MaxWeight \in Int
      BY HilbertAssumption
    <3>2. QED
      BY <3>1, FS_Interval DEF Degrees
  <2>4. QED
    BY <2>2, <2>3, FS_Injection
<1>4. QED
  BY <1>2, <1>3

LEMMA SmallPolynomials ==
  /\ IsPolynomial(Zero)
  /\ \A d \in Degrees : IsPolynomial(Term(1, d))
  /\ WholeTerms(Zero) /\ \A d : WholeTerms(Term(1, d))
  /\ IsPolynomial(Const(1))
<1>1. IsPolynomial(Zero) /\ WholeTerms(Zero)
  BY DEF IsPolynomial, WholeTerms, Zero
<1>2. \A d \in Degrees : IsPolynomial(Term(1, d))
  BY DEF IsPolynomial, Term
<1>3. \A d : WholeTerms(Term(1, d))
  BY DEF WholeTerms, Term
<1>4. 0 \in Degrees
  BY HilbertAssumption DEF Degrees
<1>5. QED
  BY <1>1, <1>2, <1>3, <1>4 DEF Const

LEMMA PlusMinusAre ==
  ASSUME NEW p, WholeTerms(p), NEW q, WholeTerms(q)
  PROVE  IsPolynomial(Plus(p, q)) /\ IsPolynomial(Minus(p, q))
<1>1. \A d : Coeff(p, d) \in Int /\ Coeff(q, d) \in Int
  BY CoeffIs
<1>2. IsPolynomial(Plus(p, q))
  <2> DEFINE c(d) == Coeff(p, d) + Coeff(q, d)
  <2>1. \A d : c(d) \in Int
    BY <1>1
  <2>2. Plus(p, q) = {<<d, c(d)>> : d \in {e \in Degrees : c(e) # 0}}
    BY DEF Plus, WithCoeffs
  <2> HIDE DEF c
  <2>3. QED
    BY <2>1, <2>2 DEF IsPolynomial
<1>3. IsPolynomial(Minus(p, q))
  <2> DEFINE c(d) == Coeff(p, d) - Coeff(q, d)
  <2>1. \A d : c(d) \in Int
    BY <1>1
  <2>2. Minus(p, q) = {<<d, c(d)>> : d \in {e \in Degrees : c(e) # 0}}
    BY DEF Minus, WithCoeffs
  <2> HIDE DEF c
  <2>3. QED
    BY <2>1, <2>2 DEF IsPolynomial
<1>4. QED
  BY <1>2, <1>3

\* The coefficient of a product is a sum over the terms of the one factor.
Product(p, q, d) ==
  LET add(x, y) == x + y
      part(t) == t[2] * Coeff(q, d - t[1])
  IN  Over(p, add, 0, part)

LEMMA ProductsSum ==
  ASSUME NEW p, WholeTerms(p), IsFiniteSet(p), NEW q, WholeTerms(q), NEW d
  PROVE  Product(p, q, d) \in Int
<1> DEFINE part(t) == t[2] * Coeff(q, d - t[1])
           any(T) == CHOOSE x \in T : TRUE
           up(f, T) == IF T = {} THEN 0 ELSE part(any(T)) + f[T \ {any(T)}]
           P(f) == f = [T \in SUBSET p |-> up(f, T)]
           W == CHOOSE f : P(f)
           S == SUBSET p
           Y == [S -> Int]
           N == Cardinality(p)
           G == [k \in 1 .. N + 1 |-> [f \in Y |-> [T \in S |-> up(f, T)]]]
           zero == [T \in S |-> 0]
<1>1. Product(p, q, d) = W[p]
  BY DEF Over, Product
<1>2. \A t \in p : part(t) \in Int
  <2>1. SUFFICES ASSUME NEW t \in p PROVE part(t) \in Int
    OBVIOUS
  <2>2. t[2] \in Int /\ Coeff(q, d - t[1]) \in Int
    BY CoeffIs DEF WholeTerms
  <2>3. QED
    BY <2>2
<1>3. N \in Nat
  BY FS_CardinalityType
<1> HIDE DEF part, W
<1>4. \A T \in S : T # {} => any(T) \in T /\ any(T) \in p /\ T \ {any(T)} \in S
  OBVIOUS
<1> HIDE DEF any
<1>5. \A f \in Y : \A T \in S : up(f, T) \in Int
  <2>1. SUFFICES ASSUME NEW f \in Y, NEW T \in S, T # {} PROVE part(any(T)) + f[T \ {any(T)}] \in Int
    OBVIOUS
  <2>2. part(any(T)) \in Int
    BY <1>2, <1>4, <2>1
  <2>3. f[T \ {any(T)}] \in Int
    BY <1>4, <2>1
  <2>4. QED
    BY <2>2, <2>3
<1>6. \A f \in Y : [T \in S |-> up(f, T)] \in Y
  <2> HIDE DEF up
  <2>1. QED
    BY <1>5
<1>7. zero \in Y
  OBVIOUS
<1>8. G \in [1 .. N + 1 -> [Y -> Y]] /\ \A k \in 1 .. N + 1 : \A f \in Y : G[k][f] = [T \in S |-> up(f, T)]
  <2> HIDE DEF up, Y
  <2>1. QED
    BY <1>6
<1> HIDE DEF G, zero
<1>9. PICK F : Iteration(F, Y, zero, N + 1, G)
  <2>1. N + 1 \in Nat
    BY <1>3
  <2> HIDE DEF Y
  <2>2. QED
    BY <1>7, <1>8, <2>1, Iterates
<1>10. /\ F \in [0 .. N + 1 -> Y] /\ F[0] = zero
       /\ \A k \in 1 .. N + 1 : F[k] = [T \in S |-> up(F[k - 1], T)]
  <2> HIDE DEF Y, up
  <2>1. ASSUME NEW k \in 1 .. N + 1 PROVE F[k] = [T \in S |-> up(F[k - 1], T)]
    <3>1. k - 1 \in 0 .. N + 1
      BY <1>3
    <3>2. F[k - 1] \in Y /\ F[k] = G[k][F[k - 1]]
      BY <1>9, <3>1 DEF Iteration
    <3>3. QED
      BY <1>8, <3>2
  <2>2. QED
    BY <1>9, <2>1 DEF Iteration
<1>11. \A k \in 1 .. N + 1 : \A T \in S : F[k][T] = up(F[k - 1], T)
  <2> HIDE DEF up
  <2>1. QED
    BY <1>10
<1> DEFINE U == {k \in 0 .. N : \A T \in S : Cardinality(T) <= k => F[k + 1][T] = F[k][T]}
<1>12. \A T \in S : IsFiniteSet(T) /\ Cardinality(T) \in Nat /\ Cardinality(T) <= N
  <2>1. SUFFICES ASSUME NEW T \in SUBSET p PROVE IsFiniteSet(T) /\ Cardinality(T) \in Nat /\ Cardinality(T) <= N
    OBVIOUS
  <2>2. IsFiniteSet(T) /\ Cardinality(T) <= N
    BY FS_Subset
  <2>3. QED
    BY <2>2, FS_CardinalityType
<1>13. 0 \in U
  <2>1. ASSUME NEW T \in S, Cardinality(T) <= 0 PROVE F[1][T] = F[0][T]
    <3>1. T = {}
      BY <1>12, <2>1, FS_EmptySet
    <3>2. 1 \in 1 .. N + 1 /\ 1 - 1 = 0
      BY <1>3
    <3>3. F[1][T] = up(F[0], T)
      BY <1>11, <3>2
    <3>4. F[0][T] = 0
      BY <1>10 DEF zero
    <3>5. QED
      BY <3>1, <3>3, <3>4
  <2>2. 0 \in 0 .. N /\ 0 + 1 = 1
    BY <1>3
  <2>3. QED
    BY <2>1, <2>2
<1>14. ASSUME NEW k \in 1 .. N, k - 1 \in U PROVE k \in U
  <2>1. ASSUME NEW T \in S, Cardinality(T) <= k PROVE F[k + 1][T] = F[k][T]
    <3>1. k + 1 \in 1 .. N + 1 /\ k \in 1 .. N + 1 /\ k + 1 - 1 = k /\ k - 1 + 1 = k
      BY <1>3
    <3>2. F[k + 1][T] = up(F[k], T) /\ F[k][T] = up(F[k - 1], T)
      BY <1>11, <3>1
    <3>3. CASE T = {}
      BY <3>2, <3>3
    <3>4. CASE T # {}
      <4>1. any(T) \in T /\ T \ {any(T)} \in S
        BY <1>4, <3>4
      <4>2. Cardinality(T \ {any(T)}) = Cardinality(T) - 1
        BY <1>12, <4>1, FS_RemoveElement
      <4>3. Cardinality(T \ {any(T)}) <= k - 1
        BY <1>12, <2>1, <4>2
      <4>4. F[k][T \ {any(T)}] = F[k - 1][T \ {any(T)}]
        BY <1>14, <3>1, <4>1, <4>3
      <4>5. QED
        BY <3>2, <3>4, <4>4
    <3>5. QED
      BY <3>3, <3>4
  <2>2. QED
    BY <2>1
<1> HIDE DEF U
<1>15. N \in U
  <2>1. \A k \in 0 .. N : k \in U
    BY <1>3, <1>13, <1>14, Inducts
  <2>2. QED
    BY <1>3, <2>1
<1>16. P(F[N])
  <2>1. N + 1 \in 1 .. N + 1 /\ N \in 0 .. N + 1 /\ N + 1 - 1 = N
    BY <1>3
  <2>2. F[N] \in Y /\ \A T \in S : F[N + 1][T] = up(F[N], T)
    <3> HIDE DEF up, Y, S
    <3>1. F[N] \in Y
      BY <1>10, <2>1
    <3>2. \A T \in S : F[N + 1][T] = up(F[N + 1 - 1], T)
      BY <1>11, <2>1
    <3>3. QED
      BY <2>1, <3>1, <3>2
  <2>3. \A T \in S : F[N][T] = up(F[N], T)
    BY <1>12, <1>15, <2>2 DEF U
  <2> HIDE DEF up
  <2>4. QED
    BY <2>2, <2>3
<1>17. P(W)
  <2> HIDE DEF P
  <2>1. QED
    BY <1>16 DEF W
<1>18. \A T \in S : W[T] = up(W, T)
  <2> HIDE DEF up
  <2>1. QED
    BY <1>17
<1> DEFINE V == {k \in 0 .. N : \A T \in S : Cardinality(T) <= k => W[T] \in Int}
<1>19. 0 \in V
  <2>1. ASSUME NEW T \in S, Cardinality(T) <= 0 PROVE W[T] \in Int
    <3>1. T = {}
      BY <1>12, <2>1, FS_EmptySet
    <3>2. up(W, {}) = 0 /\ {} \in S
      OBVIOUS
    <3> HIDE DEF up, S
    <3>3. W[{}] = 0
      BY <1>18, <3>2
    <3>4. QED
      BY <3>1, <3>3
  <2>2. QED
    BY <1>3, <2>1
<1>20. ASSUME NEW k \in 1 .. N, k - 1 \in V PROVE k \in V
  <2>1. ASSUME NEW T \in S, Cardinality(T) <= k PROVE W[T] \in Int
    <3>1. CASE T = {}
      BY <1>18, <3>1
    <3>2. CASE T # {}
      <4>1. any(T) \in T /\ any(T) \in p /\ T \ {any(T)} \in S
        BY <1>4, <3>2
      <4>2. Cardinality(T \ {any(T)}) = Cardinality(T) - 1
        BY <1>12, <4>1, FS_RemoveElement
      <4>3. Cardinality(T \ {any(T)}) <= k - 1
        BY <1>12, <2>1, <4>2
      <4>4. W[T \ {any(T)}] \in Int /\ part(any(T)) \in Int
        BY <1>2, <1>20, <4>1, <4>3
      <4>5. QED
        BY <1>18, <3>2, <4>4
    <3>3. QED
      BY <3>1, <3>2
  <2>2. QED
    BY <2>1
<1> HIDE DEF V
<1>21. W[p] \in Int
  <2>1. \A k \in 0 .. N : k \in V
    BY <1>3, <1>19, <1>20, Inducts
  <2>2. N \in V
    BY <1>3, <2>1
  <2>3. p \in S /\ Cardinality(p) <= N
    BY <1>12
  <2>4. QED
    BY <2>2, <2>3 DEF V
<1>22. QED
  BY <1>1, <1>21

LEMMA TimesIs ==
  ASSUME NEW p, IsPolynomial(p), NEW q, WholeTerms(q)
  PROVE  IsPolynomial(Times(p, q))
<1>1. \A d : Product(p, q, d) \in Int
  BY PolynomialIs, ProductsSum
<1>2. Times(p, q) = {<<d, Product(p, q, d)>> : d \in {e \in Degrees : Product(p, q, e) # 0}}
  BY DEF Times, WithCoeffs, Product
<1>3. QED
  BY <1>1, <1>2 DEF IsPolynomial

LEMMA FewIs ==
  ASSUME NEW I
  PROVE  IsPolynomial(FewNumerator(I))
<1>1. \A d : IsPolynomial(OneMinus(d)) /\ WholeTerms(OneMinus(d))
  BY SmallPolynomials, PolynomialIs, PlusMinusAre DEF OneMinus, Const
<1> DEFINE first == CHOOSE m \in I : TRUE
           rest == I \ {first}
           second == CHOOSE m \in rest : TRUE
           w1 == Weight(first)
           w2 == Weight(second)
           w3 == Weight(Lcm(first, second))
<1>2. FewNumerator(I) = IF rest = {} THEN OneMinus(w1)
                        ELSE Plus(Minus(OneMinus(w1), Term(1, w2)), Term(1, w3))
  BY DEF FewNumerator
<1> HIDE DEF first, rest, second, w1, w2, w3
<1>3. IsPolynomial(Minus(OneMinus(w1), Term(1, w2)))
  BY <1>1, SmallPolynomials, PlusMinusAre
<1>4. IsPolynomial(Plus(Minus(OneMinus(w1), Term(1, w2)), Term(1, w3)))
  BY <1>3, SmallPolynomials, PolynomialIs, PlusMinusAre
<1>5. QED
  BY <1>1, <1>2, <1>4

-----------------------------------------------------------------------------
(* The least common multiple.                                               *)

LEMMA GreatestOf ==
  ASSUME NEW S, IsFiniteSet(S), S \subseteq Nat, S # {}
  PROVE  \E g \in S : \A x \in S : x <= g
<1> DEFINE R == {r \in S \X S : r[1] < r[2]}
           N == Cardinality(S)
           f == [n \in 1 .. N |-> CHOOSE x \in S : Cardinality(Lower(S, R, x)) = n - 1]
<1>1. \A x, y \in S : <<x, y>> \in R <=> x < y
  OBVIOUS
<1> HIDE DEF R
<1>2. TotalOn(S, R)
  <2>1. \A x \in S : x \in Nat
    OBVIOUS
  <2>2. QED
    BY <1>1, <2>1 DEF TotalOn
<1>3. Enumerated(f, S, R)
  BY <1>2, RanksEnumerate
<1> HIDE DEF f
<1>4. /\ N \in Nat /\ f \in [1 .. N -> S] /\ (\A x \in S : \E n \in 1 .. N : f[n] = x)
      /\ \A m, n \in 1 .. N : m < n => <<f[m], f[n]>> \in R
  BY <1>3 DEF Enumerated
<1>5. N # 0
  BY FS_EmptySet
<1> HIDE DEF N
<1>6. N \in 1 .. N /\ f[N] \in S
  BY <1>4, <1>5
<1>7. ASSUME NEW x \in S PROVE x <= f[N]
  <2>1. PICK n \in 1 .. N : f[n] = x
    BY <1>4
  <2>2. CASE n = N
    BY <1>6, <2>1, <2>2
  <2>3. CASE n # N
    <3>1. n < N
      BY <1>4, <2>3
    <3>2. <<f[n], f[N]>> \in R
      BY <1>4, <1>6, <3>1
    <3>3. x < f[N]
      BY <1>1, <1>6, <2>1, <3>2
    <3>4. x \in Nat /\ f[N] \in Nat
      BY <1>6
    <3>5. QED
      BY <3>3, <3>4
  <2>4. QED
    BY <2>2, <2>3
<1>8. QED
  BY <1>6, <1>7

LEMMA LcmIs ==
  ASSUME NEW T, IsFiniteSet(T), T \subseteq Exponents
  PROVE  /\ LcmOf(T) \in Exponents /\ Within(T, LcmOf(T))
         /\ \A B \in Exponents : Within(T, B) => Divides(LcmOf(T), B)
<1> DEFINE es(v) == {0} \cup {m[v] : m \in T}
           e(v) == CHOOSE x \in es(v) : \A m \in T : m[v] <= x
<1>1. LcmOf(T) = [v \in Vars |-> e(v)]
  BY DEF LcmOf
<1>2. ASSUME NEW v \in Vars PROVE e(v) \in es(v) /\ \A m \in T : m[v] <= e(v)
  <2>1. \A m \in T : m[v] \in Nat
    BY DEF Exponents
  <2>2. es(v) \subseteq Nat /\ es(v) # {}
    BY <2>1
  <2>3. IsFiniteSet(es(v))
    <3> DEFINE f == [m \in T |-> m[v]]
    <3>1. IsFiniteSet({f[m] : m \in T})
      BY FiniteImage
    <3>2. {f[m] : m \in T} = {m[v] : m \in T}
      OBVIOUS
    <3>3. IsFiniteSet({m[v] : m \in T} \cup {0})
      BY <3>1, <3>2, FS_AddElement
    <3>4. {m[v] : m \in T} \cup {0} = es(v)
      OBVIOUS
    <3>5. QED
      BY <3>3, <3>4
  <2>4. \E g \in es(v) : \A x \in es(v) : x <= g
    <3> HIDE DEF es
    <3>1. QED
      BY <2>2, <2>3, GreatestOf
  <2>5. \E g \in es(v) : \A m \in T : m[v] <= g
    BY <2>4
  <2> HIDE DEF es
  <2>6. QED
    BY <2>5
<1> HIDE DEF e
<1>3. \A v \in Vars : LcmOf(T)[v] = e(v)
  BY <1>1
<1>4. \A v \in Vars : e(v) \in Nat
  BY <1>2 DEF Exponents
<1>5. LcmOf(T) \in Exponents
  BY <1>1, <1>4 DEF Exponents
<1>6. Within(T, LcmOf(T))
  BY <1>2, <1>3 DEF Within, Divides
<1>7. ASSUME NEW B \in Exponents, Within(T, B) PROVE Divides(LcmOf(T), B)
  <2>1. ASSUME NEW v \in Vars PROVE LcmOf(T)[v] <= B[v]
    <3>1. \A m \in T : m[v] <= B[v]
      BY <1>7 DEF Within, Divides
    <3>2. 0 <= B[v]
      BY DEF Exponents
    <3>3. e(v) \in es(v)
      BY <1>2
    <3>4. QED
      BY <1>3, <3>1, <3>2, <3>3
  <2>2. QED
    BY <2>1 DEF Divides
<1>8. QED
  BY <1>5, <1>6, <1>7

-----------------------------------------------------------------------------
(* The ideals of the stack.                                                 *)

\* An ideal that do_ideal can take, with a numerator that fits.
Fitting(I) == Good(I) /\ Weight(LcmOf(I)) <= MaxWeight

\* A part of the least common multiple fits.
LEMMA LcmFits ==
  ASSUME NEW T, IsFiniteSet(T), T \subseteq Exponents, Weight(LcmOf(T)) <= MaxWeight,
         NEW J, Good(J), Within(J, LcmOf(T))
  PROVE  Fitting(J)
<1>1. LcmOf(T) \in Exponents
  BY LcmIs
<1>2. IsFiniteSet(J) /\ J \subseteq Exponents
  BY DEF Good, Ideal
<1>3. LcmOf(J) \in Exponents /\ Divides(LcmOf(J), LcmOf(T))
  BY <1>1, <1>2, LcmIs
<1>4. Weight(LcmOf(J)) \in Nat /\ Weight(LcmOf(T)) \in Nat /\ Weight(LcmOf(J)) <= Weight(LcmOf(T))
  BY <1>1, <1>3, WeightMonotone DEF Exponents
<1>5. MaxWeight \in Nat
  BY HilbertAssumption
<1>6. QED
  BY <1>4, <1>5 DEF Fitting

\* What partition puts on the stack.
Ideals(ms) == ms \in Seq(SUBSET Exponents) /\ \A n \in 1 .. Len(ms) : Fitting(ms[n])

LEMMA PartsFit ==
  ASSUME NEW T, IsFiniteSet(T), T \subseteq Exponents, Weight(LcmOf(T)) <= MaxWeight,
         NEW I, Ideal(I), Within(I, LcmOf(T))
  PROVE  Ideals(Partition(I)) /\ \A n \in 1 .. Len(Partition(I)) : Partition(I)[n] \in SUBSET I
<1> DEFINE ms == Partition(I)
<1>1. PICK N \in Nat : ms \in [1 .. N -> SUBSET I] /\ \A k \in 1 .. N : Good(ms[k])
  BY PartitionIs
<1> HIDE DEF ms
<1>2. ms \in Seq(SUBSET I) /\ Len(ms) = N
  BY <1>1
<1>3. I \subseteq Exponents
  BY DEF Ideal
<1>4. \A n \in 1 .. N : ms[n] \in SUBSET I
  BY <1>1
<1>5. \A n \in 1 .. N : Fitting(ms[n])
  <2>1. SUFFICES ASSUME NEW n \in 1 .. N PROVE Fitting(ms[n])
    OBVIOUS
  <2>2. Good(ms[n]) /\ Within(ms[n], LcmOf(T))
    BY <1>1, <1>4 DEF Within
  <2>3. QED
    BY <2>2, LcmFits
<1>6. ms \in Seq(SUBSET Exponents)
  <2>1. \A n \in 1 .. N : ms[n] \in SUBSET Exponents
    BY <1>3, <1>4
  <2>2. QED
    BY <1>2, <2>1
<1>7. Ideals(ms)
  BY <1>2, <1>5, <1>6 DEF Ideals
<1>8. QED
  BY <1>2, <1>4, <1>7 DEF ms

-----------------------------------------------------------------------------
(* The inductive invariant.  A level stands on the ideal that the one below *)
(* it is at, until its own are done.                                        *)

Levels == [monids : Seq(SUBSET Exponents), i : Nat, first_sum : Nat,
           h0 : SUBSET (Degrees \X Int), h1 : SUBSET (Degrees \X Int)]

LevelOK(lv) ==
  /\ lv \in Levels /\ lv.i \in 0 .. Len(lv.monids)
  /\ IsPolynomial(lv.h0) /\ IsPolynomial(lv.h1)
  /\ Ideals(lv.monids)

\* The level up was made from the ideal that lv is at.
StandsOn(up, lv) ==
  /\ lv.i >= 1
  /\ \A n \in 1 .. Len(up.monids) : SmallerThan(up.monids[n], lv.monids[lv.i])

StackOK(stack) ==
  /\ stack \in Seq(Levels)
  /\ \A k \in 1 .. Len(stack) : LevelOK(stack[k])
  /\ \A k \in 2 .. Len(stack) : StandsOn(stack[k], stack[k - 1])

IInv ==
  /\ input \in Inputs /\ this_comp \in 1 .. n_components + 1
  /\ IsPolynomial(result_poincare)
  /\ status \in {"computing", "done", "interrupted"}
  /\ status = "computing" => levels # << >> /\ this_comp <= n_components
  /\ StackOK(levels)

\* The inductive invariant says that do_ideal and recurse can handle what is on the stack.
LEMMA InvariantImplies == IInv => RecursionSound
<1> SUFFICES ASSUME IInv PROVE RecursionSound
  OBVIOUS
<1>1. /\ levels \in Seq(Levels)
      /\ \A k \in 1 .. Len(levels) : LevelOK(levels[k])
      /\ \A k \in 2 .. Len(levels) : StandsOn(levels[k], levels[k - 1])
  BY DEF IInv, StackOK
<1>2. DOMAIN levels = 1 .. Len(levels) /\ Len(levels) \in Nat
  BY <1>1
<1>3. ASSUME NEW k \in 1 .. Len(levels)
      PROVE  /\ levels[k].i \in 0 .. Len(levels[k].monids) /\ Len(levels[k].monids) \in Nat
             /\ DOMAIN levels[k].monids = 1 .. Len(levels[k].monids)
             /\ IsPolynomial(levels[k].h0) /\ IsPolynomial(levels[k].h1)
             /\ \A n \in 1 .. Len(levels[k].monids) : Good(levels[k].monids[n])
  BY <1>1 DEF LevelOK, Ideals, Fitting
<1>4. TypeOK
  <2>1. ASSUME NEW k \in DOMAIN levels, NEW n \in DOMAIN levels[k].monids
        PROVE  levels[k].monids[n] \subseteq [Vars -> Nat]
    <3>1. Good(levels[k].monids[n])
      BY <1>2, <1>3
    <3>2. QED
      BY <3>1 DEF Good, Ideal, Exponents
  <2>2. ASSUME NEW k \in DOMAIN levels
        PROVE  levels[k].i \in 0 .. Len(levels[k].monids) /\ IsPolynomial(levels[k].h0) /\ IsPolynomial(levels[k].h1)
    BY <1>2, <1>3
  <2>3. QED
    BY <2>1, <2>2 DEF IInv, TypeOK
<1>5. IdealsFit
  <2>1. ASSUME NEW k \in DOMAIN levels, NEW n \in 1 .. levels[k].i
        PROVE  LET I == levels[k].monids[n]
               IN  /\ I # {} /\ I = Minimal(I) /\ Connected(I)
                   /\ ~Few(I) => /\ ~NoPivot(I) /\ Support(Pivot(I)) # {}
                                 /\ \A m \in I : ~Divides(m, Pivot(I))
    <3> DEFINE I == levels[k].monids[n]
    <3>1. n \in 1 .. Len(levels[k].monids)
      BY <1>2, <1>3
    <3>2. Good(I)
      BY <1>2, <1>3, <3>1
    <3> HIDE DEF I
    <3>3. I # {} /\ I = Minimal(I) /\ Connected(I)
      BY <3>2 DEF Good, Ideal
    <3>4. ~Few(I) => /\ ~NoPivot(I) /\ Support(Pivot(I)) # {}
                     /\ \A m \in I : ~Divides(m, Pivot(I))
      BY <3>2, FitIs
    <3>5. QED
      BY <3>3, <3>4 DEF I
  <2>2. QED
    BY <2>1 DEF IdealsFit
<1>6. PartsSmaller
  <2>1. ASSUME NEW k \in 2 .. Len(levels), NEW n \in 1 .. levels[k].i
        PROVE  SmallerThan(levels[k].monids[n], levels[k - 1].monids[levels[k - 1].i])
    <3>1. k \in 1 .. Len(levels)
      BY <1>2
    <3>2. n \in 1 .. Len(levels[k].monids)
      BY <1>3, <3>1
    <3>3. StandsOn(levels[k], levels[k - 1])
      BY <1>1
    <3>4. QED
      BY <3>2, <3>3 DEF StandsOn
  <2>2. QED
    BY <2>1 DEF PartsSmaller, SmallerThan, Boxes
<1>7. QED
  BY <1>4, <1>5, <1>6 DEF RecursionSound

-----------------------------------------------------------------------------
(* The levels that next_monideal and recurse make.                          *)

LEMMA TopLevelIs ==
  ASSUME input \in Inputs, NEW k \in 1 .. n_components
  PROVE  LevelOK(TopLevel(k))
<1> DEFINE T == input[k]
           I == Minimal(T)
           ms == Partition(I)
<1>1. /\ input \in Seq(SUBSET [Vars -> Nat]) /\ Len(input) <= Len(RowDegrees)
      /\ RowDegrees \in Seq(Nat) /\ MaxWeight \in Nat
      /\ \A j \in DOMAIN input : IsFiniteSet(input[j]) /\ Weight(LcmOf(input[j])) + RowDegrees[j] <= MaxWeight
  BY HilbertAssumption
<1>2. k \in DOMAIN input /\ k \in 1 .. Len(RowDegrees)
  BY <1>1 DEF n_components
<1>3. /\ IsFiniteSet(T) /\ T \subseteq Exponents /\ RowDegrees[k] \in Nat
      /\ Weight(LcmOf(T)) + RowDegrees[k] <= MaxWeight
  BY <1>1, <1>2 DEF Exponents
<1> HIDE DEF T
<1>4. LcmOf(T) \in Exponents /\ Within(T, LcmOf(T))
  BY <1>3, LcmIs
<1>5. Weight(LcmOf(T)) <= MaxWeight
  <2>1. Weight(LcmOf(T)) \in Nat
    BY <1>4, ReflexivePower, WeightMonotone DEF Exponents
  <2>2. QED
    BY <1>1, <1>3, <2>1
<1>6. I \in SUBSET T /\ \A m, n \in I : Divides(m, n) => m = n
  BY DEF Minimal
<1> HIDE DEF I
<1>7. Ideal(I)
  <2>1. IsFiniteSet(I)
    BY <1>3, <1>6, FS_Subset
  <2>2. QED
    BY <1>3, <1>6, <2>1, IdealIs
<1>8. Within(I, LcmOf(T))
  BY <1>4, <1>6 DEF Within
<1>9. Ideals(ms)
  BY <1>3, <1>5, <1>7, <1>8, PartsFit
<1>10. TopLevel(k) = [monids |-> ms, i |-> Len(ms), first_sum |-> Len(ms) + 1, h0 |-> Zero, h1 |-> Const(1)]
  BY DEF TopLevel, MakeMonideal, I, T
<1> HIDE DEF ms
<1>11. ms \in Seq(SUBSET Exponents) /\ Len(ms) \in Nat
  BY <1>9 DEF Ideals
<1>12. Zero \in SUBSET (Degrees \X Int) /\ Const(1) \in SUBSET (Degrees \X Int)
  BY SmallPolynomials, PolynomialIs
<1>13. TopLevel(k) \in Levels
  BY <1>10, <1>11, <1>12 DEF Levels
<1>14. /\ TopLevel(k).monids = ms /\ TopLevel(k).i = Len(ms)
       /\ TopLevel(k).h0 = Zero /\ TopLevel(k).h1 = Const(1)
  BY <1>10
<1>15. Len(ms) \in 0 .. Len(ms)
  BY <1>11
<1>16. QED
  BY <1>9, <1>13, <1>14, <1>15, SmallPolynomials DEF LevelOK

LEMMA LevelForIs ==
  ASSUME NEW I, Fitting(I), ~Few(I)
  PROVE  LevelOK(LevelFor(I)) /\ \A n \in 1 .. Len(LevelFor(I).monids) : SmallerThan(LevelFor(I).monids[n], I)
<1> DEFINE m == Pivot(I)
           S == SumWith(I, m)
           Q == QuotientBy(I, m)
           sum == Partition(S)
           quot == Partition(Q)
           ms == sum \o quot
           lv == LevelFor(I)
<1>1. Good(I) /\ Ideal(I) /\ Weight(LcmOf(I)) <= MaxWeight /\ IsFiniteSet(I) /\ I \subseteq Exponents
  BY DEF Fitting, Good, Ideal
<1>2. Mixed(I) # {}
  BY <1>1, FitIs
<1>3. PICK g, v, e : PivotOf(I, m, g, v, e)
  BY <1>1, <1>2, PivotIs
<1>4. lv = [monids |-> ms, i |-> Len(sum) + Len(quot), first_sum |-> Len(sum), h0 |-> Zero, h1 |-> Term(1, Weight(m))]
  BY DEF LevelFor
<1> HIDE DEF lv, m
<1>5. LcmOf(I) \in Exponents /\ Within(I, LcmOf(I))
  BY <1>1, LcmIs
<1>6. /\ Ideal(S) /\ Within(S, LcmOf(I)) /\ Divides(m, LcmOf(I))
      /\ \A J \in SUBSET S : Cardinality(Mixed(J)) < Cardinality(Mixed(I))
  BY <1>1, <1>3, <1>5, SumIs
<1>7. Ideal(Q) /\ Within(Q, LcmOf(I))
  BY <1>1, <1>3, <1>5, QuotIs
<1>8. \A J \in SUBSET Q : SmallerThan(J, I)
  BY <1>1, <1>3, QuotSmaller
<1> HIDE DEF S, Q
<1>9. Ideals(sum) /\ \A n \in 1 .. Len(sum) : sum[n] \in SUBSET S
  BY <1>1, <1>6, PartsFit
<1>10. Ideals(quot) /\ \A n \in 1 .. Len(quot) : quot[n] \in SUBSET Q
  BY <1>1, <1>7, PartsFit
<1> HIDE DEF sum, quot
<1>11. /\ sum \in Seq(SUBSET Exponents) /\ quot \in Seq(SUBSET Exponents)
       /\ Len(sum) \in Nat /\ Len(quot) \in Nat
  BY <1>9, <1>10 DEF Ideals
<1>12. /\ ms \in Seq(SUBSET Exponents) /\ Len(ms) = Len(sum) + Len(quot)
       /\ \A n \in 1 .. Len(ms) : ms[n] = IF n <= Len(sum) THEN sum[n] ELSE quot[n - Len(sum)]
  BY <1>11
<1> HIDE DEF ms
<1>13. ASSUME NEW n \in 1 .. Len(ms) PROVE Fitting(ms[n]) /\ SmallerThan(ms[n], I)
  <2>1. CASE n <= Len(sum)
    <3>1. n \in 1 .. Len(sum) /\ ms[n] = sum[n]
      BY <1>11, <1>12, <2>1
    <3>2. Fitting(ms[n]) /\ ms[n] \in SUBSET S
      BY <1>9, <3>1 DEF Ideals
    <3>3. QED
      BY <1>6, <3>2 DEF SmallerThan
  <2>2. CASE ~(n <= Len(sum))
    <3>1. n - Len(sum) \in 1 .. Len(quot) /\ ms[n] = quot[n - Len(sum)]
      BY <1>11, <1>12, <2>2
    <3>2. Fitting(ms[n]) /\ ms[n] \in SUBSET Q
      BY <1>10, <3>1 DEF Ideals
    <3>3. QED
      BY <1>8, <3>2
  <2>3. QED
    BY <2>1, <2>2
<1>14. Ideals(ms)
  BY <1>12, <1>13 DEF Ideals
<1>15. IsPolynomial(Term(1, Weight(m)))
  <2>1. m \in Exponents
    BY <1>3, ReflexivePower DEF PivotOf
  <2>2. Weight(m) \in Nat /\ Weight(LcmOf(I)) \in Nat /\ Weight(m) <= Weight(LcmOf(I))
    BY <1>5, <1>6, <2>1, WeightMonotone DEF Exponents
  <2>3. Weight(m) \in Degrees
    BY <1>1, <2>2, HilbertAssumption DEF Degrees
  <2>4. QED
    BY <2>3, SmallPolynomials
<1>16. lv \in Levels
  <2>1. Zero \in SUBSET (Degrees \X Int) /\ Term(1, Weight(m)) \in SUBSET (Degrees \X Int)
    BY <1>15, SmallPolynomials, PolynomialIs
  <2>2. Len(sum) + Len(quot) \in Nat
    BY <1>11
  <2>3. QED
    BY <1>4, <1>11, <1>12, <2>1, <2>2 DEF Levels
<1>17. lv.monids = ms /\ lv.i = Len(ms) /\ lv.h0 = Zero /\ lv.h1 = Term(1, Weight(m))
  BY <1>4, <1>12
<1>18. lv.i \in 0 .. Len(ms)
  BY <1>11, <1>12, <1>17
<1>19. LevelOK(lv)
  BY <1>14, <1>15, <1>16, <1>17, <1>18, SmallPolynomials DEF LevelOK
<1>20. QED
  BY <1>13, <1>17, <1>19 DEF lv

LEMMA SwappedIs ==
  ASSUME NEW lv, LevelOK(lv)
  PROVE  LevelOK(Swapped(lv)) /\ Swapped(lv).monids = lv.monids /\ Swapped(lv).i = lv.i
<1>1. CASE lv.i = lv.first_sum
  <2>1. /\ lv = [monids |-> lv.monids, i |-> lv.i, first_sum |-> lv.first_sum, h0 |-> lv.h0, h1 |-> lv.h1]
        /\ lv.monids \in Seq(SUBSET Exponents) /\ lv.i \in Nat /\ lv.first_sum \in Nat
        /\ lv.h0 \in SUBSET (Degrees \X Int) /\ lv.h1 \in SUBSET (Degrees \X Int)
    BY DEF LevelOK, Levels
  <2>2. Swapped(lv) = [lv EXCEPT !.h0 = lv.h1, !.h1 = Const(1)]
    BY <1>1 DEF Swapped
  <2>3. Swapped(lv) = [monids |-> lv.monids, i |-> lv.i, first_sum |-> lv.first_sum, h0 |-> lv.h1, h1 |-> Const(1)]
    BY <2>1, <2>2
  <2>4. Const(1) \in SUBSET (Degrees \X Int) /\ IsPolynomial(Const(1))
    BY SmallPolynomials, PolynomialIs
  <2>5. Swapped(lv) \in Levels
    BY <2>1, <2>3, <2>4 DEF Levels
  <2>6. /\ Swapped(lv).monids = lv.monids /\ Swapped(lv).i = lv.i
        /\ Swapped(lv).h0 = lv.h1 /\ Swapped(lv).h1 = Const(1)
    BY <2>3
  <2>7. QED
    BY <2>4, <2>5, <2>6 DEF LevelOK
<1>2. CASE lv.i # lv.first_sum
  BY <1>2 DEF Swapped
<1>3. QED
  BY <1>1, <1>2

\* A level whose next ideal is done.
LEMMA MultipliedIs ==
  ASSUME NEW lv, LevelOK(lv), lv.i >= 1, NEW p, IsPolynomial(p)
  PROVE  /\ LevelOK([lv EXCEPT !.h1 = Times(@, p), !.i = @ - 1])
         /\ [lv EXCEPT !.h1 = Times(@, p), !.i = @ - 1].monids = lv.monids
<1> DEFINE l2 == [lv EXCEPT !.h1 = Times(@, p), !.i = @ - 1]
<1>1. /\ lv = [monids |-> lv.monids, i |-> lv.i, first_sum |-> lv.first_sum, h0 |-> lv.h0, h1 |-> lv.h1]
      /\ lv.monids \in Seq(SUBSET Exponents) /\ lv.i \in Nat /\ lv.first_sum \in Nat
      /\ lv.h0 \in SUBSET (Degrees \X Int) /\ lv.i \in 0 .. Len(lv.monids)
  BY DEF LevelOK, Levels
<1>2. IsPolynomial(Times(lv.h1, p)) /\ Times(lv.h1, p) \in SUBSET (Degrees \X Int)
  <2>1. IsPolynomial(Times(lv.h1, p))
    BY PolynomialIs, TimesIs DEF LevelOK
  <2>2. QED
    BY <2>1, PolynomialIs
<1>3. l2 = [monids |-> lv.monids, i |-> lv.i - 1, first_sum |-> lv.first_sum, h0 |-> lv.h0, h1 |-> Times(lv.h1, p)]
  <2>1. l2 = [lv EXCEPT !.h1 = Times(lv.h1, p), !.i = lv.i - 1]
    OBVIOUS
  <2> HIDE DEF l2
  <2>2. QED
    BY <1>1, <1>2, <2>1
<1>4. lv.i - 1 \in Nat /\ lv.i - 1 \in 0 .. Len(lv.monids)
  BY <1>1
<1> HIDE DEF l2
<1>5. l2 \in Levels
  BY <1>1, <1>2, <1>3, <1>4 DEF Levels
<1>6. l2.monids = lv.monids /\ l2.i = lv.i - 1 /\ l2.h0 = lv.h0 /\ l2.h1 = Times(lv.h1, p)
  BY <1>3
<1>7. LevelOK(l2)
  BY <1>2, <1>4, <1>5, <1>6 DEF LevelOK
<1>8. QED
  BY <1>6, <1>7 DEF l2

-----------------------------------------------------------------------------
(* The stack.                                                               *)

LEMMA OneLevel ==
  ASSUME NEW lv, LevelOK(lv)
  PROVE  StackOK(<<lv>>) /\ <<lv>> # << >>
<1>1. lv \in Levels
  BY DEF LevelOK
<1>2. <<lv>> \in Seq(Levels) /\ Len(<<lv>>) = 1 /\ <<lv>>[1] = lv
  BY <1>1
<1>3. \A k \in 1 .. Len(<<lv>>) : LevelOK(<<lv>>[k])
  BY <1>2
<1>4. \A k \in 2 .. Len(<<lv>>) : StandsOn(<<lv>>[k], <<lv>>[k - 1])
  BY <1>2
<1>5. QED
  BY <1>2, <1>3, <1>4 DEF StackOK

\* The current level goes on, with the ideals it has.
LEMMA ReplaceLevel ==
  ASSUME NEW s, StackOK(s), s # << >>, NEW lv, LevelOK(lv), lv.monids = s[Len(s)].monids
  PROVE  StackOK([s EXCEPT ![Len(s)] = lv]) /\ [s EXCEPT ![Len(s)] = lv] # << >>
<1> DEFINE L == Len(s)
           s2 == [s EXCEPT ![L] = lv]
<1>1. s \in Seq(Levels) /\ L \in Nat /\ L # 0 /\ DOMAIN s = 1 .. L /\ lv \in Levels
  BY DEF StackOK, LevelOK
<1>2. /\ s2 \in Seq(Levels) /\ Len(s2) = L
      /\ \A k \in 1 .. L : s2[k] = IF k = L THEN lv ELSE s[k]
  BY <1>1
<1> HIDE DEF s2
<1>3. \A k \in 1 .. L : LevelOK(s2[k])
  BY <1>2 DEF StackOK
<1>4. ASSUME NEW k \in 2 .. L PROVE StandsOn(s2[k], s2[k - 1])
  <2>1. k \in 1 .. L /\ k - 1 \in 1 .. L /\ k - 1 # L
    BY <1>1
  <2>2. s2[k - 1] = s[k - 1] /\ s2[k].monids = s[k].monids
    BY <1>2, <2>1
  <2>3. StandsOn(s[k], s[k - 1])
    BY DEF StackOK
  <2>4. QED
    BY <2>2, <2>3 DEF StandsOn
<1>5. StackOK(s2)
  BY <1>2, <1>3, <1>4 DEF StackOK
<1>6. s2 # << >>
  BY <1>1, <1>2
<1>7. QED
  BY <1>5, <1>6 DEF s2

LEMMA PushLevel ==
  ASSUME NEW s, StackOK(s), s # << >>, NEW lv, LevelOK(lv), StandsOn(lv, s[Len(s)])
  PROVE  StackOK(Append(s, lv)) /\ Append(s, lv) # << >>
<1> DEFINE L == Len(s)
           s2 == Append(s, lv)
<1>1. s \in Seq(Levels) /\ L \in Nat /\ L # 0 /\ lv \in Levels
  BY DEF StackOK, LevelOK
<1>2. /\ s2 \in Seq(Levels) /\ Len(s2) = L + 1
      /\ \A k \in 1 .. L + 1 : s2[k] = IF k = L + 1 THEN lv ELSE s[k]
  BY <1>1
<1> HIDE DEF s2
<1>3. ASSUME NEW k \in 1 .. L + 1 PROVE LevelOK(s2[k])
  <2>1. CASE k = L + 1
    BY <1>2, <2>1
  <2>2. CASE k # L + 1
    <3>1. k \in 1 .. L /\ s2[k] = s[k]
      BY <1>1, <1>2, <2>2
    <3>2. QED
      BY <3>1 DEF StackOK
  <2>3. QED
    BY <2>1, <2>2
<1>4. ASSUME NEW k \in 2 .. L + 1 PROVE StandsOn(s2[k], s2[k - 1])
  <2>1. k - 1 \in 1 .. L + 1 /\ k - 1 # L + 1 /\ k \in 1 .. L + 1
    BY <1>1
  <2>2. s2[k - 1] = s[k - 1]
    BY <1>2, <2>1
  <2>3. CASE k = L + 1
    <3>1. k - 1 = L /\ s2[k] = lv
      BY <1>1, <1>2, <2>1, <2>3
    <3>2. QED
      BY <2>2, <3>1
  <2>4. CASE k # L + 1
    <3>1. k \in 2 .. L /\ s2[k] = s[k]
      BY <1>1, <1>2, <2>1, <2>4
    <3>2. StandsOn(s[k], s[k - 1])
      BY <3>1 DEF StackOK
    <3>3. QED
      BY <2>2, <3>1, <3>2
  <2>5. QED
    BY <2>3, <2>4
<1>5. StackOK(s2)
  BY <1>2, <1>3, <1>4 DEF StackOK
<1>6. s2 # << >>
  BY <1>1, <1>2
<1>7. QED
  BY <1>5, <1>6 DEF s2

LEMMA PopLevel ==
  ASSUME NEW s, StackOK(s), Len(s) > 1
  PROVE  LET n == Len(s) - 1
             s2 == SubSeq(s, 1, n)
         IN  StackOK(s2) /\ s2 # << >> /\ Len(s2) = n /\ s2[n] = s[n] /\ s[n].i >= 1
             /\ n \in Nat /\ DOMAIN s2 = 1 .. n /\ n \in 1 .. n
<1> DEFINE n == Len(s) - 1
           s2 == SubSeq(s, 1, n)
<1>1. s \in Seq(Levels) /\ Len(s) \in Nat /\ n \in Nat /\ n # 0 /\ n < Len(s)
  BY DEF StackOK
<1>2. s2 \in Seq(Levels) /\ Len(s2) = n /\ DOMAIN s2 = 1 .. n /\ \A k \in 1 .. n : s2[k] = s[k]
  <2>1. 1 \in 1 .. Len(s) + 1 /\ n \in 0 .. Len(s)
    BY <1>1
  <2>2. QED
    BY <1>1, <2>1
<1> HIDE DEF s2
<1>3. \A k \in 1 .. n : LevelOK(s2[k])
  <2>1. \A k \in 1 .. n : k \in 1 .. Len(s)
    BY <1>1
  <2>2. QED
    BY <1>2, <2>1 DEF StackOK
<1>4. ASSUME NEW k \in 2 .. n PROVE StandsOn(s2[k], s2[k - 1])
  <2>1. k \in 2 .. Len(s) /\ k \in 1 .. n /\ k - 1 \in 1 .. n
    BY <1>1
  <2>2. StandsOn(s[k], s[k - 1])
    BY <2>1 DEF StackOK
  <2>3. QED
    BY <1>2, <2>1, <2>2
<1>5. s[n].i >= 1
  <2>1. Len(s) \in 2 .. Len(s)
    BY <1>1
  <2>2. StandsOn(s[Len(s)], s[n])
    BY <2>1 DEF StackOK
  <2>3. QED
    BY <2>2 DEF StandsOn
<1>6. s2 # << >> /\ n \in 1 .. n
  BY <1>1, <1>2
<1>7. StackOK(s2)
  BY <1>2, <1>3, <1>4 DEF StackOK
<1>8. QED
  BY <1>1, <1>2, <1>5, <1>6, <1>7 DEF s2

-----------------------------------------------------------------------------
(* The steps.                                                               *)

LEMMA InitInvariant == Init => IInv
<1> SUFFICES ASSUME Init PROVE IInv
  OBVIOUS
<1>1. /\ input \in Inputs /\ this_comp = 1 /\ result_poincare = Zero
      /\ IF n_components = 0 THEN levels = << >> /\ status = "done"
                             ELSE levels = <<TopLevel(1)>> /\ status = "computing"
  BY DEF Init
<1>2. n_components \in Nat
  BY <1>1, HilbertAssumption DEF n_components
<1>3. this_comp \in 1 .. n_components + 1 /\ IsPolynomial(result_poincare)
  BY <1>1, <1>2, SmallPolynomials
<1>4. CASE n_components = 0
  <2>1. StackOK(<< >>)
    BY DEF StackOK
  <2>2. QED
    BY <1>1, <1>3, <1>4, <2>1 DEF IInv
<1>5. CASE n_components # 0
  <2>1. 1 \in 1 .. n_components
    BY <1>2, <1>5
  <2>2. StackOK(levels) /\ levels # << >>
    BY <1>1, <1>5, <2>1, TopLevelIs, OneLevel
  <2>3. this_comp <= n_components
    BY <1>1, <2>1
  <2>4. QED
    BY <1>1, <1>3, <1>5, <2>2, <2>3 DEF IInv
<1>6. QED
  BY <1>4, <1>5

\* What a step that computes finds.
LEMMA CurrentIs ==
  ASSUME IInv, Computing
  PROVE  /\ levels # << >> /\ StackOK(levels) /\ Len(levels) \in Nat /\ Len(levels) # 0
         /\ LevelOK(current) /\ DOMAIN levels = 1 .. Len(levels)
         /\ current.i >= 1 => Fitting(current.monids[current.i])
<1>1. levels # << >> /\ StackOK(levels) /\ levels \in Seq(Levels)
  BY DEF IInv, Computing, StackOK
<1>2. Len(levels) \in Nat /\ Len(levels) # 0 /\ DOMAIN levels = 1 .. Len(levels)
  BY <1>1
<1>3. LevelOK(current)
  BY <1>1, <1>2 DEF StackOK, current
<1>4. ASSUME current.i >= 1 PROVE Fitting(current.monids[current.i])
  <2>1. current.i \in 1 .. Len(current.monids)
    BY <1>3, <1>4 DEF LevelOK
  <2>2. QED
    BY <1>3, <2>1 DEF LevelOK, Ideals
<1>5. QED
  BY <1>1, <1>2, <1>3, <1>4

LEMMA DoFewInvariant ==
  ASSUME IInv, DoFew
  PROVE  IInv'
<1> DEFINE I == current.monids[current.i]
           lv == Swapped(current)
           F == FewNumerator(I)
           l2 == [lv EXCEPT !.h1 = Times(@, F), !.i = @ - 1]
<1>1. /\ Computing /\ current.i >= 1
      /\ levels' = [levels EXCEPT ![Len(levels)] = l2]
      /\ UNCHANGED <<input, this_comp, result_poincare, status>>
  BY DEF DoFew, Multiply
<1>2. /\ levels # << >> /\ StackOK(levels) /\ LevelOK(current)
  BY <1>1, CurrentIs
<1>3. LevelOK(lv) /\ lv.monids = current.monids /\ lv.i = current.i
  BY <1>2, SwappedIs
<1>4. IsPolynomial(F)
  BY FewIs
<1> HIDE DEF lv, F
<1>5. LevelOK(l2) /\ l2.monids = current.monids
  BY <1>1, <1>3, <1>4, MultipliedIs
<1> HIDE DEF l2
<1>6. StackOK(levels') /\ levels' # << >>
  BY <1>1, <1>2, <1>5, ReplaceLevel DEF current
<1>7. QED
  BY <1>1, <1>6 DEF IInv, n_components

LEMMA RecurseInvariant ==
  ASSUME IInv, Recurse
  PROVE  IInv'
<1> DEFINE I == current.monids[current.i]
           lv == Swapped(current)
           s == [levels EXCEPT ![Len(levels)] = lv]
           up == LevelFor(I)
<1>1. /\ Computing /\ current.i >= 1 /\ ~Few(I)
      /\ levels' = Append(s, up)
      /\ UNCHANGED <<input, this_comp, result_poincare, status>>
  BY DEF Recurse
<1>2. /\ levels # << >> /\ StackOK(levels) /\ LevelOK(current) /\ Fitting(I)
      /\ Len(levels) \in Nat /\ Len(levels) # 0 /\ DOMAIN levels = 1 .. Len(levels)
  BY <1>1, CurrentIs
<1>3. LevelOK(lv) /\ lv.monids = current.monids /\ lv.i = current.i
  BY <1>2, SwappedIs
<1>4. LevelOK(up) /\ \A n \in 1 .. Len(up.monids) : SmallerThan(up.monids[n], I)
  BY <1>1, <1>2, LevelForIs
<1> HIDE DEF lv, up
<1>5. StandsOn(up, lv)
  BY <1>1, <1>3, <1>4 DEF StandsOn
<1>6. StackOK(s) /\ s # << >>
  BY <1>2, <1>3, ReplaceLevel DEF current
<1>7. s[Len(s)] = lv
  <2>1. levels \in Seq(Levels) /\ lv \in Levels
    BY <1>2, <1>3 DEF StackOK, LevelOK
  <2>2. Len(s) = Len(levels) /\ Len(levels) \in 1 .. Len(levels)
    BY <1>2, <2>1
  <2>3. QED
    BY <1>2, <2>2
<1> HIDE DEF s
<1>8. StackOK(levels') /\ levels' # << >>
  BY <1>1, <1>4, <1>5, <1>6, <1>7, PushLevel
<1>9. QED
  BY <1>1, <1>8 DEF IInv, n_components

LEMMA OneUpInvariant ==
  ASSUME IInv, OneUp
  PROVE  IInv'
<1> DEFINE lv == Swapped(current)
           f == Plus(lv.h0, lv.h1)
           n == Len(levels) - 1
           s == SubSeq(levels, 1, n)
           l2 == [s[n] EXCEPT !.h1 = Times(@, f), !.i = @ - 1]
<1>1. /\ Computing /\ Len(levels) > 1
      /\ levels' = [s EXCEPT ![n].h1 = Times(@, f), ![n].i = @ - 1]
      /\ UNCHANGED <<input, this_comp, result_poincare, status>>
  BY DEF OneUp
<1>2. /\ StackOK(levels) /\ LevelOK(current)
  BY <1>1, CurrentIs
<1>3. LevelOK(lv)
  BY <1>2, SwappedIs
<1>4. IsPolynomial(f)
  BY <1>3, PolynomialIs, PlusMinusAre DEF LevelOK
<1>5. /\ StackOK(s) /\ s # << >> /\ Len(s) = n /\ s[n] = levels[n] /\ s[n].i >= 1
      /\ n \in Nat /\ DOMAIN s = 1 .. n /\ n \in 1 .. n
  BY <1>1, <1>2, PopLevel
<1> HIDE DEF s, f, n
<1>6. LevelOK(s[n])
  BY <1>5 DEF StackOK
<1>7. LevelOK(l2) /\ l2.monids = s[n].monids
  BY <1>4, <1>5, <1>6, MultipliedIs
<1>8. levels' = [s EXCEPT ![n] = l2]
  BY <1>1, <1>5
<1> HIDE DEF l2
<1>9. StackOK(levels') /\ levels' # << >>
  BY <1>5, <1>7, <1>8, ReplaceLevel
<1>10. QED
  BY <1>1, <1>9 DEF IInv, n_components

LEMMA NextComponentInvariant ==
  ASSUME IInv, NextComponent
  PROVE  IInv'
<1> DEFINE row == Term(1, RowDegrees[this_comp])
           f == Times(Plus(current.h0, current.h1), row)
<1>1. /\ Computing /\ result_poincare' = Plus(result_poincare, f) /\ this_comp' = this_comp + 1 /\ input' = input
      /\ IF this_comp = n_components
           THEN status' = "done" /\ UNCHANGED levels
           ELSE status' = status /\ levels' = <<TopLevel(this_comp + 1)>>
  BY DEF NextComponent
<1>2. /\ StackOK(levels) /\ LevelOK(current)
  BY <1>1, CurrentIs
<1>3. /\ input \in Inputs /\ this_comp \in 1 .. n_components + 1 /\ IsPolynomial(result_poincare)
      /\ this_comp <= n_components /\ status \in {"computing", "done", "interrupted"}
  BY <1>1 DEF IInv, Computing
<1>4. n_components \in Nat
  BY <1>3, HilbertAssumption DEF n_components
<1>5. IsPolynomial(Plus(current.h0, current.h1))
  BY <1>2, PolynomialIs, PlusMinusAre DEF LevelOK
<1>6. IsPolynomial(f)
  BY <1>5, SmallPolynomials, TimesIs
<1> HIDE DEF f
<1>7. IsPolynomial(result_poincare')
  BY <1>1, <1>3, <1>6, PolynomialIs, PlusMinusAre
<1>8. n_components' = n_components
  BY <1>1 DEF n_components
<1>9. this_comp' \in 1 .. n_components' + 1
  BY <1>1, <1>3, <1>4, <1>8
<1>10. CASE this_comp = n_components
  BY <1>1, <1>2, <1>3, <1>7, <1>9, <1>10 DEF IInv
<1>11. CASE this_comp # n_components
  <2>1. this_comp + 1 \in 1 .. n_components
    BY <1>3, <1>4, <1>11
  <2>2. StackOK(levels') /\ levels' # << >>
    BY <1>1, <1>3, <1>11, <2>1, TopLevelIs, OneLevel
  <2>3. this_comp' <= n_components'
    BY <1>1, <1>8, <2>1
  <2>4. QED
    BY <1>1, <1>3, <1>7, <1>9, <1>11, <2>2, <2>3 DEF IInv
<1>12. QED
  BY <1>10, <1>11

LEMMA NextInvariant == IInv /\ [Next]_vars => IInv'
<1> SUFFICES ASSUME IInv, [Next]_vars PROVE IInv'
  OBVIOUS
<1>1. CASE DoFew
  BY <1>1, DoFewInvariant
<1>2. CASE Recurse
  BY <1>2, RecurseInvariant
<1>3. CASE OneUp
  BY <1>3, OneUpInvariant
<1>4. CASE NextComponent
  BY <1>4, NextComponentInvariant
<1>5. CASE Interrupt
  BY <1>5 DEF IInv, Interrupt, n_components
<1>6. CASE UNCHANGED vars
  BY <1>6 DEF IInv, vars, n_components
<1>7. QED
  BY <1>1, <1>2, <1>3, <1>4, <1>5, <1>6 DEF Next, Step

\* Every level of the stack holds ideals that do_ideal can take, with a numerator that fits,
\* and stands on the ideal that the level below it is at.
THEOREM HilbertInvariant == Spec => []IInv
<1>1. Init => IInv
  BY InitInvariant
<1>2. IInv /\ [Next]_vars => IInv'
  BY NextInvariant
<1>3. QED
  BY <1>1, <1>2, PTL DEF Spec

\* For every number of variables and all lead monomials: the stack of calc never holds an
\* ideal that do_ideal or recurse cannot handle, find_pivot always finds a pivot that is in
\* no ideal it is found for, and recurse makes smaller ideals only.
THEOREM RecursionAlwaysSound == Spec => []RecursionSound
<1>1. Spec => []IInv
  BY HilbertInvariant
<1>2. IInv => RecursionSound
  BY InvariantImplies
<1>3. QED
  BY <1>1, <1>2, PTL
=============================================================================
