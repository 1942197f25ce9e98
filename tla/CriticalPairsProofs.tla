-------------------------- MODULE CriticalPairsProofs --------------------------
(***************************************************************************)
(* Proofs about CriticalPairs and what it is built from.                   *)
(***************************************************************************)
EXTENDS CriticalPairs, FiniteSetTheorems, FunctionTheorems, WellFoundedInduction, TLAPS

-----------------------------------------------------------------------------
(* Induction over intervals, and functions defined by recursion on them.    *)

\* A set of naturals has a least element.
LEMMA LeastNat ==
  ASSUME NEW T \in SUBSET Nat, T # {}
  PROVE  \E m \in T : \A x \in T : m <= x
<1> DEFINE R == OpToRel(<, Nat)
<1>1. IsWellFoundedOn(R, Nat)
  BY NatLessThanWellFounded
<1> HIDE DEF R
<1>2. PICK m \in T : \A x \in T : ~(<<x, m>> \in R)
  BY <1>1, WFMin
<1>3. \A x \in T : ~(x < m)
  BY <1>2 DEF R, OpToRel
<1>4. QED
  BY <1>3

\* What holds of zero and is handed on from each number to the next holds up to the bound.
LEMMA Inducts ==
  ASSUME NEW K \in Nat, NEW T, 0 \in T, \A k \in 1 .. K : k - 1 \in T => k \in T
  PROVE  \A k \in 0 .. K : k \in T
<1> SUFFICES ASSUME NEW k \in 0 .. K, k \notin T PROVE FALSE
  OBVIOUS
<1> DEFINE U == {n \in 0 .. K : n \notin T}
<1>1. U \in SUBSET Nat /\ U # {}
  OBVIOUS
<1> HIDE DEF U
<1>2. PICK m \in U : \A x \in U : m <= x
  BY <1>1, LeastNat
<1>3. m \in 0 .. K /\ m \notin T /\ m # 0
  BY <1>2 DEF U
<1>4. m - 1 \in 0 .. K /\ ~(m <= m - 1)
  BY <1>3
<1>5. m - 1 \in T
  BY <1>2, <1>4 DEF U
<1>6. QED
  BY <1>3, <1>5

\* There is a function with given first value and given steps.
Iteration(f, D, a, K, G) == f \in [0 .. K -> D] /\ f[0] = a /\ \A i \in 1 .. K : f[i] = G[i][f[i - 1]]

LEMMA Iterates ==
  ASSUME NEW D, NEW a \in D, NEW K \in Nat, NEW G \in [1 .. K -> [D -> D]]
  PROVE  \E f : Iteration(f, D, a, K, G)
<1> DEFINE T == {k \in 0 .. K : \E f \in [0 .. k -> D] : f[0] = a /\ \A i \in 1 .. k : f[i] = G[i][f[i - 1]]}
<1>1. 0 \in T
  <2> DEFINE f == [i \in 0 .. 0 |-> a]
  <2>1. f \in [0 .. 0 -> D] /\ f[0] = a /\ \A i \in 1 .. 0 : f[i] = G[i][f[i - 1]]
    OBVIOUS
  <2> HIDE DEF f
  <2>2. 0 \in 0 .. K
    OBVIOUS
  <2>3. QED
    BY <2>1, <2>2
<1>2. ASSUME NEW k \in 1 .. K, k - 1 \in T PROVE k \in T
  <2>1. PICK f \in [0 .. k - 1 -> D] : f[0] = a /\ \A i \in 1 .. k - 1 : f[i] = G[i][f[i - 1]]
    BY <1>2
  <2> DEFINE g == [i \in 0 .. k |-> IF i = k THEN G[k][f[k - 1]] ELSE f[i]]
  <2>2. G[k][f[k - 1]] \in D
    <3>1. G[k] \in [D -> D] /\ f[k - 1] \in D
      BY <2>1
    <3>2. QED
      BY <3>1
  <2>3. g \in [0 .. k -> D]
    BY <2>1, <2>2
  <2>4. g[0] = a
    BY <2>1
  <2>5. ASSUME NEW i \in 1 .. k PROVE g[i] = G[i][g[i - 1]]
    <3>1. g[i - 1] = f[i - 1]
      OBVIOUS
    <3>2. i # k => i \in 1 .. k - 1 /\ g[i] = f[i]
      OBVIOUS
    <3>3. g[k] = G[k][f[k - 1]]
      OBVIOUS
    <3>4. QED
      BY <2>1, <3>1, <3>2, <3>3
  <2> HIDE DEF g
  <2>6. k \in 0 .. K
    OBVIOUS
  <2>7. QED
    BY <2>3, <2>4, <2>5, <2>6
<1> HIDE DEF T
<1>3. K \in T
  <2>1. \A k \in 0 .. K : k \in T
    BY <1>1, <1>2, Inducts
  <2>2. QED
    BY <2>1
<1>4. QED
  BY <1>3 DEF T, Iteration

-----------------------------------------------------------------------------
(* Monomials.                                                               *)

\* More of a variable weighs more.
LEMMA Heavier ==
  ASSUME NEW x \in Nat, NEW y \in Nat, NEW w \in Nat \ {0}
  PROVE  /\ x * w \in Nat
         /\ x <= y => x * w <= y * w
         /\ x < y => x * w < y * w
<1>1. \A p, q \in Nat : p * q \in Nat
  OBVIOUS
<1>2. ASSUME x <= y PROVE y * w = x * w + (y - x) * w /\ (y - x) * w \in Nat
  BY <1>1, <1>2
<1>3. ASSUME x < y PROVE (y - x) * w >= 1
  <2>1. y - x \in Nat \ {0}
    BY <1>3
  <2>2. \A p, q \in Nat \ {0} : p * q >= 1
    OBVIOUS
  <2>3. QED
    BY <2>1, <2>2
<1>4. QED
  BY <1>1, <1>2, <1>3

\* The weight is a sum over the variables.
LEMMA WeightSums ==
  ASSUME NEW a \in [Vars -> Nat]
  PROVE  \E f \in [0 .. NVars -> Nat] :
           /\ f[0] = 0 /\ \A v \in Vars : f[v] = f[v - 1] + a[v] * Weights[v]
           /\ Weight(a) = f[NVars]
<1> DEFINE P(f) == f = [v \in 0 .. NVars |-> IF v = 0 THEN 0 ELSE f[v - 1] + a[v] * Weights[v]]
           G == [v \in 1 .. NVars |-> [x \in Nat |-> x + a[v] * Weights[v]]]
<1>1. NVars \in Nat /\ Vars = 1 .. NVars /\ \A v \in Vars : a[v] * Weights[v] \in Nat
  BY MonomialAssumption, Heavier DEF Vars
<1>2. G \in [1 .. NVars -> [Nat -> Nat]]
  BY <1>1
<1>3. \A v \in 1 .. NVars : \A x \in Nat : G[v][x] = x + a[v] * Weights[v]
  OBVIOUS
<1> HIDE DEF G
<1>4. PICK f : f \in [0 .. NVars -> Nat] /\ f[0] = 0 /\ \A i \in 1 .. NVars : f[i] = G[i][f[i - 1]]
  <2>1. 0 \in Nat
    OBVIOUS
  <2>2. \E f : Iteration(f, Nat, 0, NVars, G)
    BY <1>1, <1>2, <2>1, Iterates
  <2>3. QED
    BY <2>2 DEF Iteration
<1>5. ASSUME NEW v \in 1 .. NVars PROVE f[v] = f[v - 1] + a[v] * Weights[v]
  <2>1. f[v - 1] \in Nat
    BY <1>1, <1>4
  <2>2. QED
    BY <1>3, <1>4, <2>1
<1>6. P(f)
  BY <1>1, <1>4, <1>5
<1> DEFINE g == CHOOSE h : P(h)
<1>7. P(g)
  <2> HIDE DEF P
  <2>1. QED
    BY <1>6
<1>8. Weight(a) = g[NVars]
  BY DEF Weight
<1> HIDE DEF g
<1>9. g[0] = 0 /\ \A v \in 1 .. NVars : g[v] = g[v - 1] + a[v] * Weights[v]
  BY <1>1, <1>7
<1>10. g \in [0 .. NVars -> Nat]
  <2> DEFINE T == {k \in 0 .. NVars : g[k] = f[k]}
  <2>1. 0 \in T
    BY <1>1, <1>4, <1>9
  <2>2. \A k \in 1 .. NVars : k - 1 \in T => k \in T
    BY <1>1, <1>5, <1>9
  <2> HIDE DEF T
  <2>3. \A k \in 0 .. NVars : k \in T
    BY <1>1, <2>1, <2>2, Inducts
  <2>4. \A k \in 0 .. NVars : g[k] \in Nat
    BY <1>4, <2>3 DEF T
  <2>5. QED
    BY <1>7, <2>4
<1>11. QED
  BY <1>1, <1>8, <1>9, <1>10

\* A divisor weighs less, a proper divisor properly less.
LEMMA WeightMonotone ==
  ASSUME NEW a \in [Vars -> Nat], NEW b \in [Vars -> Nat], Divides(a, b)
  PROVE  Weight(a) \in Nat /\ Weight(b) \in Nat /\ Weight(a) <= Weight(b) /\ (a # b => Weight(a) < Weight(b))
<1>1. PICK f \in [0 .. NVars -> Nat] :
           /\ f[0] = 0 /\ \A v \in Vars : f[v] = f[v - 1] + a[v] * Weights[v]
           /\ Weight(a) = f[NVars]
  BY WeightSums
<1>2. PICK g \in [0 .. NVars -> Nat] :
           /\ g[0] = 0 /\ \A v \in Vars : g[v] = g[v - 1] + b[v] * Weights[v]
           /\ Weight(b) = g[NVars]
  BY WeightSums
<1>3. NVars \in Nat /\ Vars = 1 .. NVars
  BY MonomialAssumption DEF Vars
<1> DEFINE T == {k \in 0 .. NVars : f[k] <= g[k] /\ ((\E v \in 1 .. k : a[v] # b[v]) => f[k] < g[k])}
<1>4. 0 \in T
  BY <1>1, <1>2, <1>3
<1>5. ASSUME NEW k \in 1 .. NVars, k - 1 \in T PROVE k \in T
  <2> DEFINE x == a[k] * Weights[k]
             y == b[k] * Weights[k]
  <2>1. a[k] \in Nat /\ b[k] \in Nat /\ a[k] <= b[k] /\ Weights[k] \in Nat \ {0}
    BY <1>3, MonomialAssumption DEF Divides
  <2>2. x \in Nat /\ y \in Nat /\ x <= y /\ (a[k] # b[k] => x < y)
    <3>1. /\ x \in Nat /\ y \in Nat
          /\ a[k] <= b[k] => x <= y
          /\ a[k] < b[k] => x < y
      BY <2>1, Heavier
    <3>2. QED
      BY <2>1, <3>1
  <2>3. f[k] = f[k - 1] + x /\ g[k] = g[k - 1] + y /\ f[k - 1] \in Nat /\ g[k - 1] \in Nat
    BY <1>1, <1>2, <1>3
  <2> HIDE DEF x, y
  <2>4. f[k] <= g[k]
    BY <1>5, <2>2, <2>3
  <2>5. ASSUME NEW v \in 1 .. k, a[v] # b[v] PROVE f[k] < g[k]
    <3>1. v # k => v \in 1 .. k - 1
      OBVIOUS
    <3>2. v # k => f[k - 1] < g[k - 1]
      BY <1>5, <2>5, <3>1
    <3>3. f[k - 1] <= g[k - 1]
      BY <1>5
    <3>4. CASE v # k
      BY <2>2, <2>3, <3>2, <3>4
    <3>5. CASE v = k
      BY <2>2, <2>3, <2>5, <3>3, <3>5
    <3>6. QED
      BY <3>4, <3>5
  <2>6. QED
    BY <2>4, <2>5
<1> HIDE DEF T
<1>6. NVars \in T
  <2>1. \A k \in 0 .. NVars : k \in T
    BY <1>3, <1>4, <1>5, Inducts
  <2>2. QED
    BY <1>3, <2>1
<1>7. f[NVars] <= g[NVars] /\ ((\E v \in 1 .. NVars : a[v] # b[v]) => f[NVars] < g[NVars])
  BY <1>6 DEF T
<1>8. a # b => \E v \in 1 .. NVars : a[v] # b[v]
  BY <1>3
<1>9. f[NVars] \in Nat /\ g[NVars] \in Nat
  BY <1>1, <1>2, <1>3
<1>10. QED
  BY <1>1, <1>2, <1>7, <1>8, <1>9

-----------------------------------------------------------------------------
(* Orders.                                                                  *)

TotalOn(S, R) ==
  /\ \A x \in S : <<x, x>> \notin R
  /\ \A x, y \in S : x = y \/ <<x, y>> \in R \/ <<y, x>> \in R
  /\ \A x, y, z \in S : <<x, y>> \in R /\ <<y, z>> \in R => <<x, z>> \in R

Enumerated(f, S, R) ==
  /\ Cardinality(S) \in Nat /\ f \in [1 .. Cardinality(S) -> S]
  /\ \A x \in S : \E n \in 1 .. Cardinality(S) : f[n] = x
  /\ \A m, n \in 1 .. Cardinality(S) : m < n => <<f[m], f[n]>> \in R

Lower(S, R, x) == {y \in S : <<y, x>> \in R}

\* In a finite set with a total order, the number of elements below it tells an element from
\* all others, and every number occurs.
LEMMA RanksEnumerate ==
  ASSUME NEW S, IsFiniteSet(S), NEW R, TotalOn(S, R)
  PROVE  Enumerated([n \in 1 .. Cardinality(S) |-> CHOOSE x \in S : Cardinality(Lower(S, R, x)) = n - 1], S, R)
<1> DEFINE N == Cardinality(S)
           rank(x) == Cardinality(Lower(S, R, x))
           f == [x \in S |-> rank(x) + 1]
           g == [n \in 1 .. N |-> CHOOSE x \in S : rank(x) = n - 1]
<1>1. N \in Nat
  BY FS_CardinalityType
<1>2. ASSUME NEW x \in S
      PROVE  IsFiniteSet(Lower(S, R, x)) /\ rank(x) \in Nat /\ rank(x) < N
  <2>1. Lower(S, R, x) \in SUBSET S /\ x \notin Lower(S, R, x)
    BY DEF Lower, TotalOn
  <2>2. IsFiniteSet(Lower(S, R, x)) /\ rank(x) <= N /\ (N = rank(x) => S = Lower(S, R, x))
    BY <2>1, FS_Subset
  <2>3. rank(x) \in Nat
    BY <2>2, FS_CardinalityType
  <2>4. rank(x) # N
    BY <2>1, <2>2
  <2>5. QED
    BY <1>1, <2>2, <2>3, <2>4
<1>3. ASSUME NEW x \in S, NEW y \in S, <<x, y>> \in R PROVE rank(x) < rank(y)
  <2>1. Lower(S, R, x) \in SUBSET Lower(S, R, y) /\ x \notin Lower(S, R, x) /\ x \in Lower(S, R, y)
    BY <1>3 DEF Lower, TotalOn
  <2>2. rank(x) <= rank(y) /\ (rank(y) = rank(x) => Lower(S, R, y) = Lower(S, R, x))
    BY <1>2, <2>1, FS_Subset
  <2>3. QED
    BY <1>2, <2>1, <2>2
<1>4. ASSUME NEW x \in S, NEW y \in S, rank(x) = rank(y) PROVE x = y
  <2>1. rank(x) \in Nat /\ rank(y) \in Nat
    BY <1>2
  <2>2. <<x, y>> \notin R /\ <<y, x>> \notin R
    BY <1>3, <1>4, <2>1
  <2>3. QED
    BY <2>2 DEF TotalOn
<1>5. f \in [S -> 1 .. N] /\ \A x \in S : f[x] = rank(x) + 1
  BY <1>1, <1>2
<1> HIDE DEF f
<1>6. f \in Injection(S, 1 .. N)
  <2>1. \A x, y \in S : f[x] = f[y] => x = y
    BY <1>2, <1>4, <1>5
  <2>2. QED
    BY <1>5, <2>1, Fun_IsInj
<1>7. IsFiniteSet(1 .. N) /\ Cardinality(1 .. N) = N
  <2>1. N \in Int
    BY <1>1
  <2>2. IsFiniteSet(1 .. N) /\ Cardinality(1 .. N) = IF 1 > N THEN 0 ELSE N - 1 + 1
    BY <2>1, FS_Interval
  <2>3. QED
    BY <1>1, <2>2
<1>8. f \in Surjection(S, 1 .. N)
  BY <1>6, <1>7, FS_Injection
<1>9. \A n \in 1 .. N : \E x \in S : f[x] = n
  BY <1>8, Fun_SurjectionProperties
<1>10. \A n \in 1 .. N : \E x \in S : rank(x) = n - 1
  BY <1>2, <1>5, <1>9
<1>11. \A n \in 1 .. N : g[n] \in S /\ rank(g[n]) = n - 1
  <2> HIDE DEF rank
  <2>1. QED
    BY <1>10
<1>12. g = [n \in 1 .. N |-> g[n]]
  OBVIOUS
<1>13. g = [n \in 1 .. Cardinality(S) |-> CHOOSE x \in S : Cardinality(Lower(S, R, x)) = n - 1]
  OBVIOUS
<1> HIDE DEF g, rank
<1>14. g \in [1 .. N -> S]
  BY <1>11, <1>12
<1>15. \A x \in S : \E n \in 1 .. N : g[n] = x
  <2>1. SUFFICES ASSUME NEW x \in S PROVE \E n \in 1 .. N : g[n] = x
    OBVIOUS
  <2>2. rank(x) + 1 \in 1 .. N /\ rank(g[rank(x) + 1]) = rank(x)
    BY <1>1, <1>2, <1>11
  <2>3. g[rank(x) + 1] = x
    BY <1>4, <1>11, <2>2
  <2>4. QED
    BY <2>2, <2>3
<1>16. ASSUME NEW m \in 1 .. N, NEW n \in 1 .. N, m < n PROVE <<g[m], g[n]>> \in R
  <2>1. g[m] \in S /\ g[n] \in S /\ rank(g[m]) = m - 1 /\ rank(g[n]) = n - 1
    BY <1>11
  <2>2. g[m] # g[n]
    BY <1>16, <2>1
  <2>3. <<g[n], g[m]>> \in R => rank(g[n]) < rank(g[m])
    BY <1>3, <2>1
  <2>4. <<g[n], g[m]>> \notin R
    BY <1>16, <2>1, <2>3
  <2>5. QED
    BY <2>1, <2>2, <2>4 DEF TotalOn
<1>17. Enumerated(g, S, R)
  BY <1>1, <1>14, <1>15, <1>16 DEF Enumerated
<1>18. QED
  BY <1>13, <1>17

\* Different monomials differ in a variable.
LEMMA Differ ==
  ASSUME NEW a \in [Vars -> Nat], NEW b \in [Vars -> Nat], a # b
  PROVE  \E v \in Vars : a[v] # b[v]
OBVIOUS

\* Monomials are ordered by the first variable in which they differ,
LEMMA LexTotal ==
  /\ \A a \in [Vars -> Nat] : ~LexLess(a, a)
  /\ \A a, b \in [Vars -> Nat] : a = b \/ LexLess(a, b) \/ LexLess(b, a)
  /\ \A a, b, c \in [Vars -> Nat] : LexLess(a, b) /\ LexLess(b, c) => LexLess(a, c)
<1>1. NVars \in Nat /\ Vars = 1 .. NVars
  BY MonomialAssumption DEF Vars
<1>2. \A a \in [Vars -> Nat] : ~LexLess(a, a)
  BY <1>1 DEF LexLess
<1>3. ASSUME NEW a \in [Vars -> Nat], NEW b \in [Vars -> Nat], a # b
      PROVE  LexLess(a, b) \/ LexLess(b, a)
  <2> DEFINE T == {v \in Vars : a[v] # b[v]}
  <2>1. T \in SUBSET Nat /\ T # {}
    <3>1. \E v \in Vars : a[v] # b[v]
      BY <1>3, Differ
    <3>2. QED
      BY <1>1, <3>1
  <2> HIDE DEF T
  <2>2. PICK v \in T : \A w \in T : v <= w
    BY <2>1, LeastNat
  <2>3. v \in Vars /\ a[v] # b[v] /\ \A w \in 1 .. v - 1 : w \in Vars /\ ~(v <= w)
    BY <1>1, <2>2 DEF T
  <2>4. \A w \in 1 .. v - 1 : a[w] = b[w]
    BY <2>2, <2>3 DEF T
  <2>5. a[v] \in Nat /\ b[v] \in Nat
    BY <2>3
  <2>6. a[v] < b[v] \/ b[v] < a[v]
    BY <2>3, <2>5
  <2>7. QED
    BY <2>3, <2>4, <2>6 DEF LexLess
<1>4. ASSUME NEW a \in [Vars -> Nat], NEW b \in [Vars -> Nat], NEW c \in [Vars -> Nat], LexLess(a, b), LexLess(b, c)
      PROVE  LexLess(a, c)
  <2>1. PICK u \in Vars : a[u] < b[u] /\ \A w \in 1 .. u - 1 : a[w] = b[w]
    BY <1>4 DEF LexLess
  <2>2. PICK v \in Vars : b[v] < c[v] /\ \A w \in 1 .. v - 1 : b[w] = c[w]
    BY <1>4 DEF LexLess
  <2>3. u \in Nat /\ v \in Nat /\ u >= 1 /\ v >= 1
    BY <1>1
  <2>4. \A w \in Vars : a[w] \in Nat /\ b[w] \in Nat /\ c[w] \in Nat
    OBVIOUS
  <2>5. CASE u < v
    <3>1. b[u] = c[u] /\ \A w \in 1 .. u - 1 : b[w] = c[w]
      BY <2>2, <2>3, <2>5
    <3>2. QED
      BY <2>1, <3>1 DEF LexLess
  <2>6. CASE v < u
    <3>1. a[v] = b[v] /\ \A w \in 1 .. v - 1 : a[w] = b[w]
      BY <2>1, <2>3, <2>6
    <3>2. QED
      BY <2>2, <3>1 DEF LexLess
  <2>7. CASE u = v
    <3>1. a[u] < c[u]
      BY <2>1, <2>2, <2>4, <2>7
    <3>2. QED
      BY <2>1, <2>2, <2>7, <3>1 DEF LexLess
  <2>8. QED
    BY <2>3, <2>5, <2>6, <2>7
<1>5. QED
  BY <1>2, <1>3, <1>4

\* and a divisor comes before its multiples.
LEMMA DivisorFirst ==
  ASSUME NEW a \in [Vars -> Nat], NEW b \in [Vars -> Nat], Divides(a, b), a # b
  PROVE  LexLess(a, b) /\ ~LexLess(b, a)
<1>1. ~LexLess(b, a)
  <2>1. \A v \in Vars : ~(b[v] < a[v])
    BY DEF Divides
  <2>2. QED
    BY <2>1 DEF LexLess
<1>2. QED
  BY <1>1, LexTotal

-----------------------------------------------------------------------------
(* Tables of monomials.                                                     *)

Term      == [lead : [Vars -> Nat], comp : Nat, val : Nat]
GoodTables == {T \in [terms : Seq(Term), last : Term \cup {NoMatch}] :
                 T.last = NoMatch \/ \E n \in DOMAIN T.terms : T.last = T.terms[n]}

\* One of the terms of the table divides e.
Divided(T, e, comp) == \E n \in DOMAIN T.terms : T.terms[n].comp = comp /\ Divides(T.terms[n].lead, e)

\* Masks rule out no divisor: find_divisors finds all there are.
LEMMA MatchesIs ==
  ASSUME NEW t \in Term, NEW e \in [Vars -> Nat], NEW comp
  PROVE  Matches(t, e, comp) <=> t.comp = comp /\ Divides(t.lead, e)
<1>1. ASSUME Divides(t.lead, e) PROVE Mask(t.lead) \subseteq Mask(e)
  <2>1. \A v \in Vars : t.lead[v] \in Nat /\ e[v] \in Nat /\ t.lead[v] <= e[v]
    BY <1>1 DEF Divides, Term
  <2>2. \A v \in Vars : t.lead[v] > 0 => e[v] > 0
    BY <2>1
  <2>3. QED
    BY <2>2 DEF Mask
<1>2. QED
  BY <1>1 DEF Matches

LEMMA GoodTableIs ==
  ASSUME NEW T \in GoodTables
  PROVE  /\ T.terms \in Seq(Term) /\ Len(T.terms) \in Nat /\ DOMAIN T.terms = 1 .. Len(T.terms)
         /\ \A n \in DOMAIN T.terms :
              T.terms[n] \in Term /\ T.terms[n].lead \in [Vars -> Nat] /\ T.terms[n].comp \in Nat
         /\ T.last = NoMatch \/ \E n \in DOMAIN T.terms : T.last = T.terms[n]
<1>1. T.terms \in Seq(Term) /\ (T.last = NoMatch \/ \E n \in DOMAIN T.terms : T.last = T.terms[n])
  BY DEF GoodTables
<1>2. Len(T.terms) \in Nat /\ DOMAIN T.terms = 1 .. Len(T.terms) /\ \A n \in DOMAIN T.terms : T.terms[n] \in Term
  BY <1>1
<1>3. \A t \in Term : t.lead \in [Vars -> Nat] /\ t.comp \in Nat
  BY DEF Term
<1>4. QED
  BY <1>1, <1>2, <1>3

\* A search for one divisor finds one if there is one, whatever was found last.
LEMMA FindOneIs ==
  ASSUME NEW T \in GoodTables, NEW e \in [Vars -> Nat], NEW comp \in Nat
  PROVE  /\ FindOne(T, e, comp) # NoMatch <=> Divided(T, e, comp)
         /\ FindOne(T, e, comp) # NoMatch => \E n \in DOMAIN T.terms : FindOne(T, e, comp) = T.terms[n]
<1> DEFINE found == FindDivisors(T, e, comp)
           first == CHOOSE n \in found : \A m \in found : n <= m
<1>1. /\ DOMAIN T.terms \subseteq Nat
      /\ \A n \in DOMAIN T.terms :
           T.terms[n] \in Term /\ T.terms[n].lead \in [Vars -> Nat] /\ T.terms[n].comp \in Nat
      /\ T.last = NoMatch \/ \E n \in DOMAIN T.terms : T.last = T.terms[n]
  BY GoodTableIs
<1>2. found = {n \in DOMAIN T.terms : T.terms[n].comp = comp /\ Divides(T.terms[n].lead, e)}
  BY <1>1, MatchesIs DEF FindDivisors
<1>3. found # {} <=> Divided(T, e, comp)
  BY <1>2 DEF Divided
<1>4. ASSUME found # {} PROVE first \in found
  <2>1. found \in SUBSET Nat
    BY <1>1, <1>2
  <2>2. \E n \in found : \A m \in found : n <= m
    BY <1>4, <2>1, LeastNat
  <2>3. QED
    BY <2>2
<1>5. NoMatch.comp = -1 /\ \A n \in DOMAIN T.terms : T.terms[n] # NoMatch
  <2>1. NoMatch.comp = -1
    BY DEF NoMatch
  <2>2. \A n \in DOMAIN T.terms : T.terms[n].comp # -1
    BY <1>1
  <2>3. QED
    BY <2>1, <2>2
<1>6. FindOne(T, e, comp) = IF T.last.comp = comp /\ Divides(T.last.lead, e) THEN T.last
                            ELSE IF found # {} THEN T.terms[first] ELSE NoMatch
  BY DEF FindOne
<1> HIDE DEF found, first
<1>7. CASE T.last.comp = comp /\ Divides(T.last.lead, e)
  <2>1. T.last # NoMatch
    BY <1>5, <1>7
  <2>2. PICK n \in DOMAIN T.terms : T.last = T.terms[n]
    BY <1>1, <2>1
  <2>3. Divided(T, e, comp) /\ FindOne(T, e, comp) = T.terms[n]
    BY <1>6, <1>7, <2>2 DEF Divided
  <2>4. QED
    BY <1>5, <2>3
<1>8. CASE ~(T.last.comp = comp /\ Divides(T.last.lead, e)) /\ found # {}
  <2>1. FindOne(T, e, comp) = T.terms[first] /\ first \in DOMAIN T.terms
    BY <1>2, <1>4, <1>6, <1>8
  <2>2. QED
    BY <1>3, <1>5, <1>8, <2>1
<1>9. CASE ~(T.last.comp = comp /\ Divides(T.last.lead, e)) /\ found = {}
  BY <1>3, <1>6, <1>9
<1>10. QED
  BY <1>7, <1>8, <1>9

\* A search changes no term,
LEMMA SearchedIs ==
  ASSUME NEW T \in GoodTables, NEW e \in [Vars -> Nat], NEW comp \in Nat
  PROVE  Searched(T, e, comp) \in GoodTables /\ Searched(T, e, comp).terms = T.terms
<1> DEFINE t == FindOne(T, e, comp)
<1>1. CASE t = NoMatch
  BY <1>1 DEF Searched
<1>2. CASE t # NoMatch
  <2>1. PICK n \in DOMAIN T.terms : t = T.terms[n]
    BY <1>2, FindOneIs
  <2>2. t \in Term
    BY <2>1, GoodTableIs
  <2>3. Searched(T, e, comp) = [T EXCEPT !.last = t]
    BY <1>2 DEF Searched
  <2> HIDE DEF t
  <2>4. T \in [terms : Seq(Term), last : Term \cup {NoMatch}]
    BY DEF GoodTables
  <2>5. /\ [T EXCEPT !.last = t] \in [terms : Seq(Term), last : Term \cup {NoMatch}]
        /\ [T EXCEPT !.last = t].terms = T.terms /\ [T EXCEPT !.last = t].last = t
    BY <2>2, <2>4
  <2>6. QED
    BY <2>1, <2>3, <2>5 DEF GoodTables
<1>3. QED
  BY <1>1, <1>2

\* and a term that is inserted divides what it divides.
LEMMA InsertIs ==
  ASSUME NEW T \in GoodTables, NEW e \in [Vars -> Nat], NEW comp \in Nat, NEW id \in Nat
  PROVE  /\ InsertTerm(T, e, comp, id) \in GoodTables
         /\ \A f, c : Divided(InsertTerm(T, e, comp, id), f, c) <=> Divided(T, f, c) \/ (c = comp /\ Divides(e, f))
<1> DEFINE t == [lead |-> e, comp |-> comp, val |-> id]
           U == InsertTerm(T, e, comp, id)
<1>1. t \in Term /\ t.lead = e /\ t.comp = comp
  BY DEF Term
<1>2. U = [T EXCEPT !.terms = Append(T.terms, t)]
  BY DEF InsertTerm
<1> HIDE DEF t, U
<1>3. T \in [terms : Seq(Term), last : Term \cup {NoMatch}] /\ (T.last = NoMatch \/ \E n \in DOMAIN T.terms : T.last = T.terms[n])
  BY DEF GoodTables
<1>4. /\ Append(T.terms, t) \in Seq(Term)
      /\ DOMAIN Append(T.terms, t) = 1 .. Len(T.terms) + 1 /\ DOMAIN T.terms = 1 .. Len(T.terms) /\ Len(T.terms) \in Nat
      /\ \A n \in DOMAIN T.terms : Append(T.terms, t)[n] = T.terms[n]
      /\ Append(T.terms, t)[Len(T.terms) + 1] = t
  BY <1>1, <1>3
<1>5. U \in [terms : Seq(Term), last : Term \cup {NoMatch}] /\ U.terms = Append(T.terms, t) /\ U.last = T.last
  BY <1>2, <1>3, <1>4
<1>6. DOMAIN T.terms \subseteq DOMAIN U.terms /\ \A n \in DOMAIN T.terms : U.terms[n] = T.terms[n]
  BY <1>4, <1>5
<1>7. U \in GoodTables
  BY <1>3, <1>5, <1>6 DEF GoodTables
<1>8. ASSUME NEW f, NEW c PROVE Divided(U, f, c) <=> Divided(T, f, c) \/ (c = comp /\ Divides(e, f))
  <2>1. \A n \in DOMAIN U.terms : n \in DOMAIN T.terms \/ U.terms[n] = t
    BY <1>4, <1>5
  <2>2. \E n \in DOMAIN U.terms : U.terms[n] = t
    BY <1>4, <1>5
  <2>3. QED
    BY <1>1, <1>6, <2>1, <2>2 DEF Divided
<1>9. QED
  BY <1>7, <1>8 DEF U

\* The empty table divides nothing.
LEMMA EmptyIs ==
  EmptyTable \in GoodTables /\ \A e, comp : ~Divided(EmptyTable, e, comp)
<1>1. EmptyTable = [terms |-> << >>, last |-> NoMatch]
  BY DEF EmptyTable
<1>2. << >> \in Seq(Term) /\ DOMAIN << >> = {}
  OBVIOUS
<1>3. EmptyTable.terms = << >> /\ EmptyTable.last = NoMatch /\ EmptyTable \in [terms : Seq(Term), last : Term \cup {NoMatch}]
  BY <1>1, <1>2
<1>4. QED
  BY <1>2, <1>3 DEF GoodTables, Divided

-----------------------------------------------------------------------------
(* minimalize_pairs_non_ZZ.                                                 *)

AKey == Nat \X (0 .. 3) \X [Vars -> Nat]

\* Keys are ordered by degree, type and lcm.
LEMMA KeyTotal ==
  ASSUME NEW S \in SUBSET AKey
  PROVE  TotalOn(S, {r \in S \X S : KeyLess(r[1], r[2])})
<1> DEFINE R == {r \in S \X S : KeyLess(r[1], r[2])}
<1>1. \A a \in S : a[1] \in Int /\ a[2] \in Int /\ a[3] \in [Vars -> Nat] /\ a = <<a[1], a[2], a[3]>>
  BY DEF AKey
<1>2. \A a, b \in S : <<a, b>> \in R <=> KeyLess(a, b)
  OBVIOUS
<1> HIDE DEF R
<1>3. ASSUME NEW a \in S PROVE ~KeyLess(a, a)
  BY <1>1, LexTotal DEF KeyLess
<1>4. ASSUME NEW a \in S, NEW b \in S PROVE a = b \/ KeyLess(a, b) \/ KeyLess(b, a)
  <2>1. a[3] = b[3] \/ LexLess(a[3], b[3]) \/ LexLess(b[3], a[3])
    BY <1>1, LexTotal
  <2>2. a[1] = b[1] /\ a[2] = b[2] /\ a[3] = b[3] => a = b
    BY <1>1
  <2>3. a[1] \in Int /\ a[2] \in Int /\ b[1] \in Int /\ b[2] \in Int
    BY <1>1
  <2>4. QED
    BY <2>1, <2>2, <2>3 DEF KeyLess
<1>5. ASSUME NEW a \in S, NEW b \in S, NEW c \in S, KeyLess(a, b), KeyLess(b, c) PROVE KeyLess(a, c)
  <2>1. LexLess(a[3], b[3]) /\ LexLess(b[3], c[3]) => LexLess(a[3], c[3])
    BY <1>1, LexTotal
  <2>2. a[1] \in Int /\ a[2] \in Int /\ b[1] \in Int /\ b[2] \in Int /\ c[1] \in Int /\ c[2] \in Int
    BY <1>1
  <2>3. QED
    BY <1>5, <2>1, <2>2 DEF KeyLess
<1>6. TotalOn(S, R)
  BY <1>2, <1>3, <1>4, <1>5 DEF TotalOn
<1>7. QED
  BY <1>6 DEF R

\* The keys of pairs, sorted: each is there, and they stand in order.
LEMMA KeysInOrder ==
  ASSUME NEW S \in SUBSET AKey, IsFiniteSet(S)
  PROVE  LET keys == InOrder(S, KeyLess)
         IN  /\ Len(keys) \in Nat /\ keys \in [1 .. Len(keys) -> S]
             /\ \A x \in S : \E n \in 1 .. Len(keys) : keys[n] = x
             /\ \A m, n \in 1 .. Len(keys) : m < n => KeyLess(keys[m], keys[n])
<1> DEFINE R == {r \in S \X S : KeyLess(r[1], r[2])}
           keys == InOrder(S, KeyLess)
           N == Cardinality(S)
<1>1. \A x \in S : Lower(S, R, x) = {y \in S : KeyLess(y, x)}
  BY DEF Lower
<1>2. TotalOn(S, R)
  BY KeyTotal
<1>3. Enumerated([n \in 1 .. N |-> CHOOSE x \in S : Cardinality(Lower(S, R, x)) = n - 1], S, R)
  <2> HIDE DEF R
  <2>1. QED
    BY <1>2, RanksEnumerate
<1>4. keys = [n \in 1 .. N |-> CHOOSE x \in S : Cardinality(Lower(S, R, x)) = n - 1]
  <2>1. keys = [n \in 1 .. N |-> CHOOSE x \in S : Cardinality({y \in S : KeyLess(y, x)}) = n - 1]
    BY DEF InOrder
  <2> HIDE DEF R
  <2>2. \A n : (CHOOSE x \in S : Cardinality({y \in S : KeyLess(y, x)}) = n - 1)
                 = CHOOSE x \in S : Cardinality(Lower(S, R, x)) = n - 1
    BY <1>1
  <2>3. QED
    BY <2>1, <2>2
<1> HIDE DEF keys
<1>5. Enumerated(keys, S, R)
  BY <1>3, <1>4
<1>6. N \in Nat /\ keys \in [1 .. N -> S]
  BY <1>5 DEF Enumerated
<1>7. Len(keys) = N
  BY <1>6
<1>8. \A m, n \in 1 .. N : m < n => KeyLess(keys[m], keys[n])
  <2>1. \A m, n \in 1 .. N : m < n => <<keys[m], keys[n]>> \in R
    BY <1>5 DEF Enumerated
  <2>2. \A a, b : <<a, b>> \in R => KeyLess(a, b)
    OBVIOUS
  <2> HIDE DEF R
  <2>3. QED
    BY <2>1, <2>2
<1>9. \A x \in S : \E n \in 1 .. N : keys[n] = x
  BY <1>5 DEF Enumerated
<1>10. QED
  BY <1>6, <1>7, <1>8, <1>9 DEF keys

GoodPairs(new) ==
  /\ IsFiniteSet(new)
  /\ \A p \in new : p.type \in {"spair", "gcd_ZZ", "ring", "skew"} /\ p.deg \in Nat /\ p.lcm \in [Vars -> Nat]

LEMMA TypesAre ==
  \A t \in {"spair", "gcd_ZZ", "ring", "skew"} : Types[t] \in 0 .. 3
<1>1. Types["spair"] = 0 /\ Types["gcd_ZZ"] = 1 /\ Types["ring"] = 2 /\ Types["skew"] = 3
  BY DEF Types
<1>2. QED
  BY <1>1

LEMMA KeysOfPairs ==
  ASSUME NEW new, GoodPairs(new)
  PROVE  /\ SortKeys(new) \in SUBSET AKey /\ IsFiniteSet(SortKeys(new))
         /\ \A p \in new : SortKey(p) = <<p.deg, Types[p.type], p.lcm>> /\ SortKey(p) \in SortKeys(new)
<1>1. \A p \in new : SortKey(p) = <<p.deg, Types[p.type], p.lcm>> /\ SortKey(p) \in SortKeys(new)
  BY DEF SortKey, SortKeys
<1>2. \A p \in new : SortKey(p) \in AKey
  BY <1>1, TypesAre DEF GoodPairs, AKey
<1>3. SortKeys(new) \in SUBSET AKey
  BY <1>2 DEF SortKeys
<1> DEFINE f == [p \in new |-> SortKey(p)]
<1>4. f \in [new -> SortKeys(new)] /\ \A k \in SortKeys(new) : \E p \in new : f[p] = k
  BY DEF SortKeys
<1> HIDE DEF f
<1>5. f \in Surjection(new, SortKeys(new))
  BY <1>4, Fun_IsSurj
<1>6. IsFiniteSet(SortKeys(new))
  BY <1>5, FS_Surjection DEF GoodPairs
<1>7. QED
  BY <1>1, <1>3, <1>6

\* The state of the scan over the keys, after n of them: K are the keys whose pair is kept.
Scanned(s, n, keys, choice, new) ==
  /\ s \in [kept : SUBSET new, montab : GoodTables]
  /\ \E K \in SUBSET (1 .. n) :
       /\ s.kept = {choice[keys[k]] : k \in K}
       /\ \A e : Divided(s.montab, e, 1) <=> \E k \in K : Divides(keys[k][3], e)
       /\ \A j, k \in K : j < k => ~Divides(keys[j][3], keys[k][3])
       /\ \A i \in 1 .. n :
            \/ \E k \in K : Divides(keys[k][3], keys[i][3])
            \/ \E m \in 1 .. n : keys[m][3] = keys[i][3] /\ IsIdeal /\ IsGcdOnePair(choice[keys[m]])

LEMMA DividesReflexive ==
  ASSUME NEW a \in [Vars -> Nat]
  PROVE  Divides(a, a)
BY DEF Divides

\* One more key.
LEMMA ScanGoesOn ==
  ASSUME NEW new, NEW N \in Nat, NEW keys \in [1 .. N -> AKey], NEW choice,
         \A k \in 1 .. N : choice[keys[k]] \in new,
         NEW n \in 1 .. N, NEW s, Scanned(s, n - 1, keys, choice, new), NEW again \in BOOLEAN,
         again => n > 1 /\ keys[n - 1][3] = keys[n][3]
  PROVE  Scanned(MinimalizeKey(s, keys[n][3], choice[keys[n]], again), n, keys, choice, new)
<1> DEFINE lcm == keys[n][3]
           p == choice[keys[n]]
           u == MinimalizeKey(s, lcm, p, again)
<1>1. /\ lcm \in [Vars -> Nat] /\ p \in new /\ s.montab \in GoodTables /\ s.kept \in SUBSET new
      /\ s = [kept |-> s.kept, montab |-> s.montab]
  <2>1. keys[n] \in AKey
    OBVIOUS
  <2>2. QED
    BY <2>1 DEF AKey, Scanned
<1>2. PICK K \in SUBSET (1 .. n - 1) :
       /\ s.kept = {choice[keys[k]] : k \in K}
       /\ \A e : Divided(s.montab, e, 1) <=> \E k \in K : Divides(keys[k][3], e)
       /\ \A j, k \in K : j < k => ~Divides(keys[j][3], keys[k][3])
       /\ \A i \in 1 .. n - 1 :
            \/ \E k \in K : Divides(keys[k][3], keys[i][3])
            \/ \E m \in 1 .. n - 1 : keys[m][3] = keys[i][3] /\ IsIdeal /\ IsGcdOnePair(choice[keys[m]])
  BY DEF Scanned
<1>3. K \in SUBSET (1 .. n) /\ \A i \in 1 .. n : i # n => i \in 1 .. n - 1
  OBVIOUS
<1>4. u = IF again THEN s
          ELSE IF FindOne(s.montab, lcm, 1) # NoMatch
          THEN [s EXCEPT !.montab = Searched(s.montab, lcm, 1)]
          ELSE IF IsIdeal /\ IsGcdOnePair(p) THEN s
          ELSE [kept |-> s.kept \cup {p}, montab |-> InsertTerm(s.montab, lcm, 1, 0)]
  BY DEF MinimalizeKey
<1>5. /\ FindOne(s.montab, lcm, 1) # NoMatch <=> Divided(s.montab, lcm, 1)
      /\ Searched(s.montab, lcm, 1) \in GoodTables /\ Searched(s.montab, lcm, 1).terms = s.montab.terms
  BY <1>1, FindOneIs, SearchedIs
<1>6. s \in [kept : SUBSET new, montab : GoodTables]
  BY DEF Scanned
<1>a. SUFFICES Scanned(u, n, keys, choice, new)
  OBVIOUS
<1> HIDE DEF u, p, lcm
\* What is common to the keys that add nothing.
<1>7. ASSUME u \in [kept : SUBSET new, montab : GoodTables], u.kept = s.kept, u.montab.terms = s.montab.terms,
             \/ \E k \in K : Divides(keys[k][3], lcm)
             \/ \E m \in 1 .. n : keys[m][3] = lcm /\ IsIdeal /\ IsGcdOnePair(choice[keys[m]])
      PROVE  Scanned(u, n, keys, choice, new)
  <2>1. \A e : Divided(u.montab, e, 1) <=> \E k \in K : Divides(keys[k][3], e)
    BY <1>2, <1>7 DEF Divided
  <2>2. \A i \in 1 .. n :
            \/ \E k \in K : Divides(keys[k][3], keys[i][3])
            \/ \E m \in 1 .. n : keys[m][3] = keys[i][3] /\ IsIdeal /\ IsGcdOnePair(choice[keys[m]])
    <3>1. SUFFICES ASSUME NEW i \in 1 .. n
                   PROVE  \/ \E k \in K : Divides(keys[k][3], keys[i][3])
                          \/ \E m \in 1 .. n : keys[m][3] = keys[i][3] /\ IsIdeal /\ IsGcdOnePair(choice[keys[m]])
      OBVIOUS
    <3>2. CASE i = n
      BY <1>7, <3>2 DEF lcm
    <3>3. CASE i # n
      <4>1. i \in 1 .. n - 1 /\ \A m \in 1 .. n - 1 : m \in 1 .. n
        BY <1>3, <3>3
      <4>2. \/ \E k \in K : Divides(keys[k][3], keys[i][3])
            \/ \E m \in 1 .. n - 1 : keys[m][3] = keys[i][3] /\ IsIdeal /\ IsGcdOnePair(choice[keys[m]])
        BY <1>2, <4>1
      <4>3. QED
        BY <4>1, <4>2
    <3>4. QED
      BY <3>2, <3>3
  <2>3. QED
    BY <1>2, <1>3, <1>7, <2>1, <2>2 DEF Scanned
<1>8. CASE again
  <2>1. u = s /\ n - 1 \in 1 .. n - 1 /\ keys[n - 1][3] = lcm
    BY <1>4, <1>8 DEF lcm
  <2>2. \/ \E k \in K : Divides(keys[k][3], lcm)
        \/ \E m \in 1 .. n - 1 : keys[m][3] = lcm /\ IsIdeal /\ IsGcdOnePair(choice[keys[m]])
    BY <1>2, <2>1
  <2>3. QED
    BY <1>3, <1>6, <1>7, <2>1, <2>2
<1>9. CASE ~again /\ Divided(s.montab, lcm, 1)
  <2>1. u = [s EXCEPT !.montab = Searched(s.montab, lcm, 1)]
    BY <1>4, <1>5, <1>9
  <2>2. u \in [kept : SUBSET new, montab : GoodTables] /\ u.kept = s.kept /\ u.montab = Searched(s.montab, lcm, 1)
    BY <1>5, <1>6, <2>1
  <2>3. \E k \in K : Divides(keys[k][3], lcm)
    BY <1>2, <1>9
  <2>4. QED
    BY <1>5, <1>7, <2>2, <2>3
<1>10. CASE ~again /\ ~Divided(s.montab, lcm, 1) /\ IsIdeal /\ IsGcdOnePair(p)
  <2>1. u = s
    BY <1>4, <1>5, <1>10
  <2>2. keys[n][3] = lcm /\ IsIdeal /\ IsGcdOnePair(choice[keys[n]]) /\ n \in 1 .. n
    BY <1>10 DEF p, lcm
  <2>3. QED
    BY <1>6, <1>7, <2>1, <2>2
<1>11. CASE ~again /\ ~Divided(s.montab, lcm, 1) /\ ~(IsIdeal /\ IsGcdOnePair(p))
  <2>1. u = [kept |-> s.kept \cup {p}, montab |-> InsertTerm(s.montab, lcm, 1, 0)]
    BY <1>4, <1>5, <1>11
  <2>2. /\ InsertTerm(s.montab, lcm, 1, 0) \in GoodTables
        /\ \A f, c : Divided(InsertTerm(s.montab, lcm, 1, 0), f, c) <=> Divided(s.montab, f, c) \/ (c = 1 /\ Divides(lcm, f))
    <3>1. 1 \in Nat /\ 0 \in Nat
      OBVIOUS
    <3>2. QED
      BY <1>1, <3>1, InsertIs
  <2>3. u \in [kept : SUBSET new, montab : GoodTables] /\ u.kept = s.kept \cup {p} /\ u.montab = InsertTerm(s.montab, lcm, 1, 0)
    BY <1>1, <2>1, <2>2
  <2> DEFINE L == K \cup {n}
  <2>4. L \in SUBSET (1 .. n)
    BY <1>3
  <2>5. u.kept = {choice[keys[k]] : k \in L}
    <3>1. ASSUME NEW x PROVE x \in u.kept <=> \E k \in L : x = choice[keys[k]]
      <4>1. x \in u.kept <=> (\E k \in K : x = choice[keys[k]]) \/ x = p
        BY <1>2, <2>3
      <4>2. QED
        BY <4>1 DEF p
    <3> HIDE DEF L
    <3>2. QED
      BY <3>1
  <2>6. \A e : Divided(u.montab, e, 1) <=> \E k \in L : Divides(keys[k][3], e)
    BY <1>2, <2>2, <2>3 DEF lcm
  <2>7. \A k \in K : ~Divides(keys[k][3], keys[n][3])
    BY <1>2, <1>11 DEF lcm
  <2>8. \A j, k \in L : j < k => ~Divides(keys[j][3], keys[k][3])
    <3>1. SUFFICES ASSUME NEW j \in L, NEW k \in L, j < k PROVE ~Divides(keys[j][3], keys[k][3])
      OBVIOUS
    <3>2. j \in K
      BY <1>3, <3>1
    <3>3. QED
      BY <1>2, <2>7, <3>1, <3>2
  <2>9. Divides(keys[n][3], keys[n][3])
    BY <1>1, DividesReflexive DEF lcm
  <2>10. ASSUME NEW i \in 1 .. n
         PROVE  \/ \E k \in L : Divides(keys[k][3], keys[i][3])
                \/ \E m \in 1 .. n : keys[m][3] = keys[i][3] /\ IsIdeal /\ IsGcdOnePair(choice[keys[m]])
    <3>1. CASE i = n
      BY <2>9, <3>1
    <3>2. CASE i # n
      <4>1. i \in 1 .. n - 1 /\ \A m \in 1 .. n - 1 : m \in 1 .. n
        BY <1>3, <3>2
      <4>2. \/ \E k \in K : Divides(keys[k][3], keys[i][3])
            \/ \E m \in 1 .. n - 1 : keys[m][3] = keys[i][3] /\ IsIdeal /\ IsGcdOnePair(choice[keys[m]])
        BY <1>2, <4>1
      <4>3. QED
        BY <4>1, <4>2
    <3>3. QED
      BY <3>1, <3>2
  <2> HIDE DEF L
  <2>11. QED
    BY <2>3, <2>4, <2>5, <2>6, <2>8, <2>10 DEF Scanned
<1>12. QED
  BY <1>8, <1>9, <1>10, <1>11

\* What the scan over all keys comes to.
LEMMA ScanIs ==
  ASSUME NEW new, GoodPairs(new), NEW choice \in Choices(new)
  PROVE  LET keys == InOrder(SortKeys(new), KeyLess)
         IN  \E s : s.kept = MinimalizePairs(new, choice) /\ Scanned(s, Len(keys), keys, choice, new)
<1> DEFINE S == SortKeys(new)
           keys == InOrder(S, KeyLess)
           N == Len(keys)
           again(n) == n > 1 /\ keys[n - 1][3] = keys[n][3]
           D == [kept : SUBSET new, montab : GoodTables]
           a == [kept |-> {}, montab |-> EmptyTable]
           P(f) == f = [n \in 0 .. N |-> IF n = 0 THEN a ELSE MinimalizeKey(f[n - 1], keys[n][3], choice[keys[n]], again(n))]
           G == [n \in 1 .. N |-> [s \in D |-> MinimalizeKey(s, keys[n][3], choice[keys[n]], again(n))]]
           g == CHOOSE f : P(f)
<1>1. S \in SUBSET AKey /\ IsFiniteSet(S)
  BY KeysOfPairs
<1>2. N \in Nat /\ keys \in [1 .. N -> S]
  BY <1>1, KeysInOrder
<1>3. MinimalizePairs(new, choice) = g[N].kept
  BY DEF MinimalizePairs
<1> SUFFICES \E s : s.kept = MinimalizePairs(new, choice) /\ Scanned(s, N, keys, choice, new)
  OBVIOUS
<1> HIDE DEF keys, g
<1>4. \A n \in 1 .. N : choice[keys[n]] \in new
  <2>1. choice \in [S -> new]
    BY DEF Choices
  <2>2. QED
    BY <1>2, <2>1
<1> HIDE DEF S, N, D, a
<1>5. keys \in [1 .. N -> AKey] /\ \A n \in 1 .. N : again(n) \in BOOLEAN /\ (again(n) => n > 1 /\ keys[n - 1][3] = keys[n][3])
  BY <1>1, <1>2
<1>6. a \in D /\ Scanned(a, 0, keys, choice, new)
  <2>1. a \in [kept : SUBSET new, montab : GoodTables] /\ a.kept = {} /\ a.montab = EmptyTable
    BY EmptyIs DEF a
  <2>2. \A e : ~Divided(a.montab, e, 1)
    BY <2>1, EmptyIs
  <2> DEFINE K == {}
  <2>3. /\ K \in SUBSET (1 .. 0)
        /\ a.kept = {choice[keys[k]] : k \in K}
        /\ \A e : Divided(a.montab, e, 1) <=> \E k \in K : Divides(keys[k][3], e)
        /\ \A j, k \in K : j < k => ~Divides(keys[j][3], keys[k][3])
        /\ \A i \in 1 .. 0 :
             \/ \E k \in K : Divides(keys[k][3], keys[i][3])
             \/ \E m \in 1 .. 0 : keys[m][3] = keys[i][3] /\ IsIdeal /\ IsGcdOnePair(choice[keys[m]])
    BY <2>1, <2>2
  <2> HIDE DEF K
  <2>4. QED
    BY <2>1, <2>3 DEF Scanned, D
<1>7. ASSUME NEW n \in 1 .. N, NEW s \in D
      PROVE  MinimalizeKey(s, keys[n][3], choice[keys[n]], again(n)) \in D
  <2>1. keys[n][3] \in [Vars -> Nat] /\ choice[keys[n]] \in new
    <3>1. keys[n] \in AKey
      BY <1>5
    <3>2. QED
      BY <1>4, <3>1 DEF AKey
  <2>2. s.kept \in SUBSET new /\ s.montab \in GoodTables /\ s \in [kept : SUBSET new, montab : GoodTables]
    BY DEF D
  <2>3. Searched(s.montab, keys[n][3], 1) \in GoodTables /\ InsertTerm(s.montab, keys[n][3], 1, 0) \in GoodTables
    <3>1. 1 \in Nat /\ 0 \in Nat
      OBVIOUS
    <3>2. QED
      BY <2>1, <2>2, <3>1, SearchedIs, InsertIs
  <2>4. [s EXCEPT !.montab = Searched(s.montab, keys[n][3], 1)] \in D
    BY <2>2, <2>3 DEF D
  <2>5. [kept |-> s.kept \cup {choice[keys[n]]}, montab |-> InsertTerm(s.montab, keys[n][3], 1, 0)] \in D
    BY <2>1, <2>2, <2>3 DEF D
  <2>6. QED
    BY <2>4, <2>5 DEF MinimalizeKey
<1>8. \E f : P(f)
  <2>1. G \in [1 .. N -> [D -> D]]
    BY <1>7
  <2>2. \A n \in 1 .. N : \A s \in D : G[n][s] = MinimalizeKey(s, keys[n][3], choice[keys[n]], again(n))
    OBVIOUS
  <2> HIDE DEF G
  <2>3. PICK f : Iteration(f, D, a, N, G)
    BY <1>2, <1>6, <2>1, Iterates
  <2>4. f \in [0 .. N -> D] /\ f[0] = a /\ \A n \in 1 .. N : f[n] = G[n][f[n - 1]]
    BY <2>3 DEF Iteration
  <2>5. ASSUME NEW n \in 1 .. N PROVE f[n] = MinimalizeKey(f[n - 1], keys[n][3], choice[keys[n]], again(n))
    <3>1. n - 1 \in 0 .. N
      BY <1>2
    <3>2. f[n - 1] \in D
      BY <2>4, <3>1
    <3>3. QED
      BY <2>2, <2>4, <3>2
  <2> HIDE DEF again
  <2>6. f = [n \in 0 .. N |-> f[n]]
    BY <2>4
  <2>7. \A n \in 0 .. N : f[n] = IF n = 0 THEN a ELSE MinimalizeKey(f[n - 1], keys[n][3], choice[keys[n]], again(n))
    <3>1. \A n \in 0 .. N : n # 0 => n \in 1 .. N
      BY <1>2
    <3>2. QED
      BY <2>4, <2>5, <3>1
  <2>8. f = [n \in 0 .. N |-> IF n = 0 THEN a ELSE MinimalizeKey(f[n - 1], keys[n][3], choice[keys[n]], again(n))]
    BY <2>6, <2>7
  <2>9. QED
    BY <2>8
<1>9. P(g)
  <2> HIDE DEF P
  <2>1. QED
    BY <1>8 DEF g
<1>10. g[0] = a /\ \A n \in 1 .. N : g[n] = MinimalizeKey(g[n - 1], keys[n][3], choice[keys[n]], again(n))
  <2> HIDE DEF again
  <2>1. 0 \in 0 .. N /\ \A n \in 1 .. N : n \in 0 .. N /\ n # 0
    BY <1>2
  <2>2. QED
    BY <1>9, <2>1
<1> DEFINE T == {n \in 0 .. N : Scanned(g[n], n, keys, choice, new)}
<1>11. 0 \in T
  BY <1>2, <1>6, <1>10
<1>12. ASSUME NEW n \in 1 .. N, n - 1 \in T PROVE n \in T
  <2>1. Scanned(g[n - 1], n - 1, keys, choice, new)
    BY <1>12
  <2>2. Scanned(MinimalizeKey(g[n - 1], keys[n][3], choice[keys[n]], again(n)), n, keys, choice, new)
    <3>1. again(n) \in BOOLEAN /\ (again(n) => n > 1 /\ keys[n - 1][3] = keys[n][3])
      BY <1>5
    <3> HIDE DEF again
    <3>2. QED
      BY <1>2, <1>4, <1>5, <2>1, <3>1, ScanGoesOn
  <2>3. g[n] = MinimalizeKey(g[n - 1], keys[n][3], choice[keys[n]], again(n))
    BY <1>10
  <2>4. n \in 0 .. N
    BY <1>2
  <2> HIDE DEF again
  <2>5. QED
    BY <2>2, <2>3, <2>4
<1>13. N \in T
  <2> HIDE DEF T
  <2>1. \A n \in 0 .. N : n \in T
    BY <1>2, <1>11, <1>12, Inducts
  <2>2. QED
    BY <1>2, <2>1
<1>14. QED
  BY <1>3, <1>13

\* The pairs of an element that are kept: every pair is a multiple of one that is kept or
\* left out by the product criterion, and none is kept beside a smaller one of the same degree
\* and type.
LEMMA MinimalizedIs ==
  ASSUME NEW new, GoodPairs(new), NEW choice \in Choices(new)
  PROVE  /\ MinimalizePairs(new, choice) \in SUBSET new
         /\ \A q \in new : \E p \in new :
              /\ Divides(p.lcm, q.lcm)
              /\ p \in MinimalizePairs(new, choice) \/ (IsIdeal /\ IsGcdOnePair(p))
         /\ \A p, q \in MinimalizePairs(new, choice) :
              p # q /\ Divides(p.lcm, q.lcm) =>
                /\ p.lcm # q.lcm
                /\ p.deg > q.deg \/ (p.deg = q.deg /\ Types[p.type] > Types[q.type])
<1> DEFINE S == SortKeys(new)
           keys == InOrder(S, KeyLess)
           N == Len(keys)
           kept == MinimalizePairs(new, choice)
<1>1. /\ S \in SUBSET AKey /\ IsFiniteSet(S)
      /\ \A p \in new : SortKey(p) = <<p.deg, Types[p.type], p.lcm>> /\ SortKey(p) \in S
  BY KeysOfPairs
<1>2. /\ N \in Nat /\ keys \in [1 .. N -> S]
      /\ \A x \in S : \E n \in 1 .. N : keys[n] = x
      /\ \A m, n \in 1 .. N : m < n => KeyLess(keys[m], keys[n])
  BY <1>1, KeysInOrder
<1>3. PICK s : s.kept = kept /\ Scanned(s, N, keys, choice, new)
  BY ScanIs
<1>4. \A k \in S : choice[k] \in new /\ SortKey(choice[k]) = k
  BY DEF Choices
<1> HIDE DEF S, keys, N, kept
<1>5. \A n \in 1 .. N :
        /\ keys[n] \in S /\ choice[keys[n]] \in new
        /\ keys[n] = <<choice[keys[n]].deg, Types[choice[keys[n]].type], choice[keys[n]].lcm>>
  BY <1>1, <1>2, <1>4
<1>6. PICK K \in SUBSET (1 .. N) :
       /\ kept = {choice[keys[k]] : k \in K}
       /\ \A j, k \in K : j < k => ~Divides(keys[j][3], keys[k][3])
       /\ \A i \in 1 .. N :
            \/ \E k \in K : Divides(keys[k][3], keys[i][3])
            \/ \E m \in 1 .. N : keys[m][3] = keys[i][3] /\ IsIdeal /\ IsGcdOnePair(choice[keys[m]])
  BY <1>3 DEF Scanned
<1>7. kept \in SUBSET new
  BY <1>5, <1>6
<1>8. \A n \in 1 .. N : keys[n][3] = choice[keys[n]].lcm /\ keys[n][1] = choice[keys[n]].deg /\ keys[n][2] = Types[choice[keys[n]].type]
  BY <1>5
<1>9. ASSUME NEW q \in new
      PROVE  \E p \in new : Divides(p.lcm, q.lcm) /\ (p \in kept \/ (IsIdeal /\ IsGcdOnePair(p)))
  <2>1. PICK i \in 1 .. N : keys[i] = SortKey(q)
    BY <1>1, <1>2
  <2>2. keys[i][3] = q.lcm /\ q.lcm \in [Vars -> Nat]
    BY <1>1, <2>1 DEF GoodPairs
  <2>3. CASE \E k \in K : Divides(keys[k][3], keys[i][3])
    <3>1. PICK k \in K : Divides(keys[k][3], keys[i][3])
      BY <2>3
    <3>2. k \in 1 .. N /\ choice[keys[k]] \in kept
      BY <1>6
    <3>3. QED
      BY <1>5, <1>8, <2>2, <3>1, <3>2
  <2>4. CASE \E m \in 1 .. N : keys[m][3] = keys[i][3] /\ IsIdeal /\ IsGcdOnePair(choice[keys[m]])
    <3>1. PICK m \in 1 .. N : keys[m][3] = keys[i][3] /\ IsIdeal /\ IsGcdOnePair(choice[keys[m]])
      BY <2>4
    <3>2. choice[keys[m]].lcm = q.lcm /\ choice[keys[m]] \in new
      BY <1>5, <1>8, <2>2, <3>1
    <3>3. Divides(choice[keys[m]].lcm, q.lcm)
      BY <2>2, <3>2, DividesReflexive
    <3>4. QED
      BY <3>1, <3>2, <3>3
  <2>5. QED
    BY <1>6, <2>3, <2>4
<1>10. ASSUME NEW p \in kept, NEW q \in kept, p # q, Divides(p.lcm, q.lcm)
       PROVE  p.lcm # q.lcm /\ (p.deg > q.deg \/ (p.deg = q.deg /\ Types[p.type] > Types[q.type]))
  <2>1. PICK j \in K : p = choice[keys[j]]
    BY <1>6
  <2>2. PICK k \in K : q = choice[keys[k]]
    BY <1>6
  <2>3. j \in 1 .. N /\ k \in 1 .. N /\ j # k /\ j \in Int /\ k \in Int
    BY <1>2, <1>10, <2>1, <2>2
  <2>4. keys[j][3] = p.lcm /\ keys[k][3] = q.lcm
    BY <1>8, <2>1, <2>2, <2>3
  <2>5. ~(j < k)
    BY <1>6, <1>10, <2>4
  <2>6. k < j
    BY <2>3, <2>5
  <2>7. ~Divides(q.lcm, p.lcm) /\ KeyLess(keys[k], keys[j])
    BY <1>2, <1>6, <2>3, <2>4, <2>6
  <2>8. p.lcm \in [Vars -> Nat] /\ q.lcm \in [Vars -> Nat] /\ p.deg \in Nat /\ q.deg \in Nat
        /\ Types[p.type] \in Int /\ Types[q.type] \in Int
    BY <1>7, TypesAre DEF GoodPairs
  <2>9. p.lcm # q.lcm
    BY <2>7, <2>8, DividesReflexive
  <2>10. ~LexLess(q.lcm, p.lcm)
    BY <1>10, <2>8, <2>9, DivisorFirst
  <2>11. \/ q.deg < p.deg
         \/ q.deg = p.deg /\ Types[q.type] < Types[p.type]
         \/ q.deg = p.deg /\ Types[q.type] = Types[p.type] /\ LexLess(q.lcm, p.lcm)
    BY <1>8, <2>1, <2>2, <2>3, <2>7 DEF KeyLess
  <2>12. QED
    BY <2>8, <2>9, <2>10, <2>11
<1>11. QED
  BY <1>7, <1>9, <1>10 DEF kept

-----------------------------------------------------------------------------
(* Minimalization.                                                          *)

LEMMA DividesOrder ==
  ASSUME NEW a \in [Vars -> Nat], NEW b \in [Vars -> Nat], NEW c \in [Vars -> Nat], Divides(a, b)
  PROVE  (Divides(b, c) => Divides(a, c)) /\ (Divides(b, a) => a = b)
<1>1. \A v \in Vars : a[v] \in Nat /\ b[v] \in Nat /\ c[v] \in Nat /\ a[v] <= b[v]
  BY DEF Divides
<1>2. Divides(b, c) => Divides(a, c)
  BY <1>1 DEF Divides
<1>3. ASSUME Divides(b, a) PROVE a = b
  <2>1. \A v \in Vars : a[v] = b[v]
    BY <1>1, <1>3 DEF Divides
  <2>2. QED
    BY <2>1, Differ
<1>4. QED
  BY <1>2, <1>3

Same(es, comps, i, j)    == es[i] = es[j] /\ comps[i] = comps[j]
Smaller(es, comps, i, j) == comps[i] = comps[j] /\ es[i] # es[j] /\ Divides(es[i], es[j])
MinimalAt(es, comps, j)  == \A i \in DOMAIN es : ~Smaller(es, comps, i, j)

PositionLess(es, comps, i, j) ==
  \/ LexLess(es[i], es[j])
  \/ es[i] = es[j] /\ comps[i] < comps[j]
  \/ es[i] = es[j] /\ comps[i] = comps[j] /\ i < j

Again(es, comps, pos, n) == n > 1 /\ es[pos[n - 1]] = es[pos[n]] /\ comps[pos[n - 1]] = comps[pos[n]]

\* The positions in ascending order.
Sorted(es, comps, pos, M) ==
  /\ pos \in [1 .. M -> 1 .. M]
  /\ \A i \in 1 .. M : \E n \in 1 .. M : pos[n] = i
  /\ \A m, n \in 1 .. M : m < n => PositionLess(es, comps, pos[m], pos[n])

LEMMA AscendingIs ==
  ASSUME NEW M \in Nat, NEW es \in [1 .. M -> [Vars -> Nat]], NEW comps \in [1 .. M -> Nat]
  PROVE  Sorted(es, comps, Ascending(es, comps), M) /\ Len(Ascending(es, comps)) = M
<1> DEFINE S == 1 .. M
           less(i, j) == PositionLess(es, comps, i, j)
           R == {r \in S \X S : less(r[1], r[2])}
           pos == Ascending(es, comps)
<1>1. DOMAIN es = S /\ \A i \in S : i \in Int /\ es[i] \in [Vars -> Nat] /\ comps[i] \in Int
  OBVIOUS
<1>2. IsFiniteSet(S) /\ Cardinality(S) = M
  <2>1. IsFiniteSet(1 .. M) /\ Cardinality(1 .. M) = IF 1 > M THEN 0 ELSE M - 1 + 1
    <3>1. 1 \in Int /\ M \in Int
      OBVIOUS
    <3>2. QED
      BY <3>1, FS_Interval
  <2>2. QED
    BY <2>1
<1>3. pos = [n \in 1 .. M |-> CHOOSE x \in S : Cardinality({y \in S : less(y, x)}) = n - 1]
  <2>1. pos = [n \in 1 .. Cardinality(S) |-> CHOOSE x \in S : Cardinality({y \in S : less(y, x)}) = n - 1]
    BY <1>1 DEF Ascending, InOrder, PositionLess
  <2>2. QED
    BY <1>2, <2>1
<1>4. \A i, j \in S : <<i, j>> \in R <=> less(i, j)
  OBVIOUS
<1> HIDE DEF S, R, pos, less
<1>5. \A x \in S : {y \in S : less(y, x)} = Lower(S, R, x)
  BY <1>4 DEF Lower
<1>6. TotalOn(S, R)
  <2>1. ASSUME NEW i \in S PROVE ~less(i, i)
    BY <1>1, LexTotal DEF less, PositionLess
  <2>2. ASSUME NEW i \in S, NEW j \in S PROVE i = j \/ less(i, j) \/ less(j, i)
    <3>1. es[i] = es[j] \/ LexLess(es[i], es[j]) \/ LexLess(es[j], es[i])
      BY <1>1, LexTotal
    <3>2. QED
      BY <1>1, <3>1 DEF less, PositionLess
  <2>3. ASSUME NEW i \in S, NEW j \in S, NEW k \in S, less(i, j), less(j, k) PROVE less(i, k)
    <3>1. LexLess(es[i], es[j]) /\ LexLess(es[j], es[k]) => LexLess(es[i], es[k])
      BY <1>1, LexTotal
    <3>2. QED
      BY <1>1, <2>3, <3>1 DEF less, PositionLess
  <2>4. QED
    BY <1>4, <2>1, <2>2, <2>3 DEF TotalOn
<1>7. pos = [n \in 1 .. Cardinality(S) |-> CHOOSE x \in S : Cardinality(Lower(S, R, x)) = n - 1]
  <2> DEFINE at(n) == CHOOSE x \in S : Cardinality({y \in S : less(y, x)}) = n - 1
             by(n) == CHOOSE x \in S : Cardinality(Lower(S, R, x)) = n - 1
  <2>1. \A n : at(n) = by(n)
    BY <1>5
  <2>2. pos = [n \in 1 .. M |-> at(n)]
    BY <1>3
  <2> HIDE DEF at, by
  <2>3. pos = [n \in 1 .. Cardinality(S) |-> by(n)]
    BY <1>2, <2>1, <2>2
  <2>4. QED
    BY <2>3 DEF by
<1>8. Enumerated(pos, S, R)
  BY <1>2, <1>6, <1>7, RanksEnumerate
<1>9. pos \in [1 .. M -> S] /\ (\A x \in S : \E n \in 1 .. M : pos[n] = x) /\ \A m, n \in 1 .. M : m < n => <<pos[m], pos[n]>> \in R
  BY <1>2, <1>8 DEF Enumerated
<1>10. Len(pos) = M
  BY <1>9
<1>11. \A m, n \in 1 .. M : m < n => less(pos[m], pos[n])
  BY <1>4, <1>9
<1>12. Sorted(es, comps, pos, M)
  BY <1>9, <1>11 DEF Sorted, S, less
<1>13. QED
  BY <1>10, <1>12 DEF pos

\* What is the same stands together.
LEMMA SameTogether ==
  ASSUME NEW M \in Nat, NEW es \in [1 .. M -> [Vars -> Nat]], NEW comps \in [1 .. M -> Nat],
         NEW pos, Sorted(es, comps, pos, M),
         NEW m \in 1 .. M, NEW n \in 1 .. M, m < n, Same(es, comps, pos[m], pos[n])
  PROVE  Again(es, comps, pos, n)
<1>1. m \in Int /\ n \in Int /\ n > 1 /\ n - 1 \in 1 .. M /\ n - 1 < n
  OBVIOUS
<1>2. CASE n - 1 = m
  BY <1>1, <1>2 DEF Again, Same
<1>3. CASE n - 1 # m
  <2>1. m < n - 1
    BY <1>1, <1>3
  <2>2. PositionLess(es, comps, pos[m], pos[n - 1]) /\ PositionLess(es, comps, pos[n - 1], pos[n])
    BY <1>1, <2>1 DEF Sorted
  <2> DEFINE i == pos[m]
             j == pos[n - 1]
             k == pos[n]
  <2>3. i \in 1 .. M /\ j \in 1 .. M /\ k \in 1 .. M
    BY <1>1 DEF Sorted
  <2>4. PositionLess(es, comps, i, j) /\ PositionLess(es, comps, j, k) /\ es[i] = es[k] /\ comps[i] = comps[k]
    BY <2>2 DEF Same
  <2> HIDE DEF i, j, k
  <2>5. es[i] \in [Vars -> Nat] /\ es[j] \in [Vars -> Nat] /\ comps[i] \in Int /\ comps[j] \in Int /\ comps[k] \in Int
    BY <2>3
  <2>6. ~(LexLess(es[i], es[j]) /\ LexLess(es[j], es[i])) /\ ~LexLess(es[i], es[i])
    BY <2>5, LexTotal
  <2>7. es[j] = es[i] /\ comps[j] = comps[i]
    BY <2>4, <2>5, <2>6 DEF PositionLess
  <2>8. QED
    BY <1>1, <2>4, <2>7 DEF Again, i, j, k
<1>4. QED
  BY <1>2, <1>3

\* The first of the positions that are the same as i.
LEMMA FirstOfTheSame ==
  ASSUME NEW M \in Nat, NEW es \in [1 .. M -> [Vars -> Nat]], NEW comps \in [1 .. M -> Nat],
         NEW pos, Sorted(es, comps, pos, M), NEW i \in 1 .. M
  PROVE  \E k \in 1 .. M : Same(es, comps, pos[k], i) /\ ~Again(es, comps, pos, k)
<1> DEFINE T == {k \in 1 .. M : Same(es, comps, pos[k], i)}
<1>1. T \in SUBSET Nat /\ T # {}
  <2>1. PICK k \in 1 .. M : pos[k] = i
    BY DEF Sorted
  <2>2. k \in T
    BY <2>1 DEF Same
  <2>3. T \in SUBSET Nat
    OBVIOUS
  <2> HIDE DEF T
  <2>4. QED
    BY <2>2, <2>3
<1> HIDE DEF T
<1>2. PICK k \in T : \A l \in T : k <= l
  BY <1>1, LeastNat
<1>3. k \in 1 .. M /\ Same(es, comps, pos[k], i)
  BY <1>2 DEF T
<1>4. ASSUME Again(es, comps, pos, k) PROVE FALSE
  <2>1. k - 1 \in 1 .. M /\ ~(k <= k - 1)
    BY <1>3, <1>4 DEF Again
  <2>2. Same(es, comps, pos[k - 1], i)
    BY <1>3, <1>4 DEF Again, Same
  <2>3. QED
    BY <1>2, <2>1, <2>2 DEF T
<1>5. QED
  BY <1>3, <1>4

\* Every monomial is a multiple of a minimal one that comes first among the same.
LEMMA MinimalBelow ==
  ASSUME NEW M \in Nat, NEW es \in [1 .. M -> [Vars -> Nat]], NEW comps \in [1 .. M -> Nat],
         NEW pos, Sorted(es, comps, pos, M), NEW j \in 1 .. M
  PROVE  \E k \in 1 .. M :
           /\ MinimalAt(es, comps, pos[k]) /\ ~Again(es, comps, pos, k)
           /\ comps[pos[k]] = comps[j] /\ Divides(es[pos[k]], es[j])
<1> DEFINE I == {i \in 1 .. M : comps[i] = comps[j] /\ Divides(es[i], es[j])}
           T == {Weight(es[i]) : i \in I}
<1>1. \A i \in 1 .. M : es[i] \in [Vars -> Nat]
  OBVIOUS
<1>2. ASSUME NEW a \in [Vars -> Nat] PROVE Weight(a) \in Nat
  BY DividesReflexive, WeightMonotone
<1>3. T \in SUBSET Nat /\ T # {}
  <2>1. j \in I
    BY <1>1, DividesReflexive
  <2>2. \A i \in I : Weight(es[i]) \in Nat
    BY <1>1, <1>2
  <2>3. QED
    BY <2>1, <2>2
<1>4. PICK i \in I : \A l \in I : Weight(es[i]) <= Weight(es[l])
  <2> HIDE DEF I
  <2>1. T = {Weight(es[l]) : l \in I}
    OBVIOUS
  <2> HIDE DEF T
  <2>2. PICK w \in T : \A x \in T : w <= x
    BY <1>3, LeastNat
  <2>3. QED
    BY <2>1, <2>2
<1>5. i \in 1 .. M /\ comps[i] = comps[j] /\ Divides(es[i], es[j])
  OBVIOUS
<1>6. MinimalAt(es, comps, i)
  <2>1. SUFFICES ASSUME NEW l \in 1 .. M, Smaller(es, comps, l, i) PROVE FALSE
    BY DEF MinimalAt
  <2>2. l \in I
    BY <1>1, <1>5, <2>1, DividesOrder DEF Smaller
  <2>3. Weight(es[l]) < Weight(es[i]) /\ Weight(es[l]) \in Nat /\ Weight(es[i]) \in Nat
    BY <1>1, <1>5, <2>1, WeightMonotone DEF Smaller
  <2>4. QED
    BY <1>4, <2>2, <2>3
<1>7. PICK k \in 1 .. M : Same(es, comps, pos[k], i) /\ ~Again(es, comps, pos, k)
  BY <1>5, FirstOfTheSame
<1>8. MinimalAt(es, comps, pos[k])
  BY <1>6, <1>7 DEF MinimalAt, Same, Smaller
<1>9. QED
  BY <1>5, <1>7, <1>8 DEF Same

\* The state of the scan after n positions: the table has the minimal monomials so far, each once.
MinScanned(s, n, es, comps, pos, keep) ==
  /\ s \in [table : GoodTables, kept : SUBSET DOMAIN es, took : BOOLEAN]
  /\ \A e, c : Divided(s.table, e, c) <=>
       \E k \in 1 .. n : /\ MinimalAt(es, comps, pos[k]) /\ ~Again(es, comps, pos, k)
                         /\ comps[pos[k]] = c /\ Divides(es[pos[k]], e)
  /\ s.kept = {pos[k] : k \in {l \in 1 .. n : MinimalAt(es, comps, pos[l]) /\ (keep \/ ~Again(es, comps, pos, l))}}
  /\ n > 0 => (s.took <=> MinimalAt(es, comps, pos[n]))

LEMMA SortedTypes ==
  ASSUME NEW M \in Nat, NEW es \in [1 .. M -> [Vars -> Nat]], NEW comps \in [1 .. M -> Nat],
         NEW pos, Sorted(es, comps, pos, M), NEW k \in 1 .. M
  PROVE  pos[k] \in 1 .. M /\ es[pos[k]] \in [Vars -> Nat] /\ comps[pos[k]] \in Nat
<1>1. pos[k] \in 1 .. M
  BY DEF Sorted
<1>2. QED
  BY <1>1

\* The table tells whether a monomial that is new is minimal.
LEMMA TableTellsMinimal ==
  ASSUME NEW M \in Nat, NEW es \in [1 .. M -> [Vars -> Nat]], NEW comps \in [1 .. M -> Nat],
         NEW pos, Sorted(es, comps, pos, M), NEW n \in 1 .. M, ~Again(es, comps, pos, n)
  PROVE  MinimalAt(es, comps, pos[n]) <=>
           ~\E k \in 1 .. n - 1 : /\ MinimalAt(es, comps, pos[k]) /\ ~Again(es, comps, pos, k)
                                  /\ comps[pos[k]] = comps[pos[n]] /\ Divides(es[pos[k]], es[pos[n]])
<1>1. \A k \in 1 .. M : pos[k] \in 1 .. M /\ es[pos[k]] \in [Vars -> Nat] /\ comps[pos[k]] \in Nat
  BY SortedTypes
<1>2. ASSUME NEW k \in 1 .. n - 1, comps[pos[k]] = comps[pos[n]], Divides(es[pos[k]], es[pos[n]])
      PROVE  ~MinimalAt(es, comps, pos[n])
  <2>1. k \in 1 .. M /\ k < n
    OBVIOUS
  <2>2. es[pos[k]] # es[pos[n]]
    BY <1>2, <2>1, SameTogether DEF Same
  <2>3. DOMAIN es = 1 .. M
    OBVIOUS
  <2>4. QED
    BY <1>1, <1>2, <2>1, <2>2, <2>3 DEF MinimalAt, Smaller
<1>3. ASSUME ~MinimalAt(es, comps, pos[n])
      PROVE  \E k \in 1 .. n - 1 : /\ MinimalAt(es, comps, pos[k]) /\ ~Again(es, comps, pos, k)
                                   /\ comps[pos[k]] = comps[pos[n]] /\ Divides(es[pos[k]], es[pos[n]])
  <2>1. PICK i \in 1 .. M : Smaller(es, comps, i, pos[n])
    BY <1>3 DEF MinimalAt
  <2>2. PICK k \in 1 .. M :
           /\ MinimalAt(es, comps, pos[k]) /\ ~Again(es, comps, pos, k)
           /\ comps[pos[k]] = comps[i] /\ Divides(es[pos[k]], es[i])
    BY MinimalBelow
  <2> DEFINE a == es[pos[k]]
             b == es[i]
             c == es[pos[n]]
  <2>3. a \in [Vars -> Nat] /\ b \in [Vars -> Nat] /\ c \in [Vars -> Nat]
    BY <1>1
  <2>4. Divides(a, b) /\ Divides(b, c) /\ b # c /\ comps[i] = comps[pos[n]]
    BY <2>1, <2>2 DEF Smaller
  <2> HIDE DEF a, b, c
  <2>5. Divides(a, c) /\ a # c
    BY <2>3, <2>4, DividesOrder
  <2>6. ~LexLess(c, a)
    BY <2>3, <2>5, DivisorFirst
  <2>7. ~PositionLess(es, comps, pos[n], pos[k])
    BY <2>5, <2>6 DEF PositionLess, a, c
  <2>8. ~(n < k)
    BY <2>7 DEF Sorted
  <2>9. k # n
    BY <2>5 DEF a, c
  <2>10. k \in 1 .. n - 1
    BY <2>8, <2>9
  <2>11. QED
    BY <2>2, <2>4, <2>5, <2>10 DEF a, c
<1>4. QED
  BY <1>2, <1>3

LEMMA MinScanGoesOn ==
  ASSUME NEW M \in Nat, NEW es \in [1 .. M -> [Vars -> Nat]], NEW comps \in [1 .. M -> Nat],
         NEW pos, Sorted(es, comps, pos, M), NEW keep \in BOOLEAN,
         NEW n \in 1 .. M, NEW s, MinScanned(s, n - 1, es, comps, pos, keep)
  PROVE  MinScanned(Minimalized(s, es[pos[n]], comps[pos[n]], pos[n], Again(es, comps, pos, n), keep), n, es, comps, pos, keep)
<1> DEFINE e == es[pos[n]]
           c == comps[pos[n]]
           i == pos[n]
           again == Again(es, comps, pos, n)
           u == Minimalized(s, e, c, i, again, keep)
           Good(k) == MinimalAt(es, comps, pos[k]) /\ ~Again(es, comps, pos, k)
           Kept(k) == MinimalAt(es, comps, pos[k]) /\ (keep \/ ~Again(es, comps, pos, k))
<1>1. i \in 1 .. M /\ e \in [Vars -> Nat] /\ c \in Nat /\ 1 .. M = DOMAIN es /\ i \in Nat
  <2>1. i \in 1 .. M /\ e \in [Vars -> Nat] /\ c \in Nat
    BY SortedTypes
  <2>2. \A x \in 1 .. M : x \in Nat
    OBVIOUS
  <2> HIDE DEF i, e, c
  <2>3. QED
    BY <2>1, <2>2
<1>2. /\ s \in [table : GoodTables, kept : SUBSET (1 .. M), took : BOOLEAN]
      /\ \A f, d : Divided(s.table, f, d) <=> \E k \in 1 .. n - 1 : Good(k) /\ comps[pos[k]] = d /\ Divides(es[pos[k]], f)
      /\ s.kept = {pos[k] : k \in {l \in 1 .. n - 1 : Kept(l)}}
      /\ n - 1 > 0 => (s.took <=> MinimalAt(es, comps, pos[n - 1]))
  BY <1>1 DEF MinScanned
<1>3. s.table \in GoodTables /\ s.kept \in SUBSET (1 .. M) /\ s.took \in BOOLEAN
  BY <1>2
<1>4. /\ FindOne(s.table, e, c) # NoMatch <=> Divided(s.table, e, c)
      /\ Searched(s.table, e, c) \in GoodTables /\ Searched(s.table, e, c).terms = s.table.terms
      /\ InsertTerm(s.table, e, c, i) \in GoodTables
      /\ \A f, d : Divided(InsertTerm(s.table, e, c, i), f, d) <=> Divided(s.table, f, d) \/ (d = c /\ Divides(e, f))
  BY <1>1, <1>3, FindOneIs, SearchedIs, InsertIs
<1>5. u = IF again
          THEN [s EXCEPT !.kept = IF keep /\ s.took THEN s.kept \cup {i} ELSE s.kept]
          ELSE IF FindOne(s.table, e, c) # NoMatch
          THEN [s EXCEPT !.took = FALSE, !.table = Searched(s.table, e, c)]
          ELSE [table |-> InsertTerm(s.table, e, c, i), kept |-> s.kept \cup {i}, took |-> TRUE]
  BY DEF Minimalized
<1>6. \A k \in 1 .. n : k = n \/ k \in 1 .. n - 1
  OBVIOUS
<1>7. 1 .. n - 1 \subseteq 1 .. n /\ n \in 1 .. n /\ n > 0
  OBVIOUS
<1>8. ~again => (MinimalAt(es, comps, i) <=> ~Divided(s.table, e, c))
  <2>1. ~again => (MinimalAt(es, comps, i) <=> ~\E k \in 1 .. n - 1 :
                      /\ MinimalAt(es, comps, pos[k]) /\ ~Again(es, comps, pos, k)
                      /\ comps[pos[k]] = c /\ Divides(es[pos[k]], e))
    BY TableTellsMinimal
  <2>2. Divided(s.table, e, c) <=> \E k \in 1 .. n - 1 :
                      /\ MinimalAt(es, comps, pos[k]) /\ ~Again(es, comps, pos, k)
                      /\ comps[pos[k]] = c /\ Divides(es[pos[k]], e)
    BY <1>2
  <2> HIDE DEF e, c, i, again
  <2>3. QED
    BY <2>1, <2>2
<1>9. again => n - 1 > 0 /\ (MinimalAt(es, comps, i) <=> MinimalAt(es, comps, pos[n - 1]))
  BY DEF Again, MinimalAt, Smaller
<1>a. SUFFICES MinScanned(u, n, es, comps, pos, keep)
  OBVIOUS
<1> HIDE DEF u, e, c, again
\* What makes up the state after the step.
<1>10. ASSUME u \in [table : GoodTables, kept : SUBSET (1 .. M), took : BOOLEAN],
              \A f, d : Divided(u.table, f, d) <=> Divided(s.table, f, d) \/ (Good(n) /\ d = c /\ Divides(e, f)),
              u.kept = s.kept \cup IF Kept(n) THEN {i} ELSE {},
              u.took <=> MinimalAt(es, comps, i)
       PROVE  MinScanned(u, n, es, comps, pos, keep)
  <2>1. \A f, d : Divided(u.table, f, d) <=> \E k \in 1 .. n : Good(k) /\ comps[pos[k]] = d /\ Divides(es[pos[k]], f)
    <3>1. SUFFICES ASSUME NEW f, NEW d
                   PROVE  Divided(u.table, f, d) <=> \E k \in 1 .. n : Good(k) /\ comps[pos[k]] = d /\ Divides(es[pos[k]], f)
      OBVIOUS
    <3> HIDE DEF Good
    <3>2. Divided(u.table, f, d) <=> (\E k \in 1 .. n - 1 : Good(k) /\ comps[pos[k]] = d /\ Divides(es[pos[k]], f))
                                       \/ (Good(n) /\ comps[pos[n]] = d /\ Divides(es[pos[n]], f))
      BY <1>2, <1>10 DEF e, c
    <3>3. QED
      BY <1>6, <1>7, <3>2
  <2>2. u.kept = {pos[k] : k \in {l \in 1 .. n : Kept(l)}}
    <3> HIDE DEF Kept, Good
    <3>1. ASSUME NEW x PROVE x \in u.kept <=> \E k \in 1 .. n : Kept(k) /\ x = pos[k]
      <4>1. x \in s.kept <=> \E k \in 1 .. n - 1 : Kept(k) /\ x = pos[k]
        BY <1>2
      <4>2. x \in u.kept <=> x \in s.kept \/ (Kept(n) /\ x = pos[n])
        BY <1>10
      <4>3. QED
        BY <1>6, <1>7, <4>1, <4>2
    <3>2. QED
      BY <3>1
  <2>3. QED
    BY <1>1, <1>10, <2>1, <2>2 DEF MinScanned
<1>11. CASE again
  <2>1. u = [s EXCEPT !.kept = IF keep /\ s.took THEN s.kept \cup {i} ELSE s.kept]
    BY <1>5, <1>11
  <2>2. (s.took <=> MinimalAt(es, comps, i)) /\ ~Good(n) /\ (Kept(n) <=> s.took /\ keep)
    BY <1>2, <1>9, <1>11 DEF again
  <2> HIDE DEF Good, Kept
  <2>3. (IF keep /\ s.took THEN s.kept \cup {i} ELSE s.kept) \in SUBSET (1 .. M)
    BY <1>1, <1>3
  <2>4. /\ u \in [table : GoodTables, kept : SUBSET (1 .. M), took : BOOLEAN]
        /\ u.table = s.table /\ u.took = s.took /\ u.kept = IF keep /\ s.took THEN s.kept \cup {i} ELSE s.kept
    BY <1>2, <2>1, <2>3
  <2>5. u.kept = s.kept \cup IF Kept(n) THEN {i} ELSE {}
    BY <2>2, <2>4
  <2>6. \A f, d : Divided(u.table, f, d) <=> Divided(s.table, f, d) \/ (Good(n) /\ d = c /\ Divides(e, f))
    BY <2>2, <2>4
  <2>7. u.took <=> MinimalAt(es, comps, i)
    BY <2>2, <2>4
  <2>8. QED
    BY <1>10, <2>4, <2>5, <2>6, <2>7
<1>12. CASE ~again /\ Divided(s.table, e, c)
  <2>1. u = [s EXCEPT !.took = FALSE, !.table = Searched(s.table, e, c)]
    BY <1>4, <1>5, <1>12
  <2>2. ~MinimalAt(es, comps, i) /\ ~Good(n) /\ ~Kept(n)
    BY <1>8, <1>12
  <2> HIDE DEF Good, Kept
  <2>3. /\ u \in [table : GoodTables, kept : SUBSET (1 .. M), took : BOOLEAN]
        /\ u.table = Searched(s.table, e, c) /\ u.took = FALSE /\ u.kept = s.kept
    BY <1>2, <1>4, <2>1
  <2>4. \A f, d : Divided(u.table, f, d) <=> Divided(s.table, f, d) \/ (Good(n) /\ d = c /\ Divides(e, f))
    BY <1>4, <2>2, <2>3 DEF Divided
  <2>5. u.kept = s.kept \cup IF Kept(n) THEN {i} ELSE {}
    BY <2>2, <2>3
  <2>6. QED
    BY <1>10, <2>2, <2>3, <2>4, <2>5
<1>13. CASE ~again /\ ~Divided(s.table, e, c)
  <2>1. u = [table |-> InsertTerm(s.table, e, c, i), kept |-> s.kept \cup {i}, took |-> TRUE]
    BY <1>4, <1>5, <1>13
  <2>2. MinimalAt(es, comps, i) /\ Good(n) /\ Kept(n)
    BY <1>8, <1>13 DEF again
  <2> HIDE DEF Good, Kept
  <2>3. s.kept \cup {i} \in SUBSET (1 .. M)
    BY <1>1, <1>3
  <2>4. /\ u \in [table : GoodTables, kept : SUBSET (1 .. M), took : BOOLEAN]
        /\ u.table = InsertTerm(s.table, e, c, i) /\ u.took = TRUE /\ u.kept = s.kept \cup {i}
    BY <1>4, <2>1, <2>3
  <2>5. \A f, d : Divided(u.table, f, d) <=> Divided(s.table, f, d) \/ (Good(n) /\ d = c /\ Divides(e, f))
    BY <1>4, <2>2, <2>4
  <2>6. u.kept = s.kept \cup IF Kept(n) THEN {i} ELSE {}
    BY <2>2, <2>4
  <2>7. QED
    BY <1>10, <2>2, <2>4, <2>5, <2>6
<1>14. QED
  BY <1>11, <1>12, <1>13

\* The step of the scan stays within its types.
LEMMA MinimalizedType ==
  ASSUME NEW M \in Nat, NEW s \in [table : GoodTables, kept : SUBSET (1 .. M), took : BOOLEAN],
         NEW e \in [Vars -> Nat], NEW c \in Nat, NEW i \in 1 .. M, NEW again \in BOOLEAN, NEW keep \in BOOLEAN
  PROVE  Minimalized(s, e, c, i, again, keep) \in [table : GoodTables, kept : SUBSET (1 .. M), took : BOOLEAN]
<1>1. s.table \in GoodTables /\ s.kept \in SUBSET (1 .. M) /\ s.kept \cup {i} \in SUBSET (1 .. M) /\ i \in Nat
  OBVIOUS
<1>2. Searched(s.table, e, c) \in GoodTables /\ InsertTerm(s.table, e, c, i) \in GoodTables
  BY <1>1, SearchedIs, InsertIs
<1>3. [s EXCEPT !.kept = IF keep /\ s.took THEN s.kept \cup {i} ELSE s.kept] \in [table : GoodTables, kept : SUBSET (1 .. M), took : BOOLEAN]
  BY <1>1
<1>4. [s EXCEPT !.took = FALSE, !.table = Searched(s.table, e, c)] \in [table : GoodTables, kept : SUBSET (1 .. M), took : BOOLEAN]
  BY <1>2
<1>5. [table |-> InsertTerm(s.table, e, c, i), kept |-> s.kept \cup {i}, took |-> TRUE] \in [table : GoodTables, kept : SUBSET (1 .. M), took : BOOLEAN]
  BY <1>1, <1>2
<1>6. QED
  BY <1>3, <1>4, <1>5 DEF Minimalized

LEMMA MinScanIs ==
  ASSUME NEW M \in Nat, NEW es \in [1 .. M -> [Vars -> Nat]], NEW comps \in [1 .. M -> Nat], NEW keep \in BOOLEAN
  PROVE  \E s : s.kept = Minimalize(es, comps, keep) /\ MinScanned(s, M, es, comps, Ascending(es, comps), keep)
<1> DEFINE pos == Ascending(es, comps)
           N == Len(pos)
           again(n) == Again(es, comps, pos, n)
           D == [table : GoodTables, kept : SUBSET (1 .. M), took : BOOLEAN]
           a == [table |-> EmptyTable, kept |-> {}, took |-> FALSE]
           P(f) == f = [n \in 0 .. N |-> IF n = 0 THEN a
                                         ELSE Minimalized(f[n - 1], es[pos[n]], comps[pos[n]], pos[n], again(n), keep)]
           G == [n \in 1 .. M |-> [s \in D |-> Minimalized(s, es[pos[n]], comps[pos[n]], pos[n], again(n), keep)]]
           g == CHOOSE f : P(f)
<1>1. Sorted(es, comps, pos, M) /\ N = M
  BY AscendingIs
<1>2. Minimalize(es, comps, keep) = g[N].kept
  BY DEF Minimalize, Again
<1>3. SUFFICES \E s : s.kept = Minimalize(es, comps, keep) /\ MinScanned(s, M, es, comps, pos, keep)
  OBVIOUS
<1> HIDE DEF pos, g, N
<1>4. \A n \in 1 .. M : pos[n] \in 1 .. M /\ es[pos[n]] \in [Vars -> Nat] /\ comps[pos[n]] \in Nat /\ again(n) \in BOOLEAN
  BY <1>1, SortedTypes DEF Again
<1> HIDE DEF again
<1>5. 1 .. M = DOMAIN es
  OBVIOUS
<1>6. a \in D /\ MinScanned(a, 0, es, comps, pos, keep)
  <2>1. a \in [table : GoodTables, kept : SUBSET (1 .. M), took : BOOLEAN] /\ a.kept = {} /\ a.table = EmptyTable
    BY EmptyIs
  <2> HIDE DEF a
  <2>2. \A e, c : ~Divided(a.table, e, c)
    BY <2>1, EmptyIs
  <2>3. 1 .. 0 = {}
    OBVIOUS
  <2>4. a.kept = {pos[k] : k \in {l \in 1 .. 0 : MinimalAt(es, comps, pos[l]) /\ (keep \/ ~Again(es, comps, pos, l))}}
    BY <2>1, <2>3
  <2>5. QED
    BY <1>5, <2>1, <2>2, <2>3, <2>4 DEF MinScanned
<1> HIDE DEF a
<1>7. ASSUME NEW n \in 1 .. M, NEW s \in D
      PROVE  Minimalized(s, es[pos[n]], comps[pos[n]], pos[n], again(n), keep) \in D
  BY <1>4, MinimalizedType
<1> HIDE DEF D
<1>8. \E f : P(f)
  <2>1. G \in [1 .. M -> [D -> D]]
    BY <1>7
  <2>2. \A n \in 1 .. M : \A s \in D : G[n][s] = Minimalized(s, es[pos[n]], comps[pos[n]], pos[n], again(n), keep)
    OBVIOUS
  <2> HIDE DEF G
  <2>3. PICK f : Iteration(f, D, a, M, G)
    BY <1>6, <2>1, Iterates
  <2>4. f \in [0 .. M -> D] /\ f[0] = a /\ \A n \in 1 .. M : f[n] = G[n][f[n - 1]]
    BY <2>3 DEF Iteration
  <2>5. ASSUME NEW n \in 1 .. M PROVE f[n] = Minimalized(f[n - 1], es[pos[n]], comps[pos[n]], pos[n], again(n), keep)
    <3>1. n - 1 \in 0 .. M
      OBVIOUS
    <3>2. f[n - 1] \in D
      BY <2>4, <3>1
    <3>3. QED
      BY <2>2, <2>4, <3>2
  <2>6. f = [n \in 0 .. N |-> f[n]]
    BY <1>1, <2>4
  <2>7. \A n \in 0 .. N : f[n] = IF n = 0 THEN a ELSE Minimalized(f[n - 1], es[pos[n]], comps[pos[n]], pos[n], again(n), keep)
    <3>1. \A n \in 0 .. N : n # 0 => n \in 1 .. M
      BY <1>1
    <3>2. QED
      BY <2>4, <2>5, <3>1
  <2>8. f = [n \in 0 .. N |-> IF n = 0 THEN a ELSE Minimalized(f[n - 1], es[pos[n]], comps[pos[n]], pos[n], again(n), keep)]
    BY <2>6, <2>7
  <2>9. QED
    BY <2>8
<1>9. P(g)
  <2> HIDE DEF P
  <2>1. QED
    BY <1>8 DEF g
<1>10. g[0] = a /\ \A n \in 1 .. M : g[n] = Minimalized(g[n - 1], es[pos[n]], comps[pos[n]], pos[n], again(n), keep)
  <2>1. 0 \in 0 .. N /\ \A n \in 1 .. M : n \in 0 .. N /\ n # 0
    BY <1>1
  <2>2. QED
    BY <1>9, <2>1
<1> DEFINE T == {n \in 0 .. M : MinScanned(g[n], n, es, comps, pos, keep)}
<1>11. 0 \in T
  BY <1>6, <1>10
<1>12. ASSUME NEW n \in 1 .. M, n - 1 \in T PROVE n \in T
  <2>1. MinScanned(g[n - 1], n - 1, es, comps, pos, keep)
    BY <1>12
  <2>2. MinScanned(Minimalized(g[n - 1], es[pos[n]], comps[pos[n]], pos[n], again(n), keep), n, es, comps, pos, keep)
    BY <1>1, <2>1, MinScanGoesOn DEF again
  <2>3. g[n] = Minimalized(g[n - 1], es[pos[n]], comps[pos[n]], pos[n], again(n), keep)
    BY <1>10
  <2>4. n \in 0 .. M
    OBVIOUS
  <2>5. QED
    BY <2>2, <2>3, <2>4
<1>13. M \in T
  <2> HIDE DEF T
  <2>1. \A n \in 0 .. M : n \in T
    BY <1>11, <1>12, Inducts
  <2>2. QED
    BY <2>1
<1>14. QED
  BY <1>1, <1>2, <1>13

\* Of the positions kept there is one with the monomial at j.
OneOf(kept, es, comps, j) == \E k : {i \in kept : es[i] = es[j] /\ comps[i] = comps[j]} = {k}

\* minimalize: all minimal monomials when duplicates are kept, and one of each otherwise.
LEMMA MinimalizeIs ==
  ASSUME NEW M \in Nat, NEW es \in [1 .. M -> [Vars -> Nat]], NEW comps \in [1 .. M -> Nat]
  PROVE  /\ Minimalize(es, comps, TRUE) = {j \in 1 .. M : MinimalAt(es, comps, j)}
         /\ Minimalize(es, comps, FALSE) \subseteq {j \in 1 .. M : MinimalAt(es, comps, j)}
         /\ \A j \in 1 .. M : MinimalAt(es, comps, j) => OneOf(Minimalize(es, comps, FALSE), es, comps, j)
<1> DEFINE pos == Ascending(es, comps)
           Kept(keep) == {pos[k] : k \in {l \in 1 .. M : MinimalAt(es, comps, pos[l]) /\ (keep \/ ~Again(es, comps, pos, l))}}
<1>1. Sorted(es, comps, pos, M)
  BY AscendingIs
<1>2. ASSUME NEW keep \in BOOLEAN PROVE Minimalize(es, comps, keep) = Kept(keep)
  <2>1. PICK s : s.kept = Minimalize(es, comps, keep) /\ MinScanned(s, M, es, comps, pos, keep)
    BY MinScanIs
  <2>2. QED
    BY <2>1 DEF MinScanned
<1> HIDE DEF pos
<1>3. \A k \in 1 .. M : pos[k] \in 1 .. M
  BY <1>1, SortedTypes
<1>4. \A j \in 1 .. M : \E k \in 1 .. M : pos[k] = j
  BY <1>1 DEF Sorted
<1>5. Minimalize(es, comps, TRUE) = {j \in 1 .. M : MinimalAt(es, comps, j)}
  <2>1. Minimalize(es, comps, TRUE) = Kept(TRUE)
    BY <1>2
  <2>2. ASSUME NEW j PROVE j \in Kept(TRUE) <=> j \in 1 .. M /\ MinimalAt(es, comps, j)
    BY <1>3, <1>4
  <2> HIDE DEF Kept
  <2>3. QED
    BY <2>1, <2>2
<1>6. Minimalize(es, comps, FALSE) = Kept(FALSE)
  BY <1>2
<1>7. ASSUME NEW j PROVE j \in Kept(FALSE) <=> \E k \in 1 .. M : j = pos[k] /\ MinimalAt(es, comps, pos[k]) /\ ~Again(es, comps, pos, k)
  OBVIOUS
<1> HIDE DEF Kept
<1>8. Minimalize(es, comps, FALSE) \subseteq {j \in 1 .. M : MinimalAt(es, comps, j)}
  <2>1. SUFFICES ASSUME NEW j \in Kept(FALSE) PROVE j \in 1 .. M /\ MinimalAt(es, comps, j)
    BY <1>6
  <2>2. PICK k \in 1 .. M : j = pos[k] /\ MinimalAt(es, comps, pos[k])
    BY <1>7
  <2>3. QED
    BY <1>3, <2>2
<1>9. ASSUME NEW j \in 1 .. M, MinimalAt(es, comps, j)
      PROVE  OneOf(Minimalize(es, comps, FALSE), es, comps, j)
  <2>1. PICK k \in 1 .. M : Same(es, comps, pos[k], j) /\ ~Again(es, comps, pos, k)
    BY <1>1, FirstOfTheSame
  <2>2. MinimalAt(es, comps, pos[k])
    BY <1>9, <2>1 DEF MinimalAt, Same, Smaller
  <2>3. pos[k] \in Kept(FALSE) /\ es[pos[k]] = es[j] /\ comps[pos[k]] = comps[j]
    BY <1>7, <2>1, <2>2 DEF Same
  <2>4. ASSUME NEW i \in Kept(FALSE), es[i] = es[j], comps[i] = comps[j] PROVE i = pos[k]
    <3>1. PICK l \in 1 .. M : i = pos[l] /\ ~Again(es, comps, pos, l)
      BY <1>7
    <3>2. Same(es, comps, pos[k], pos[l]) /\ Same(es, comps, pos[l], pos[k])
      BY <2>3, <2>4, <3>1 DEF Same
    <3>3. ~(k < l) /\ ~(l < k)
      BY <1>1, <2>1, <3>1, <3>2, SameTogether
    <3>4. k = l
      BY <3>3
    <3>5. QED
      BY <3>1, <3>4
  <2>5. {i \in Kept(FALSE) : es[i] = es[j] /\ comps[i] = comps[j]} = {pos[k]}
    BY <2>3, <2>4
  <2>6. QED
    BY <1>6, <2>5 DEF OneOf
<1>10. QED
  BY <1>5, <1>8, <1>9

-----------------------------------------------------------------------------
(* Chains.                                                                  *)

LEMMA LcmIs ==
  ASSUME NEW a \in [Vars -> Nat], NEW b \in [Vars -> Nat]
  PROVE  /\ Lcm(a, b) \in [Vars -> Nat] /\ Divides(a, Lcm(a, b)) /\ Divides(b, Lcm(a, b)) /\ Lcm(a, b) = Lcm(b, a)
         /\ \A c \in [Vars -> Nat] : Divides(a, c) /\ Divides(b, c) => Divides(Lcm(a, b), c)
<1>1. \A v \in Vars : a[v] \in Nat /\ b[v] \in Nat /\ Lcm(a, b)[v] = IF a[v] < b[v] THEN b[v] ELSE a[v]
  BY DEF Lcm
<1>2. Lcm(a, b) \in [Vars -> Nat]
  BY <1>1 DEF Lcm
<1>3. Lcm(b, a) \in [Vars -> Nat] /\ \A v \in Vars : Lcm(b, a)[v] = IF b[v] < a[v] THEN a[v] ELSE b[v]
  BY <1>1 DEF Lcm
<1>4. Divides(a, Lcm(a, b)) /\ Divides(b, Lcm(a, b))
  BY <1>1 DEF Divides
<1>5. \A v \in Vars : Lcm(a, b)[v] = Lcm(b, a)[v]
  BY <1>1, <1>3
<1>6. Lcm(a, b) = Lcm(b, a)
  BY <1>2, <1>3, <1>5, Differ
<1>7. \A c \in [Vars -> Nat] : Divides(a, c) /\ Divides(b, c) => Divides(Lcm(a, b), c)
  BY <1>1 DEF Divides
<1>8. QED
  BY <1>2, <1>4, <1>6, <1>7

\* Every part of B that has a and is closed under E has b.
Linked(E, B, a, b) ==
  \A side \in SUBSET B : a \in side /\ (\A m \in side, n \in B : <<m, n>> \in E => n \in side) => b \in side

Below(nodes, t) == {n \in nodes : Divides(n.lead, t)}

LEMMA LinkStep ==
  ASSUME NEW E, NEW B, NEW a \in B, NEW b \in B, <<a, b>> \in E
  PROVE  Linked(E, B, a, b)
BY DEF Linked

LEMMA LinkSelf ==
  ASSUME NEW E, NEW B, NEW a
  PROVE  Linked(E, B, a, a)
BY DEF Linked

LEMMA LinkTransitive ==
  ASSUME NEW E, NEW B, NEW a, NEW b, NEW c, Linked(E, B, a, b), Linked(E, B, b, c)
  PROVE  Linked(E, B, a, c)
BY DEF Linked

LEMMA LinkSymmetric ==
  ASSUME NEW E, \A x, y : <<x, y>> \in E => <<y, x>> \in E,
         NEW B, NEW a \in B, NEW b \in B, Linked(E, B, a, b)
  PROVE  Linked(E, B, b, a)
<1>1. SUFFICES ASSUME NEW side \in SUBSET B, b \in side, \A m \in side, n \in B : <<m, n>> \in E => n \in side, a \notin side
               PROVE  FALSE
  BY DEF Linked
<1> DEFINE other == B \ side
<1>2. other \in SUBSET B /\ a \in other /\ b \notin other
  BY <1>1
<1>3. \A m \in other, n \in B : <<m, n>> \in E => n \in other
  BY <1>1
<1>4. QED
  BY <1>2, <1>3 DEF Linked

\* Links carry over to a larger part in which each of their steps is linked.
LEMMA LinkCarries ==
  ASSUME NEW E, NEW B, NEW F, NEW C, B \subseteq C,
         \A m, n \in B : <<m, n>> \in E => Linked(F, C, m, n),
         NEW a \in B, NEW b, Linked(E, B, a, b)
  PROVE  Linked(F, C, a, b)
<1>1. SUFFICES ASSUME NEW side \in SUBSET C, a \in side, \A m \in side, n \in C : <<m, n>> \in F => n \in side
               PROVE  b \in side
  BY DEF Linked
<1> DEFINE part == side \cap B
<1>2. part \in SUBSET B /\ a \in part
  BY <1>1
<1>3. \A m \in part, n \in B : <<m, n>> \in E => n \in part
  <2>1. SUFFICES ASSUME NEW m \in part, NEW n \in B, <<m, n>> \in E PROVE n \in side
    OBVIOUS
  <2>2. Linked(F, C, m, n) /\ m \in side
    BY <2>1
  <2>3. QED
    BY <1>1, <2>2 DEF Linked
<1>4. b \in part
  BY <1>2, <1>3 DEF Linked
<1>5. QED
  BY <1>4

\* The chain criterion: a new element m joins the others by a settled pair below each lcm,
\* and an edge that is given up has a chain through m with smaller lcms.
LEMMA Chains ==
  ASSUME NEW N, NEW m, NEW E, NEW F,
         \A x \in N \cup {m} : x.lead \in [Vars -> Nat],
         \A x, y : <<x, y>> \in F => <<y, x>> \in F,
         \A a, b \in N : Linked(E, Below(N, Lcm(a.lead, b.lead)), a, b),
         \A x, y \in N : <<x, y>> \in E =>
           \/ <<x, y>> \in F
           \/ /\ Divides(m.lead, Lcm(x.lead, y.lead))
              /\ Lcm(m.lead, x.lead) # Lcm(x.lead, y.lead) /\ Lcm(m.lead, y.lead) # Lcm(x.lead, y.lead),
         \A x \in N : \E y \in N : <<m, y>> \in F /\ Divides(y.lead, Lcm(m.lead, x.lead))
  PROVE  \A a, b \in N \cup {m} : Linked(F, Below(N \cup {m}, Lcm(a.lead, b.lead)), a, b)
<1> DEFINE M == N \cup {m}
           Mon == [Vars -> Nat]
           Claim(t) == \A a, b \in Below(M, t) : Linked(F, Below(M, t), a, b)
           Bad == {t \in Mon : ~Claim(t)}
           W == {Weight(t) : t \in Bad}
<1>1. \A t \in Mon : Weight(t) \in Nat
  BY DividesReflexive, WeightMonotone
<1>2. ASSUME NEW t \in Mon, ~Claim(t) PROVE \E u \in Mon : ~Claim(u) /\ \A w \in Mon : Divides(w, u) /\ w # u => Claim(w)
  <2> HIDE DEF Claim
  <2>1. t \in Bad /\ Bad \in SUBSET Mon
    BY <1>2
  <2>2. W \in SUBSET Nat /\ W # {}
    BY <1>1, <2>1
  <2>3. PICK k \in W : \A l \in W : k <= l
    <3> HIDE DEF W
    <3>1. QED
      BY <2>2, LeastNat
  <2>4. PICK u \in Bad : k = Weight(u)
    OBVIOUS
  <2>5. ASSUME NEW w \in Mon, Divides(w, u), w # u, ~Claim(w) PROVE FALSE
    <3>1. Weight(w) < Weight(u) /\ Weight(w) \in Nat /\ Weight(u) \in Nat
      BY <2>4, <2>5, WeightMonotone
    <3>2. Weight(w) \in W
      BY <2>5
    <3>3. k <= Weight(w)
      <4> HIDE DEF W
      <4>1. QED
        BY <2>3, <3>2
    <3>4. QED
      BY <2>4, <3>1, <3>3
  <2>6. QED
    BY <2>4, <2>5
<1>3. ASSUME NEW t \in Mon, \A w \in Mon : Divides(w, t) /\ w # t => Claim(w) PROVE Claim(t)
  <2> DEFINE C == Below(M, t)
  <2>1. \A x \in C : x \in M /\ x.lead \in Mon /\ Divides(x.lead, t)
    BY DEF Below
  \* Edges that are kept, and those that go through m.
  <2>2. ASSUME NEW x \in N, NEW y \in N, x \in C, y \in C, <<x, y>> \in E PROVE Linked(F, C, x, y)
    <3>1. CASE <<x, y>> \in F
      BY <2>2, <3>1, LinkStep
    <3>2. CASE /\ Divides(m.lead, Lcm(x.lead, y.lead))
               /\ Lcm(m.lead, x.lead) # Lcm(x.lead, y.lead) /\ Lcm(m.lead, y.lead) # Lcm(x.lead, y.lead)
      <4> DEFINE l == Lcm(x.lead, y.lead)
      <4>1. x.lead \in Mon /\ y.lead \in Mon /\ m.lead \in Mon /\ Divides(x.lead, t) /\ Divides(y.lead, t)
        BY <2>1, <2>2
      <4>2. l \in Mon /\ Divides(x.lead, l) /\ Divides(y.lead, l) /\ Divides(l, t)
        BY <4>1, LcmIs
      <4>3. Divides(m.lead, t) /\ m \in C
        BY <3>2, <4>1, <4>2, DividesOrder DEF Below
      <4>4. ASSUME NEW z \in C, Divides(z.lead, l), Lcm(m.lead, z.lead) # l PROVE Linked(F, C, z, m)
        <5> DEFINE w == Lcm(m.lead, z.lead)
        <5>1. z.lead \in Mon
          BY <2>1
        <5>2. w \in Mon /\ Divides(w, l) /\ Divides(m.lead, w) /\ Divides(z.lead, w)
          BY <3>2, <4>1, <4>2, <4>4, <5>1, LcmIs
        <5>3. Divides(w, t) /\ w # t
          <6> HIDE DEF w, l
          <6>1. Divides(w, t)
            BY <4>2, <5>2, DividesOrder
          <6>2. w = t => w = l
            BY <4>2, <5>2, DividesOrder
          <6>3. w # l
            BY <4>4 DEF w, l
          <6>4. QED
            BY <6>1, <6>2, <6>3
        <5>4. Claim(w)
          BY <1>3, <5>2, <5>3
        <5>5. z \in Below(M, w) /\ m \in Below(M, w)
          BY <2>1, <5>2 DEF Below
        <5>6. Linked(F, Below(M, w), z, m)
          BY <5>4, <5>5
        <5>7. Below(M, w) \subseteq C
          <6>1. SUFFICES ASSUME NEW n \in M, Divides(n.lead, w) PROVE Divides(n.lead, t)
            BY DEF Below
          <6>2. n.lead \in Mon
            OBVIOUS
          <6>3. QED
            BY <5>2, <5>3, <6>1, <6>2, DividesOrder
        <5>8. \A n, k \in Below(M, w) : <<n, k>> \in F => Linked(F, C, n, k)
          BY <5>7, LinkStep
        <5>9. QED
          BY <5>5, <5>6, <5>7, <5>8, LinkCarries
      <4>5. Linked(F, C, x, m)
        BY <2>2, <3>2, <4>2, <4>4
      <4>6. Linked(F, C, y, m)
        BY <2>2, <3>2, <4>2, <4>4
      <4>7. Linked(F, C, m, y)
        BY <2>2, <4>3, <4>6, LinkSymmetric
      <4>8. QED
        BY <4>5, <4>7, LinkTransitive
    <3>3. \/ <<x, y>> \in F
          \/ /\ Divides(m.lead, Lcm(x.lead, y.lead))
             /\ Lcm(m.lead, x.lead) # Lcm(x.lead, y.lead) /\ Lcm(m.lead, y.lead) # Lcm(x.lead, y.lead)
      <4> HIDE DEF C
      <4>1. QED
        BY <2>2
    <3>4. QED
      BY <3>1, <3>2, <3>3
  \* The others are linked as before,
  <2>3. ASSUME NEW x \in N, NEW y \in N, x \in C, y \in C PROVE Linked(F, C, x, y)
    <3> DEFINE l == Lcm(x.lead, y.lead)
    <3>1. x.lead \in Mon /\ y.lead \in Mon /\ Divides(x.lead, t) /\ Divides(y.lead, t)
      BY <2>1, <2>3
    <3>2. l \in Mon /\ Divides(x.lead, l) /\ Divides(l, t)
      BY <3>1, LcmIs
    <3>3. Linked(E, Below(N, l), x, y) /\ x \in Below(N, l)
      BY <3>2 DEF Below
    <3>4. Below(N, l) \subseteq C
      <4>1. SUFFICES ASSUME NEW n \in N, Divides(n.lead, l) PROVE Divides(n.lead, t)
        BY DEF Below
      <4>2. n.lead \in Mon
        OBVIOUS
      <4>3. QED
        BY <3>2, <4>1, <4>2, DividesOrder
    <3>5. \A n, k \in Below(N, l) : n \in N /\ k \in N
      BY DEF Below
    <3>6. \A n, k \in Below(N, l) : <<n, k>> \in E => Linked(F, C, n, k)
      BY <2>2, <3>4, <3>5
    <3>7. QED
      <4> DEFINE B == Below(N, l)
      <4>1. B \subseteq C /\ x \in B /\ Linked(E, B, x, y) /\ \A n, k \in B : <<n, k>> \in E => Linked(F, C, n, k)
        BY <3>3, <3>4, <3>6
      <4> HIDE DEF B, C
      <4>2. QED
        BY <4>1, LinkCarries
  \* and m is linked with one of them below any lcm.
  <2>4. ASSUME NEW x \in N, x \in C, m \in C PROVE Linked(F, C, m, x)
    <3>1. PICK y \in N : <<m, y>> \in F /\ Divides(y.lead, Lcm(m.lead, x.lead))
      OBVIOUS
    <3>2. x.lead \in Mon /\ m.lead \in Mon /\ y.lead \in Mon /\ Divides(x.lead, t) /\ Divides(m.lead, t)
      BY <2>1, <2>4
    <3>3. Lcm(m.lead, x.lead) \in Mon /\ Divides(Lcm(m.lead, x.lead), t)
      BY <3>2, LcmIs
    <3>4. Divides(y.lead, t)
      BY <3>1, <3>2, <3>3, DividesOrder
    <3>5. y \in C
      BY <3>4 DEF Below
    <3>6. Linked(F, C, m, y) /\ Linked(F, C, y, x)
      BY <2>3, <2>4, <3>1, <3>5, LinkStep
    <3>7. QED
      BY <3>6, LinkTransitive
  <2>5. ASSUME NEW a \in C, NEW b \in C PROVE Linked(F, C, a, b)
    <3>1. a \in N \/ a = m
      BY <2>1
    <3>2. b \in N \/ b = m
      BY <2>1
    <3>3. a \in N /\ b = m => Linked(F, C, a, b)
      BY <2>4, <2>5, LinkSymmetric
    <3>4. QED
      BY <2>3, <2>4, <3>1, <3>2, <3>3, LinkSelf
  <2>6. QED
    BY <2>5
<1>4. \A t \in Mon : Claim(t)
  BY <1>2, <1>3
<1>5. SUFFICES ASSUME NEW a \in M, NEW b \in M PROVE Linked(F, Below(M, Lcm(a.lead, b.lead)), a, b)
  OBVIOUS
<1>6. a.lead \in Mon /\ b.lead \in Mon
  OBVIOUS
<1>7. Lcm(a.lead, b.lead) \in Mon /\ a \in Below(M, Lcm(a.lead, b.lead)) /\ b \in Below(M, Lcm(a.lead, b.lead))
  BY <1>6, LcmIs DEF Below
<1>8. QED
  BY <1>4, <1>7

-----------------------------------------------------------------------------
(* States and the pairs of an element.                                      *)

\* The images of a finite set under a function.
LEMMA FiniteImage ==
  ASSUME NEW S, IsFiniteSet(S), NEW f, DOMAIN f = S
  PROVE  IsFiniteSet({f[x] : x \in S})
<1> DEFINE T == {f[x] : x \in S}
           g == [x \in S |-> f[x]]
<1>1. g \in [S -> T] /\ \A t \in T : \E x \in S : g[x] = t
  OBVIOUS
<1> HIDE DEF g, T
<1>2. g \in Surjection(S, T)
  BY <1>1, Fun_IsSurj
<1>3. IsFiniteSet(T)
  BY <1>2, FS_Surjection
<1>4. QED
  BY <1>3 DEF T

LEMMA InputTypes ==
  ASSUME NEW c \in Inputs
  PROVE  /\ \A e \in LeadsOf(c) : e \in [Vars -> Nat] /\ \A v \in c.skew : e[v] <= 1
         /\ c.skew \subseteq Vars /\ c.components \subseteq Nat \ {0} /\ c.is_ideal \in BOOLEAN
         /\ c.ring \in Seq([lead : LeadsOf(c), gap : Nat]) /\ Len(c.ring) \in Nat
<1>1. /\ c.max_exp \in [Vars -> Nat] /\ c.skew \subseteq Vars
      /\ \A v \in c.skew : c.max_exp[v] <= 1
      /\ c.components \subseteq Nat \ {0} /\ c.is_ideal \in BOOLEAN
      /\ c.ring \in Seq([lead : LeadsOf(c), gap : Nat])
  BY PairsAssumption
<1>2. ASSUME NEW e \in LeadsOf(c) PROVE e \in [Vars -> Nat] /\ \A v \in c.skew : e[v] <= 1
  <2>1. e \in [Vars -> UNION {0 .. c.max_exp[v] : v \in Vars}] /\ \A v \in Vars : e[v] <= c.max_exp[v]
    BY DEF LeadsOf
  <2>2. UNION {0 .. c.max_exp[v] : v \in Vars} \subseteq Nat
    OBVIOUS
  <2> DEFINE U == UNION {0 .. c.max_exp[v] : v \in Vars}
  <2> HIDE DEF U
  <2>3. e \in [Vars -> Nat]
    BY <2>1, <2>2 DEF U
  <2>4. \A v \in c.skew : e[v] <= 1
    BY <1>1, <2>1, <2>3
  <2>5. QED
    BY <2>3, <2>4
<1>3. Len(c.ring) \in Nat
  <2> DEFINE R == [lead : LeadsOf(c), gap : Nat]
  <2> HIDE DEF R
  <2>1. c.ring \in Seq(R)
    BY <1>1 DEF R
  <2>2. QED
    BY <2>1
<1>4. QED
  BY <1>1, <1>2, <1>3

Element == [lead : Leads, gap : Nat, comp : {0} \cup Components, deg : Nat, mingb : BOOLEAN]

LEMMA StateTypes ==
  ASSUME StateInv
  PROVE  /\ Len(gb) \in Nat /\ Indices = 1 .. Len(gb) /\ Len(RingElements) \in Nat
         /\ first_gb_element = Len(RingElements) + 1 /\ first_gb_element <= Len(gb) + 1
         /\ np_i \in Nat /\ first_gb_element <= np_i /\ np_i <= Len(gb) + 1 /\ this_degree \in Int
         /\ SkewVars \subseteq Vars /\ Components \subseteq Nat \ {0} /\ IsIdeal \in BOOLEAN
         /\ \A e \in Leads : e \in [Vars -> Nat] /\ \A v \in SkewVars : e[v] <= 1
         /\ \A i \in 1 .. Len(gb) : /\ gb[i] \in Element /\ gb[i].lead \in Leads /\ gb[i].lead \in [Vars -> Nat]
                                    /\ gb[i].gap \in Nat /\ gb[i].comp \in Nat /\ gb[i].deg \in Nat
                                    /\ gb[i].mingb \in BOOLEAN
<1>1. input \in Inputs /\ gb \in Seq(Element)
  BY DEF StateInv, Element
<1>2. Len(gb) \in Nat /\ Indices = 1 .. Len(gb) /\ \A i \in 1 .. Len(gb) : gb[i] \in Element
  <2> HIDE DEF Element
  <2>1. QED
    BY <1>1 DEF Indices
<1>3. /\ \A e \in Leads : e \in [Vars -> Nat] /\ \A v \in SkewVars : e[v] <= 1
      /\ SkewVars \subseteq Vars /\ Components \subseteq Nat \ {0} /\ IsIdeal \in BOOLEAN /\ Len(RingElements) \in Nat
  BY <1>1, InputTypes DEF Leads, SkewVars, Components, IsIdeal, RingElements
<1>4. /\ first_gb_element = Len(RingElements) + 1 /\ first_gb_element <= Len(gb) + 1
      /\ np_i \in Nat /\ first_gb_element <= np_i /\ np_i <= Len(gb) + 1 /\ this_degree \in Int
  <2>1. /\ Len(RingElements) <= Len(gb) /\ first_gb_element = Len(RingElements) + 1
        /\ np_i \in first_gb_element .. Len(gb) + 1 /\ this_degree \in -1 .. MaxDegree /\ MaxDegree \in Nat
    BY PairsAssumption DEF StateInv, first_gb_element
  <2>2. Len(gb) \in Nat /\ Len(RingElements) \in Nat
    BY <1>2, <1>3
  <2>3. QED
    BY <2>1, <2>2
<1>5. \A i \in 1 .. Len(gb) : /\ gb[i].lead \in Leads /\ gb[i].gap \in Nat /\ gb[i].deg \in Nat
                              /\ gb[i].mingb \in BOOLEAN /\ gb[i].comp \in {0} \cup Components
  BY <1>2 DEF Element
<1>6. \A i \in 1 .. Len(gb) : gb[i].lead \in [Vars -> Nat] /\ gb[i].comp \in Nat
  <2>1. {0} \cup Components \subseteq Nat
    BY <1>3
  <2>2. Leads \subseteq [Vars -> Nat]
    BY <1>3
  <2>3. QED
    BY <1>5, <2>1, <2>2
<1>7. QED
  BY <1>2, <1>3, <1>4, <1>5, <1>6

\* The pairs of an element, one kind at a time.
RingPairs(id) == {SpairMake("ring", id, i) : i \in 1 .. first_gb_element - 1}
SkewPairs(id) == {SpairMakeSkew(id, v) : v \in {w \in SkewVars : gb[id].lead[w] > 0}}
BasisPairs(id) ==
  {SpairMake("spair", id, i) : i \in {k \in first_gb_element .. id - 1 : gb[k].mingb /\ gb[k].comp = gb[id].comp}}

LEMMA NewSetSplit ==
  ASSUME NEW id
  PROVE  NewSet(id) = SkewPairs(id) \cup RingPairs(id) \cup BasisPairs(id)
BY DEF NewSet, SkewPairs, RingPairs, BasisPairs

LEMMA PowerIs ==
  ASSUME NEW v \in Vars
  PROVE  Power(v, 2) \in [Vars -> Nat] /\ Power(v, 2)[v] = 2 /\ \A w \in Vars : w # v => Power(v, 2)[w] = 0
BY DEF Power

LEMMA NewSetFinite ==
  ASSUME StateInv, NEW id \in 1 .. Len(gb)
  PROVE  IsFiniteSet(NewSet(id))
<1>1. /\ Len(RingElements) \in Nat /\ first_gb_element = Len(RingElements) + 1
      /\ SkewVars \subseteq Vars /\ NVars \in Nat
  BY StateTypes, MonomialAssumption
<1>2. IsFiniteSet(SkewPairs(id))
  <2> DEFINE S == {w \in SkewVars : gb[id].lead[w] > 0}
             f == [v \in S |-> SpairMakeSkew(id, v)]
  <2>1. IsFiniteSet(1 .. NVars)
    BY <1>1, FS_Interval
  <2>2. S \subseteq 1 .. NVars
    BY <1>1 DEF Vars
  <2>3. SkewPairs(id) = {f[v] : v \in S} /\ DOMAIN f = S
    BY DEF SkewPairs
  <2> HIDE DEF S, f
  <2>4. IsFiniteSet(S)
    BY <2>1, <2>2, FS_Subset
  <2>5. QED
    BY <2>3, <2>4, FiniteImage
<1>3. IsFiniteSet(RingPairs(id))
  <2> DEFINE S == 1 .. first_gb_element - 1
             f == [i \in S |-> SpairMake("ring", id, i)]
  <2>1. first_gb_element - 1 \in Nat
    BY <1>1
  <2>2. IsFiniteSet(S)
    BY <2>1, FS_Interval
  <2>3. RingPairs(id) = {f[v] : v \in S} /\ DOMAIN f = S
    BY DEF RingPairs
  <2> HIDE DEF S, f
  <2>4. QED
    BY <2>2, <2>3, FiniteImage
<1>4. IsFiniteSet(BasisPairs(id))
  <2> DEFINE S == {k \in first_gb_element .. id - 1 : gb[k].mingb /\ gb[k].comp = gb[id].comp}
             f == [i \in S |-> SpairMake("spair", id, i)]
  <2>1. IsFiniteSet(1 .. id)
    BY FS_Interval
  <2>2. S \subseteq 1 .. id
    BY <1>1
  <2>3. BasisPairs(id) = {f[v] : v \in S} /\ DOMAIN f = S
    BY DEF BasisPairs
  <2> HIDE DEF S, f
  <2>4. IsFiniteSet(S)
    BY <2>1, <2>2, FS_Subset
  <2>5. QED
    BY <2>3, <2>4, FiniteImage
<1>5. QED
  BY <1>2, <1>3, <1>4, NewSetSplit, FS_Union

\* The degree of a pair is that of its lcm and the greater gap of its elements: it is beyond
\* that of its new element, whose lead term no earlier one divides.
LEMMA SpairIs ==
  ASSUME StateInv, ElementInv, NEW id \in 1 .. Len(gb), gb[id].mingb,
         NEW i \in 1 .. id - 1, gb[i].comp \in {0, gb[id].comp}, NEW type
  PROVE  LET p == SpairMake(type, id, i)
         IN  /\ p.type = type /\ p.i = id /\ p.j = i
             /\ p.lcm = Lcm(gb[id].lead, gb[i].lead) /\ p.lcm \in [Vars -> Nat]
             /\ p.deg \in Nat /\ p.deg > gb[id].deg /\ p.deg >= gb[i].deg
<1> DEFINE p == SpairMake(type, id, i)
           l == Lcm(gb[id].lead, gb[i].lead)
<1>1. /\ Len(gb) \in Nat /\ Indices = 1 .. Len(gb) /\ i \in 1 .. Len(gb)
      /\ gb[id].lead \in [Vars -> Nat] /\ gb[i].lead \in [Vars -> Nat]
      /\ gb[id].gap \in Nat /\ gb[i].gap \in Nat /\ gb[id].deg \in Nat /\ gb[i].deg \in Nat
  <2>1. Len(gb) \in Nat
    BY StateTypes
  <2>2. i \in 1 .. Len(gb)
    BY <2>1
  <2>3. QED
    BY <2>2, StateTypes
<1>2. l \in [Vars -> Nat] /\ Divides(gb[id].lead, l) /\ Divides(gb[i].lead, l)
  BY <1>1, LcmIs
<1>3. gb[id].deg = Weight(gb[id].lead) + gb[id].gap /\ gb[i].deg = Weight(gb[i].lead) + gb[i].gap
  BY <1>1 DEF ElementInv
<1>4. ~Divides(gb[i].lead, gb[id].lead)
  <2>1. i < id
    BY <1>1
  <2>2. QED
    BY <1>1, <2>1 DEF ElementInv
<1>5. gb[id].lead # l
  BY <1>2, <1>4
<1>6. /\ Weight(gb[id].lead) \in Nat /\ Weight(gb[i].lead) \in Nat /\ Weight(l) \in Nat
      /\ Weight(gb[id].lead) < Weight(l) /\ Weight(gb[i].lead) <= Weight(l)
  <2> HIDE DEF l
  <2>1. QED
    BY <1>1, <1>2, <1>5, WeightMonotone
<1>7. /\ p.type = type /\ p.i = id /\ p.j = i /\ p.lcm = l
      /\ p.deg = gb[id].deg + Weight(l) - Weight(gb[id].lead)
                   + IF gb[i].gap > gb[id].gap THEN gb[i].gap - gb[id].gap ELSE 0
  BY DEF SpairMake, LcmDegree
<1> HIDE DEF p, l
<1>8. p.deg \in Nat /\ p.deg > gb[id].deg /\ p.deg >= gb[i].deg
  <2>1. ASSUME NEW wi \in Nat, NEW wj \in Nat, NEW w \in Nat, NEW gi \in Nat, NEW gj \in Nat, wi < w, wj <= w
        PROVE  LET d == wi + gi + w - wi + IF gj > gi THEN gj - gi ELSE 0
               IN  d \in Nat /\ d > wi + gi /\ d >= wj + gj
    BY <2>1
  <2> DEFINE d == Weight(gb[id].lead) + gb[id].gap + Weight(l) - Weight(gb[id].lead)
                    + IF gb[i].gap > gb[id].gap THEN gb[i].gap - gb[id].gap ELSE 0
  <2>2. d \in Nat /\ d > Weight(gb[id].lead) + gb[id].gap /\ d >= Weight(gb[i].lead) + gb[i].gap
    BY <1>1, <1>6, <2>1
  <2>3. p.deg = d
    BY <1>3, <1>7
  <2> HIDE DEF d
  <2>4. QED
    BY <1>3, <2>2, <2>3
<1>9. QED
  BY <1>2, <1>7, <1>8 DEF p, l

LEMMA SkewPairIs ==
  ASSUME StateInv, ElementInv, NEW id \in 1 .. Len(gb), NEW v \in SkewVars
  PROVE  LET p == SpairMakeSkew(id, v)
         IN  /\ p.type = "skew" /\ p.i = id /\ p.j = v
             /\ p.lcm = Lcm(gb[id].lead, Power(v, 2)) /\ p.lcm \in [Vars -> Nat]
             /\ p.deg \in Nat /\ p.deg > gb[id].deg
<1> DEFINE p == SpairMakeSkew(id, v)
           l == Lcm(gb[id].lead, Power(v, 2))
<1>1. /\ Len(gb) \in Nat /\ Indices = 1 .. Len(gb) /\ v \in Vars
      /\ gb[id].lead \in [Vars -> Nat] /\ gb[id].gap \in Nat /\ gb[id].deg \in Nat /\ gb[id].lead[v] <= 1
  BY StateTypes
<1>2. Power(v, 2) \in [Vars -> Nat] /\ Power(v, 2)[v] = 2
  BY <1>1, PowerIs
<1>3. l \in [Vars -> Nat] /\ Divides(gb[id].lead, l) /\ Divides(Power(v, 2), l)
  BY <1>1, <1>2, LcmIs
<1>4. ~Divides(Power(v, 2), gb[id].lead)
  <2>1. gb[id].lead[v] \in Nat
    BY <1>1
  <2>2. ~(2 <= gb[id].lead[v])
    BY <1>1, <2>1
  <2>3. QED
    BY <1>1, <1>2, <2>2 DEF Divides
<1>5. gb[id].lead # l
  BY <1>3, <1>4
<1>6. Weight(gb[id].lead) \in Nat /\ Weight(l) \in Nat /\ Weight(gb[id].lead) < Weight(l)
  <2> HIDE DEF l
  <2>1. QED
    BY <1>1, <1>3, <1>5, WeightMonotone
<1>7. /\ p.type = "skew" /\ p.i = id /\ p.j = v /\ p.lcm = l
      /\ p.deg = gb[id].deg + Weight(l) - Weight(gb[id].lead)
  BY DEF SpairMakeSkew, LcmDegree
<1> HIDE DEF p, l
<1>8. p.deg \in Nat /\ p.deg > gb[id].deg
  BY <1>1, <1>6, <1>7
<1>9. QED
  BY <1>3, <1>7, <1>8 DEF p, l

\* What the pairs of element id are.
PairOf(p, id) ==
  /\ p.i = id /\ p.lcm \in [Vars -> Nat] /\ p.deg \in Nat /\ p.deg > gb[id].deg
  /\ \/ /\ p.type = "skew" /\ p.j \in SkewVars /\ gb[id].lead[p.j] > 0
        /\ p.lcm = Lcm(gb[id].lead, Power(p.j, 2))
     \/ /\ p.type = "ring" /\ p.j \in 1 .. first_gb_element - 1
        /\ p.lcm = Lcm(gb[id].lead, gb[p.j].lead) /\ p.deg >= gb[p.j].deg
     \/ /\ p.type = "spair" /\ p.j \in first_gb_element .. id - 1 /\ gb[p.j].mingb /\ gb[p.j].comp = gb[id].comp
        /\ p.lcm = Lcm(gb[id].lead, gb[p.j].lead) /\ p.deg >= gb[p.j].deg

LEMMA NewSetIs ==
  ASSUME StateInv, ElementInv, NEW id \in first_gb_element .. Len(gb), gb[id].mingb
  PROVE  /\ GoodPairs(NewSet(id))
         /\ \A p \in NewSet(id) : PairOf(p, id)
<1>1. /\ Len(gb) \in Nat /\ Indices = 1 .. Len(gb) /\ Len(RingElements) \in Nat
      /\ first_gb_element = Len(RingElements) + 1 /\ id \in 1 .. Len(gb)
  <2>1. Len(gb) \in Nat /\ Len(RingElements) \in Nat /\ first_gb_element = Len(RingElements) + 1 /\ Indices = 1 .. Len(gb)
    BY StateTypes
  <2>2. QED
    BY <2>1
<1>2. ASSUME NEW v \in SkewVars, gb[id].lead[v] > 0 PROVE PairOf(SpairMakeSkew(id, v), id)
  BY <1>1, <1>2, SkewPairIs DEF PairOf
<1>3. ASSUME NEW i \in 1 .. first_gb_element - 1 PROVE PairOf(SpairMake("ring", id, i), id)
  <2>1. i \in 1 .. id - 1 /\ i \in 1 .. Len(gb) /\ i < first_gb_element
    BY <1>1
  <2>2. gb[i].comp = 0
    BY <1>1, <2>1 DEF ElementInv
  <2>3. QED
    BY <1>1, <2>1, <2>2, SpairIs DEF PairOf
<1>4. ASSUME NEW i \in first_gb_element .. id - 1, gb[i].mingb, gb[i].comp = gb[id].comp
      PROVE  PairOf(SpairMake("spair", id, i), id)
  <2>1. i \in 1 .. id - 1
    BY <1>1
  <2>2. QED
    BY <1>1, <1>4, <2>1, SpairIs DEF PairOf
<1>5. \A p \in NewSet(id) : PairOf(p, id)
  <2> HIDE DEF PairOf
  <2>1. \A p \in SkewPairs(id) : PairOf(p, id)
    BY <1>2 DEF SkewPairs
  <2>2. \A p \in RingPairs(id) : PairOf(p, id)
    BY <1>3 DEF RingPairs
  <2>3. \A p \in BasisPairs(id) : PairOf(p, id)
    BY <1>4 DEF BasisPairs
  <2>4. QED
    BY <2>1, <2>2, <2>3, NewSetSplit
<1>6. IsFiniteSet(NewSet(id))
  BY <1>1, NewSetFinite
<1>7. QED
  BY <1>5, <1>6 DEF GoodPairs, PairOf

\* The elements that are there stay as they are.
ElementsStay == input' = input /\ \A i \in 1 .. Len(gb) : gb'[i] = gb[i]

LEMMA NewSetKept ==
  ASSUME StateInv, ElementsStay, NEW id \in first_gb_element .. Len(gb)
  PROVE  NewSet(id)' = NewSet(id)
<1>1. /\ Len(gb) \in Nat /\ Len(RingElements) \in Nat /\ first_gb_element = Len(RingElements) + 1
      /\ first_gb_element' = first_gb_element /\ SkewVars' = SkewVars /\ id \in 1 .. Len(gb)
  <2>1. Len(gb) \in Nat /\ Len(RingElements) \in Nat /\ first_gb_element = Len(RingElements) + 1
    BY StateTypes
  <2>2. first_gb_element' = first_gb_element /\ SkewVars' = SkewVars
    BY DEF ElementsStay, first_gb_element, RingElements, SkewVars
  <2>3. QED
    BY <2>1, <2>2
<1>2. \A i \in 1 .. id : gb'[i] = gb[i]
  BY <1>1 DEF ElementsStay
<1>3. ASSUME NEW type, NEW i \in 1 .. id PROVE SpairMake(type, id, i)' = SpairMake(type, id, i)
  <2>1. gb'[i] = gb[i] /\ gb'[id] = gb[id]
    BY <1>1, <1>2
  <2>2. QED
    BY <2>1 DEF SpairMake, LcmDegree
<1>4. ASSUME NEW v PROVE SpairMakeSkew(id, v)' = SpairMakeSkew(id, v)
  <2>1. gb'[id] = gb[id]
    BY <1>1, <1>2
  <2>2. QED
    BY <2>1 DEF SpairMakeSkew, LcmDegree
<1>5. gb'[id] = gb[id]
  BY <1>1, <1>2
<1>6. SkewPairs(id)' = SkewPairs(id)
  BY <1>1, <1>4, <1>5 DEF SkewPairs
<1>7. RingPairs(id)' = RingPairs(id)
  <2>1. \A i \in 1 .. first_gb_element - 1 : SpairMake("ring", id, i)' = SpairMake("ring", id, i)
    BY <1>1, <1>3
  <2>2. QED
    BY <1>1, <2>1 DEF RingPairs
<1>8. BasisPairs(id)' = BasisPairs(id)
  <2> DEFINE S == {k \in first_gb_element .. id - 1 : gb[k].mingb /\ gb[k].comp = gb[id].comp}
  <2>1. \A k \in first_gb_element .. id - 1 : gb'[k] = gb[k]
    BY <1>1, <1>2
  <2>2. S' = S
    BY <1>1, <1>5, <2>1
  <2>3. \A i \in S : SpairMake("spair", id, i)' = SpairMake("spair", id, i)
    BY <1>1, <1>3
  <2>4. BasisPairs(id)' = {SpairMake("spair", id, i)' : i \in S'} /\ BasisPairs(id) = {SpairMake("spair", id, i) : i \in S}
    BY DEF BasisPairs
  <2> HIDE DEF S
  <2>5. QED
    BY <2>2, <2>3, <2>4
<1>9. NewSet(id)' = SkewPairs(id)' \cup RingPairs(id)' \cup BasisPairs(id)'
  BY DEF NewSet, SkewPairs, RingPairs, BasisPairs
<1>10. QED
  BY <1>6, <1>7, <1>8, <1>9, NewSetSplit

-----------------------------------------------------------------------------
(* Chains of settled pairs.                                                 *)

\* Elements whose pairs are made, in terms of links.
Edges(nodes) == {e \in nodes \X nodes : Settled(e[1], e[2])}

LEMMA JoinedIs ==
  ASSUME NEW nodes, NEW t, NEW a, NEW b
  PROVE  Joined(a, b, t, nodes) <=> Linked(Edges(nodes), Below(nodes, t), a, b)
<1> DEFINE B == Below(nodes, t)
           closed(side) == \A m \in side, n \in B \ side : ~Settled(m, n)
<1>1. Joined(a, b, t, nodes) <=> \A side \in SUBSET B : a \in side /\ closed(side) => b \in side
  BY DEF Joined, Below
<1>2. ASSUME NEW side \in SUBSET B
      PROVE  closed(side) <=> \A m \in side, n \in B : <<m, n>> \in Edges(nodes) => n \in side
  <2>1. B \subseteq nodes
    BY DEF Below
  <2>2. \A m \in side, n \in B : <<m, n>> \in Edges(nodes) <=> Settled(m, n)
    BY <2>1 DEF Edges
  <2> HIDE DEF B
  <2>3. QED
    BY <2>2
<1> HIDE DEF closed, B
<1>3. QED
  BY <1>1, <1>2 DEF Linked, B

\* The same in the next state.
EdgesNext(nodes) == {e \in nodes \X nodes : Settled(e[1], e[2])'}

LEMMA JoinedNext ==
  ASSUME NEW comp, NEW nodes, nodes = Nodes(comp)', NEW t, NEW a, NEW b
  PROVE  Joined(a, b, t, Nodes(comp))' <=> Linked(EdgesNext(nodes), Below(nodes, t), a, b)
<1> DEFINE B == Below(nodes, t)
           closed(side) == \A m \in side, n \in B \ side : ~Settled(m, n)'
<1>1. Joined(a, b, t, Nodes(comp))' <=> \A side \in SUBSET B : a \in side /\ closed(side) => b \in side
  BY DEF Joined, Below
<1>2. ASSUME NEW side \in SUBSET B
      PROVE  closed(side) <=> \A m \in side, n \in B : <<m, n>> \in EdgesNext(nodes) => n \in side
  <2>1. B \subseteq nodes
    BY DEF Below
  <2>2. \A m \in side, n \in B : <<m, n>> \in EdgesNext(nodes) <=> Settled(m, n)'
    BY <2>1 DEF EdgesNext
  <2> HIDE DEF B
  <2>3. QED
    BY <2>2
<1> HIDE DEF closed, B
<1>3. QED
  BY <1>1, <1>2 DEF Linked, B

LEMMA SettledBoth ==
  ASSUME NEW a, NEW b
  PROVE  (Settled(a, b) <=> Settled(b, a)) /\ (Settled(a, b)' <=> Settled(b, a)')
<1>1. <<a, b>> \in {<<a, b>>, <<b, a>>} /\ {<<a, b>>, <<b, a>>} = {<<b, a>>, <<a, b>>} /\ {a.kind, b.kind} = {b.kind, a.kind}
  OBVIOUS
<1>2. Coprime(a.lead, b.lead) <=> Coprime(b.lead, a.lead)
  BY DEF Coprime
<1>3. Settled(a, b) <=> Settled(b, a)
  BY <1>1, <1>2 DEF Settled
<1>4. Settled(a, b)' <=> Settled(b, a)'
  BY <1>1, <1>2 DEF Settled
<1>5. QED
  BY <1>3, <1>4

\* What a node is.
NodeOf(x, comp) ==
  /\ x.lead \in [Vars -> Nat]
  /\ \/ x.kind = "ring" /\ x.at \in 1 .. first_gb_element - 1 /\ x.lead = gb[x.at].lead
     \/ x.kind = "skew" /\ x.at \in SkewVars /\ x.lead = Power(x.at, 2)
     \/ /\ x.kind = "gb" /\ x.at \in first_gb_element .. np_i - 1 /\ x.lead = gb[x.at].lead
        /\ gb[x.at].mingb /\ gb[x.at].comp = comp

RingNode(i) == [kind |-> "ring", at |-> i, lead |-> gb[i].lead]
SkewNode(v) == [kind |-> "skew", at |-> v, lead |-> Power(v, 2)]
BaseNode(i) == [kind |-> "gb", at |-> i, lead |-> gb[i].lead]

LEMMA NodesAre ==
  ASSUME NEW comp
  PROVE  Nodes(comp) = {RingNode(i) : i \in 1 .. first_gb_element - 1} \cup {SkewNode(v) : v \in SkewVars}
                         \cup {BaseNode(i) : i \in {k \in first_gb_element .. np_i - 1 : gb[k].mingb /\ gb[k].comp = comp}}
BY DEF Nodes, RingNode, SkewNode, BaseNode

LEMMA NodeIs ==
  ASSUME StateInv, NEW comp, NEW x \in Nodes(comp)
  PROVE  NodeOf(x, comp)
<1>1. /\ Len(gb) \in Nat /\ Len(RingElements) \in Nat /\ first_gb_element = Len(RingElements) + 1
      /\ np_i \in Nat /\ np_i <= Len(gb) + 1 /\ SkewVars \subseteq Vars /\ first_gb_element <= Len(gb) + 1
      /\ \A i \in 1 .. Len(gb) : gb[i].lead \in [Vars -> Nat]
  BY StateTypes
<1>2. \A i \in 1 .. first_gb_element - 1 : NodeOf(RingNode(i), comp)
  <2>1. ASSUME NEW i \in 1 .. first_gb_element - 1 PROVE NodeOf(RingNode(i), comp)
    <3>1. i \in 1 .. Len(gb)
      BY <1>1
    <3>2. gb[i].lead \in [Vars -> Nat]
      BY <1>1, <3>1
    <3>3. QED
      BY <3>2 DEF NodeOf, RingNode
  <2>2. QED
    BY <2>1
<1>3. \A v \in SkewVars : NodeOf(SkewNode(v), comp)
  <2>1. ASSUME NEW v \in SkewVars PROVE NodeOf(SkewNode(v), comp)
    <3>1. Power(v, 2) \in [Vars -> Nat]
      BY <1>1, PowerIs
    <3>2. QED
      BY <3>1 DEF NodeOf, SkewNode
  <2>2. QED
    BY <2>1
<1>4. \A i \in first_gb_element .. np_i - 1 : gb[i].mingb /\ gb[i].comp = comp => NodeOf(BaseNode(i), comp)
  <2>1. ASSUME NEW i \in first_gb_element .. np_i - 1, gb[i].mingb, gb[i].comp = comp PROVE NodeOf(BaseNode(i), comp)
    <3>1. i \in 1 .. Len(gb)
      BY <1>1
    <3>2. gb[i].lead \in [Vars -> Nat]
      BY <1>1, <3>1
    <3>3. QED
      BY <2>1, <3>2 DEF NodeOf, BaseNode
  <2>2. QED
    BY <2>1
<1>5. QED
  BY <1>2, <1>3, <1>4, NodesAre

\* The pairs of the new element are those with the nodes, but for variables that are coprime to it.
PairWith(x) == \E q \in NewSet(np_i) : q.lcm = Lcm(gb[np_i].lead, x.lead)

LEMMA NodesPaired ==
  ASSUME StateInv, np_i <= Len(gb), NEW x \in Nodes(gb[np_i].comp)
  PROVE  PairWith(x) \/ (x.kind = "skew" /\ Coprime(gb[np_i].lead, x.lead))
<1> DEFINE comp == gb[np_i].comp
<1>1. NodeOf(x, comp)
  BY NodeIs
<1>2. np_i \in 1 .. Len(gb) /\ gb[np_i].lead \in [Vars -> Nat] /\ SkewVars \subseteq Vars
  <2>1. np_i \in Nat /\ Len(gb) \in Nat /\ first_gb_element <= np_i /\ Len(RingElements) \in Nat /\ first_gb_element = Len(RingElements) + 1
    BY StateTypes
  <2>2. np_i \in 1 .. Len(gb)
    BY <2>1
  <2>3. QED
    BY <2>2, StateTypes
<1>3. CASE x.kind = "ring" /\ x.at \in 1 .. first_gb_element - 1 /\ x.lead = gb[x.at].lead
  <2>1. SpairMake("ring", np_i, x.at) \in NewSet(np_i)
    BY <1>3 DEF NewSet
  <2>2. SpairMake("ring", np_i, x.at).lcm = Lcm(gb[np_i].lead, x.lead)
    BY <1>3 DEF SpairMake
  <2>3. QED
    BY <2>1, <2>2 DEF PairWith
<1>4. CASE /\ x.kind = "gb" /\ x.at \in first_gb_element .. np_i - 1 /\ x.lead = gb[x.at].lead
           /\ gb[x.at].mingb /\ gb[x.at].comp = comp
  <2>1. SpairMake("spair", np_i, x.at) \in NewSet(np_i)
    BY <1>4 DEF NewSet
  <2>2. SpairMake("spair", np_i, x.at).lcm = Lcm(gb[np_i].lead, x.lead)
    BY <1>4 DEF SpairMake
  <2>3. QED
    BY <2>1, <2>2 DEF PairWith
<1>5. CASE x.kind = "skew" /\ x.at \in SkewVars /\ x.lead = Power(x.at, 2)
  <2>1. CASE gb[np_i].lead[x.at] > 0
    <3>1. SpairMakeSkew(np_i, x.at) \in NewSet(np_i)
      BY <1>5, <2>1 DEF NewSet
    <3>2. SpairMakeSkew(np_i, x.at).lcm = Lcm(gb[np_i].lead, x.lead)
      BY <1>5 DEF SpairMakeSkew
    <3>3. QED
      BY <3>1, <3>2 DEF PairWith
  <2>2. CASE ~(gb[np_i].lead[x.at] > 0)
    <3>1. x.at \in Vars /\ gb[np_i].lead[x.at] \in Nat
      BY <1>2, <1>5
    <3>2. gb[np_i].lead[x.at] = 0
      BY <2>2, <3>1
    <3>3. \A w \in Vars : w # x.at => x.lead[w] = 0
      BY <1>5, <3>1, PowerIs
    <3>4. QED
      BY <1>5, <3>2, <3>3 DEF Coprime
  <2>3. QED
    BY <2>1, <2>2
<1>6. QED
  BY <1>1, <1>3, <1>4, <1>5 DEF NodeOf

\* Each pair is one with a node.
PartnerOf(p, comp) == \E y \in Nodes(comp) : /\ y.kind = PartnerKind[p.type] /\ y.at = p.j
                                             /\ p.lcm = Lcm(gb[p.i].lead, y.lead)

LEMMA PartnersAre ==
  ASSUME StateInv, NEW id \in first_gb_element .. np_i, NEW p, PairOf(p, id), NEW comp, comp = gb[id].comp
  PROVE  PartnerOf(p, comp)
<1>1. PartnerKind["spair"] = "gb" /\ PartnerKind["ring"] = "ring" /\ PartnerKind["skew"] = "skew" /\ p.i = id
  BY DEF PartnerKind, PairOf
<1>2. CASE p.type = "skew" /\ p.j \in SkewVars /\ p.lcm = Lcm(gb[id].lead, Power(p.j, 2))
  <2>1. SkewNode(p.j) \in Nodes(comp)
    BY <1>2, NodesAre
  <2>2. SkewNode(p.j).kind = "skew" /\ SkewNode(p.j).at = p.j /\ SkewNode(p.j).lead = Power(p.j, 2)
    BY DEF SkewNode
  <2>3. QED
    BY <1>1, <1>2, <2>1, <2>2 DEF PartnerOf
<1>3. CASE p.type = "ring" /\ p.j \in 1 .. first_gb_element - 1 /\ p.lcm = Lcm(gb[id].lead, gb[p.j].lead)
  <2>1. RingNode(p.j) \in Nodes(comp)
    BY <1>3, NodesAre
  <2>2. RingNode(p.j).kind = "ring" /\ RingNode(p.j).at = p.j /\ RingNode(p.j).lead = gb[p.j].lead
    BY DEF RingNode
  <2>3. QED
    BY <1>1, <1>3, <2>1, <2>2 DEF PartnerOf
<1>4. CASE /\ p.type = "spair" /\ p.j \in first_gb_element .. id - 1 /\ p.lcm = Lcm(gb[id].lead, gb[p.j].lead)
           /\ gb[p.j].mingb /\ gb[p.j].comp = gb[id].comp
  <2>1. BaseNode(p.j) \in Nodes(comp)
    <3>1. p.j \in first_gb_element .. np_i - 1
      <4>1. np_i \in Nat /\ Len(RingElements) \in Nat /\ first_gb_element = Len(RingElements) + 1
        BY StateTypes
      <4>2. QED
        BY <1>4, <4>1
    <3>2. QED
      BY <1>4, <3>1, NodesAre
  <2>2. BaseNode(p.j).kind = "gb" /\ BaseNode(p.j).at = p.j /\ BaseNode(p.j).lead = gb[p.j].lead
    BY DEF BaseNode
  <2>3. QED
    BY <1>1, <1>4, <2>1, <2>2 DEF PartnerOf
<1>5. QED
  BY <1>2, <1>3, <1>4 DEF PairOf

\* Settled, by a pair or for another reason.
PairOfNodes(p, a, b) ==
  \E ends \in {<<a, b>>, <<b, a>>} :
    /\ ends[1].kind = "gb" /\ p.i = ends[1].at
    /\ ends[2].kind = PartnerKind[p.type] /\ p.j = ends[2].at

NeedsNoPair(a, b) ==
  \/ a.kind # "gb" /\ b.kind # "gb"
  \/ {a.kind, b.kind} = {"gb"} /\ IsIdeal /\ Coprime(a.lead, b.lead)
  \/ {a.kind, b.kind} = {"gb", "skew"} /\ Coprime(a.lead, b.lead)

LEMMA SettledIs ==
  ASSUME NEW a, NEW b
  PROVE  /\ Settled(a, b) <=> NeedsNoPair(a, b) \/ \E p \in heap \cup taken : PairOfNodes(p, a, b)
         /\ Settled(a, b)' <=> NeedsNoPair(a, b)' \/ \E p \in (heap \cup taken)' : PairOfNodes(p, a, b)
         /\ input' = input => (NeedsNoPair(a, b)' <=> NeedsNoPair(a, b))
<1>1. Settled(a, b) <=> NeedsNoPair(a, b) \/ \E p \in heap \cup taken : PairOfNodes(p, a, b)
  BY DEF Settled, NeedsNoPair, PairOfNodes
<1>2. Settled(a, b)' <=> NeedsNoPair(a, b)' \/ \E p \in (heap \cup taken)' : PairOfNodes(p, a, b)
  BY DEF Settled, NeedsNoPair, PairOfNodes
<1>3. input' = input => (NeedsNoPair(a, b)' <=> NeedsNoPair(a, b))
  BY DEF NeedsNoPair, IsIdeal
<1>4. QED
  BY <1>1, <1>2, <1>3

\* An old pair that is given up has a chain through the new element, with smaller lcms.
LEMMA GivenUp ==
  ASSUME StateInv, ElementInv, PairInv, np_i <= Len(gb),
         NEW x \in Nodes(gb[np_i].comp), NEW y \in Nodes(gb[np_i].comp),
         NEW p \in heap, PairOfNodes(p, x, y), PairNotNeeded(p, gb[np_i])
  PROVE  /\ Divides(gb[np_i].lead, Lcm(x.lead, y.lead))
         /\ Lcm(gb[np_i].lead, x.lead) # Lcm(x.lead, y.lead)
         /\ Lcm(gb[np_i].lead, y.lead) # Lcm(x.lead, y.lead)
<1> DEFINE m == gb[np_i]
<1>1. /\ Len(gb) \in Nat /\ np_i \in 1 .. Len(gb) /\ m.lead \in [Vars -> Nat]
      /\ np_i \in Nat /\ Len(RingElements) \in Nat /\ first_gb_element = Len(RingElements) + 1
  <2>1. np_i \in Nat /\ Len(gb) \in Nat /\ first_gb_element <= np_i /\ Len(RingElements) \in Nat /\ first_gb_element = Len(RingElements) + 1
    BY StateTypes
  <2>2. np_i \in 1 .. Len(gb)
    BY <2>1
  <2>3. QED
    BY <2>1, <2>2, StateTypes
<1>2. p.i \in first_gb_element .. np_i - 1 /\ gb[p.i].mingb /\ p \in NewSet(p.i)
  BY DEF PairInv
<1>3. p.i \in first_gb_element .. Len(gb)
  BY <1>1, <1>2
<1>4. PairOf(p, p.i)
  BY <1>2, <1>3, NewSetIs
<1>5. /\ p.type \in {"spair", "ring"} /\ Divides(m.lead, p.lcm)
      /\ \E v \in Vars : m.lead[v] # p.lcm[v] /\ gb[p.i].lead[v] # p.lcm[v]
      /\ \E v \in Vars : m.lead[v] # p.lcm[v] /\ gb[p.j].lead[v] # p.lcm[v]
  BY DEF PairNotNeeded
<1>6. p.lcm = Lcm(gb[p.i].lead, gb[p.j].lead)
  BY <1>4, <1>5 DEF PairOf
<1>7. NodeOf(x, m.comp) /\ NodeOf(y, m.comp)
  BY NodeIs
<1>8. PartnerKind[p.type] \in {"gb", "ring"}
  BY <1>5 DEF PartnerKind
<1>9. ASSUME NEW a, NEW b, NodeOf(a, m.comp), NodeOf(b, m.comp),
             a.kind = "gb", p.i = a.at, b.kind = PartnerKind[p.type], p.j = b.at
      PROVE  /\ p.lcm = Lcm(a.lead, b.lead) /\ a.lead \in [Vars -> Nat] /\ b.lead \in [Vars -> Nat]
             /\ Lcm(m.lead, a.lead) # p.lcm /\ Lcm(m.lead, b.lead) # p.lcm
  <2>1. a.lead = gb[p.i].lead
    BY <1>9 DEF NodeOf
  <2>2. b.lead = gb[p.j].lead
    BY <1>8, <1>9 DEF NodeOf
  <2>3. a.lead \in [Vars -> Nat] /\ b.lead \in [Vars -> Nat]
    BY <1>9 DEF NodeOf
  <2>4. ASSUME NEW c \in [Vars -> Nat], \E v \in Vars : m.lead[v] # p.lcm[v] /\ c[v] # p.lcm[v] PROVE Lcm(m.lead, c) # p.lcm
    <3>1. PICK v \in Vars : m.lead[v] # p.lcm[v] /\ c[v] # p.lcm[v]
      BY <2>4
    <3>2. Lcm(m.lead, c)[v] = m.lead[v] \/ Lcm(m.lead, c)[v] = c[v]
      BY DEF Lcm
    <3>3. QED
      BY <3>1, <3>2
  <2>5. QED
    BY <1>5, <1>6, <2>1, <2>2, <2>3, <2>4
<1>10. CASE x.kind = "gb" /\ p.i = x.at /\ y.kind = PartnerKind[p.type] /\ p.j = y.at
  BY <1>5, <1>7, <1>9, <1>10
<1>11. CASE y.kind = "gb" /\ p.i = y.at /\ x.kind = PartnerKind[p.type] /\ p.j = x.at
  <2>1. /\ p.lcm = Lcm(y.lead, x.lead) /\ y.lead \in [Vars -> Nat] /\ x.lead \in [Vars -> Nat]
        /\ Lcm(m.lead, y.lead) # p.lcm /\ Lcm(m.lead, x.lead) # p.lcm
    BY <1>7, <1>9, <1>11
  <2>2. Lcm(y.lead, x.lead) = Lcm(x.lead, y.lead)
    BY <2>1, LcmIs
  <2>3. QED
    BY <1>5, <2>1, <2>2
<1>12. QED
  BY <1>10, <1>11 DEF PairOfNodes

\* The links of one component.
ChainsOf(comp) == \A a, b \in Nodes(comp) : Joined(a, b, Lcm(a.lead, b.lead), Nodes(comp))

LEMMA ChainsAre ==
  /\ ChainCriterion <=> \A comp \in Components : ChainsOf(comp)
  /\ ChainCriterion' <=> \A comp \in Components' : ChainsOf(comp)'
<1>1. ChainCriterion <=> \A comp \in Components : ChainsOf(comp)
  BY DEF ChainCriterion, ChainsOf
<1>2. ChainCriterion' <=> \A comp \in Components' : ChainsOf(comp)'
  BY DEF ChainCriterion, ChainsOf
<1>3. QED
  BY <1>1, <1>2

\* Chains stay where the nodes are the same and what is settled remains so.
LEMMA ChainsStay ==
  ASSUME NEW comp, ChainsOf(comp), Nodes(comp)' = Nodes(comp),
         \A x, y \in Nodes(comp) : Settled(x, y) => Settled(x, y)'
  PROVE  ChainsOf(comp)'
<1>1. SUFFICES ASSUME NEW N, N = Nodes(comp), N = Nodes(comp)', NEW a \in N, NEW b \in N
               PROVE  Joined(a, b, Lcm(a.lead, b.lead), Nodes(comp))'
  BY DEF ChainsOf
<1> DEFINE B == Below(N, Lcm(a.lead, b.lead))
<1>2. Linked(Edges(N), B, a, b)
  <2>1. Joined(a, b, Lcm(a.lead, b.lead), N)
    BY <1>1 DEF ChainsOf
  <2>2. QED
    BY <2>1, JoinedIs
<1>3. \A m, n \in B : <<m, n>> \in Edges(N) => <<m, n>> \in EdgesNext(N)
  <2>1. \A m, n \in N : <<m, n>> \in Edges(N) => Settled(m, n)
    BY DEF Edges
  <2>2. \A m, n \in N : Settled(m, n)' => <<m, n>> \in EdgesNext(N)
    BY DEF EdgesNext
  <2>3. B \subseteq N
    BY DEF Below
  <2> HIDE DEF B
  <2>4. QED
    BY <1>1, <2>1, <2>2, <2>3
<1>4. Linked(EdgesNext(N), B, a, b)
  <2> HIDE DEF B
  <2>1. QED
    BY <1>2, <1>3 DEF Linked
<1>5. QED
  BY <1>1, <1>4, JoinedNext

\* The nodes after update_pairs.
LEMMA NodesNext ==
  ASSUME StateInv, input' = input, gb' = gb, np_i' = np_i + 1, np_i <= Len(gb), NEW comp
  PROVE  Nodes(comp)' = IF gb[np_i].mingb /\ gb[np_i].comp = comp THEN Nodes(comp) \cup {BaseNode(np_i)} ELSE Nodes(comp)
<1>1. first_gb_element' = first_gb_element /\ SkewVars' = SkewVars /\ np_i \in Nat /\ first_gb_element \in Nat /\ first_gb_element <= np_i
  <2>1. first_gb_element' = first_gb_element /\ SkewVars' = SkewVars
    BY DEF first_gb_element, RingElements, SkewVars
  <2>2. QED
    BY <2>1, StateTypes
<1> DEFINE K == {k \in first_gb_element .. np_i - 1 : gb[k].mingb /\ gb[k].comp = comp}
           L == {k \in first_gb_element .. np_i : gb[k].mingb /\ gb[k].comp = comp}
           rest == {RingNode(i) : i \in 1 .. first_gb_element - 1} \cup {SkewNode(v) : v \in SkewVars}
<1>2. Nodes(comp) = rest \cup {BaseNode(i) : i \in K}
  BY NodesAre
<1>3. Nodes(comp)' = rest \cup {BaseNode(i) : i \in L}
  <2>1. Nodes(comp)' = {RingNode(i)' : i \in 1 .. first_gb_element' - 1} \cup {SkewNode(v) : v \in SkewVars'}
                         \cup {BaseNode(i)' : i \in {k \in first_gb_element' .. np_i' - 1 : gb'[k].mingb /\ gb'[k].comp = comp}}
    BY DEF Nodes, RingNode, SkewNode, BaseNode
  <2>2. \A i : RingNode(i)' = RingNode(i) /\ BaseNode(i)' = BaseNode(i)
    BY DEF RingNode, BaseNode
  <2>3. np_i' - 1 = np_i
    BY <1>1
  <2>4. QED
    BY <1>1, <2>1, <2>2, <2>3
<1>4. L = IF gb[np_i].mingb /\ gb[np_i].comp = comp THEN K \cup {np_i} ELSE K
  <2>1. \A k : k \in first_gb_element .. np_i <=> k \in first_gb_element .. np_i - 1 \/ k = np_i
    BY <1>1
  <2>2. QED
    BY <2>1
<1> HIDE DEF K, L, rest
<1>5. QED
  BY <1>2, <1>3, <1>4

\* update_pairs for a member of the minimal basis: the chains of its component.
LEMMA ChainsWithNew ==
  ASSUME StateInv, ElementInv, PairInv, UpdatePairs, gb[np_i].mingb,
         NEW comp, comp = gb[np_i].comp, ChainsOf(comp)
  PROVE  ChainsOf(comp)'
<1> DEFINE new == NewSet(np_i)
<1>1. /\ np_i <= Len(gb) /\ np_i' = np_i + 1 /\ input' = input /\ gb' = gb /\ taken' = taken
      /\ \E choice \in Choices(new) :
           heap' = {p \in heap : ~PairNotNeeded(p, gb[np_i])} \cup MinimalizePairs(new, choice)
  BY DEF UpdatePairs
<1>2. PICK choice \in Choices(new) :
        heap' = {p \in heap : ~PairNotNeeded(p, gb[np_i])} \cup MinimalizePairs(new, choice)
  BY <1>1
<1>3. /\ Len(gb) \in Nat /\ np_i \in first_gb_element .. Len(gb) /\ np_i \in 1 .. Len(gb)
      /\ gb[np_i].lead \in [Vars -> Nat] /\ np_i \in Nat /\ np_i \in first_gb_element .. np_i
  <2>1. /\ np_i \in Nat /\ Len(gb) \in Nat /\ first_gb_element <= np_i /\ Len(RingElements) \in Nat
        /\ first_gb_element = Len(RingElements) + 1
    BY StateTypes
  <2>2. np_i \in first_gb_element .. Len(gb) /\ np_i \in 1 .. Len(gb) /\ np_i \in first_gb_element .. np_i
    BY <1>1, <2>1
  <2>3. QED
    BY <2>1, <2>2, StateTypes
<1>4. GoodPairs(new) /\ \A p \in new : PairOf(p, np_i)
  BY <1>3, NewSetIs
<1>5. SUFFICES ASSUME NEW N, N = Nodes(comp), NEW m, m = BaseNode(np_i) PROVE ChainsOf(comp)'
  OBVIOUS
<1> HIDE DEF new
<1> DEFINE M == N \cup {m}
           E == Edges(N)
           F == EdgesNext(M)
<1>6. Nodes(comp)' = M
  BY <1>1, <1>5, NodesNext
<1>7. m.kind = "gb" /\ m.at = np_i /\ m.lead = gb[np_i].lead /\ m.lead \in [Vars -> Nat]
  BY <1>3, <1>5 DEF BaseNode
<1>8. \A x \in N : NodeOf(x, comp) /\ x.lead \in [Vars -> Nat]
  <2>1. \A x \in N : NodeOf(x, comp)
    BY <1>5, NodeIs
  <2>2. QED
    BY <2>1 DEF NodeOf
<1>9. \A x, y \in M : <<x, y>> \in F <=> Settled(x, y)'
  BY DEF EdgesNext
<1>10. \A x, y : <<x, y>> \in F => <<y, x>> \in F
  BY SettledBoth DEF EdgesNext
<1>11. \A a, b \in N : Linked(E, Below(N, Lcm(a.lead, b.lead)), a, b)
  BY <1>5, JoinedIs DEF ChainsOf
\* An edge stays, or m stands for it.
<1>12. ASSUME NEW x \in N, NEW y \in N, <<x, y>> \in E
       PROVE  \/ <<x, y>> \in F
              \/ /\ Divides(m.lead, Lcm(x.lead, y.lead))
                 /\ Lcm(m.lead, x.lead) # Lcm(x.lead, y.lead) /\ Lcm(m.lead, y.lead) # Lcm(x.lead, y.lead)
  <2>1. NeedsNoPair(x, y) \/ \E p \in heap \cup taken : PairOfNodes(p, x, y)
    BY <1>12, SettledIs DEF Edges
  <2>2. CASE NeedsNoPair(x, y)
    BY <1>1, <1>9, <2>2, SettledIs
  <2>3. ASSUME NEW p \in heap \cup taken, PairOfNodes(p, x, y), <<x, y>> \notin F PROVE p \in heap /\ PairNotNeeded(p, gb[np_i])
    <3>1. p \notin (heap \cup taken)'
      BY <1>9, <2>3, SettledIs
    <3>2. QED
      BY <1>1, <1>2, <3>1
  <2>4. ASSUME NEW p \in heap, PairOfNodes(p, x, y), PairNotNeeded(p, gb[np_i])
        PROVE  /\ Divides(m.lead, Lcm(x.lead, y.lead))
               /\ Lcm(m.lead, x.lead) # Lcm(x.lead, y.lead) /\ Lcm(m.lead, y.lead) # Lcm(x.lead, y.lead)
    <3>1. x \in Nodes(gb[np_i].comp) /\ y \in Nodes(gb[np_i].comp)
      BY <1>5
    <3>2. QED
      BY <1>1, <1>7, <2>4, <3>1, GivenUp
  <2>5. QED
    BY <2>1, <2>2, <2>3, <2>4
\* m has a settled pair below each lcm.
<1>13. ASSUME NEW x \in N PROVE \E y \in N : <<m, y>> \in F /\ Divides(y.lead, Lcm(m.lead, x.lead))
  <2>1. x.lead \in [Vars -> Nat]
    BY <1>8
  <2>2. PairWith(x) \/ (x.kind = "skew" /\ Coprime(gb[np_i].lead, x.lead))
    BY <1>1, <1>5, NodesPaired
  <2>3. CASE x.kind = "skew" /\ Coprime(gb[np_i].lead, x.lead)
    <3>1. NeedsNoPair(m, x)
      BY <1>7, <2>3 DEF NeedsNoPair
    <3>2. <<m, x>> \in F
      BY <1>1, <1>9, <3>1, SettledIs
    <3>3. QED
      BY <1>7, <2>1, <3>2, LcmIs
  <2>4. CASE PairWith(x)
    <3>1. PICK q \in new : q.lcm = Lcm(m.lead, x.lead)
      BY <1>7, <2>4 DEF PairWith, new
    <3>2. PICK p \in new : Divides(p.lcm, q.lcm) /\ (p \in MinimalizePairs(new, choice) \/ (IsIdeal /\ IsGcdOnePair(p)))
      BY <1>4, MinimalizedIs
    <3>3. PairOf(p, np_i) /\ PairOf(q, np_i)
      BY <1>4
    <3>4. PartnerOf(p, comp)
      BY <1>3, <1>5, <3>3, PartnersAre
    <3>5. PICK y \in N : y.kind = PartnerKind[p.type] /\ y.at = p.j /\ p.lcm = Lcm(m.lead, y.lead)
      BY <1>5, <1>7, <3>3, <3>4 DEF PartnerOf, PairOf
    <3>6. y.lead \in [Vars -> Nat] /\ p.lcm \in [Vars -> Nat] /\ q.lcm \in [Vars -> Nat]
      BY <1>8, <3>3 DEF PairOf
    <3>7. Divides(y.lead, Lcm(m.lead, x.lead))
      <4>1. Divides(y.lead, p.lcm)
        BY <1>7, <3>5, <3>6, LcmIs
      <4>2. QED
        BY <3>1, <3>2, <3>6, <4>1, DividesOrder
    <3>8. CASE p \in MinimalizePairs(new, choice)
      <4>1. PairOfNodes(p, m, y)
        <5>1. <<m, y>> \in {<<m, y>>, <<y, m>>} /\ <<m, y>>[1] = m /\ <<m, y>>[2] = y /\ p.i = np_i
          BY <3>3 DEF PairOf
        <5>2. QED
          BY <1>7, <3>5, <5>1 DEF PairOfNodes
      <4>2. p \in (heap \cup taken)'
        BY <1>2, <3>8
      <4>3. Settled(m, y)'
        BY <4>1, <4>2, SettledIs
      <4>4. QED
        BY <1>9, <3>7, <4>3
    <3>9. CASE IsIdeal /\ IsGcdOnePair(p)
      <4>1. p.type = "spair" /\ Coprime(gb[np_i].lead, gb[p.j].lead)
        BY <3>3, <3>9 DEF IsGcdOnePair, PairOf
      <4>2. y.kind = "gb"
        BY <3>5, <4>1 DEF PartnerKind
      <4>3. y.lead = gb[p.j].lead
        BY <1>8, <3>5, <4>2 DEF NodeOf
      <4>4. NeedsNoPair(m, y)
        BY <1>7, <3>9, <4>1, <4>2, <4>3 DEF NeedsNoPair
      <4>5. Settled(m, y)'
        BY <1>1, <4>4, SettledIs
      <4>6. QED
        BY <1>9, <3>7, <4>5
    <3>10. QED
      BY <3>2, <3>8, <3>9
  <2>5. QED
    BY <2>2, <2>3, <2>4
<1>14. \A x \in M : x.lead \in [Vars -> Nat]
  BY <1>7, <1>8
<1>15. \A a, b \in M : Linked(F, Below(M, Lcm(a.lead, b.lead)), a, b)
  <2> HIDE DEF E, F
  <2>1. \A x \in N \cup {m} : x.lead \in [Vars -> Nat]
    BY <1>14
  <2>2. QED
    BY <1>10, <1>11, <1>12, <1>13, <2>1, Chains
<1>16. ASSUME NEW a \in M, NEW b \in M PROVE Joined(a, b, Lcm(a.lead, b.lead), Nodes(comp))'
  <2>1. Linked(F, Below(M, Lcm(a.lead, b.lead)), a, b)
    BY <1>15
  <2> HIDE DEF M
  <2>2. QED
    BY <1>6, <2>1, JoinedNext
<1>17. QED
  BY <1>6, <1>16 DEF ChainsOf

-----------------------------------------------------------------------------
(* The table of lead terms.                                                 *)

LEMMA LookupIs ==
  ASSUME StateInv, ElementInv, LookupInv, NEW e \in [Vars -> Nat], NEW comp \in Components
  PROVE  \A i : i \in Divisors(e, comp) <=> i \in 1 .. Len(gb) /\ gb[i].comp \in {0, comp} /\ Divides(gb[i].lead, e)
<1> DEFINE R == Len(RingElements)
           G == Len(gb)
           term(n) == [lead |-> gb[R + n].lead, comp |-> gb[R + n].comp, val |-> R + n]
<1>1. /\ G \in Nat /\ R \in Nat /\ R <= G /\ first_gb_element = R + 1 /\ comp \in Nat \ {0} /\ Indices = 1 .. G
      /\ \A i \in 1 .. G : gb[i].lead \in [Vars -> Nat] /\ gb[i].comp \in Nat
  BY StateTypes DEF StateInv
<1>2. \A i \in 1 .. G : gb[i].comp = 0 <=> i <= R
  <2>1. \A i \in 1 .. G : gb[i].comp = 0 <=> i < first_gb_element
    BY <1>1 DEF ElementInv
  <2>2. QED
    BY <1>1, <2>1
<1>3. DOMAIN lookup.terms = 1 .. G - R /\ \A n \in 1 .. G - R : lookup.terms[n] = term(n)
  BY DEF LookupInv
<1> HIDE DEF R, G
<1>4. ASSUME NEW n \in 1 .. G - R
      PROVE  /\ R + n \in 1 .. G /\ R + n > R /\ lookup.terms[n].val = R + n
             /\ Matches(lookup.terms[n], e, comp) <=> gb[R + n].comp = comp /\ Divides(gb[R + n].lead, e)
  <2>1. R + n \in 1 .. G /\ R + n > R
    BY <1>1
  <2>2. gb[R + n].lead \in [Vars -> Nat] /\ gb[R + n].comp \in Nat /\ R + n \in Nat
    BY <1>1, <2>1
  <2>3. term(n) \in Term
    BY <2>2 DEF Term
  <2>4. Matches(term(n), e, comp) <=> term(n).comp = comp /\ Divides(term(n).lead, e)
    <3> HIDE DEF term
    <3>1. QED
      BY <2>3, MatchesIs
  <2>5. QED
    BY <1>3, <2>1, <2>4
<1>5. \A i : i \in Divisors(e, comp) <=>
               \/ i \in 1 .. R /\ Divides(gb[i].lead, e)
               \/ \E n \in 1 .. G - R : i = R + n /\ gb[R + n].comp = comp /\ Divides(gb[R + n].lead, e)
  <2>1. first_gb_element - 1 = R
    BY <1>1
  <2>2. \A n : n \in FindDivisors(lookup, e, comp) <=>
                 n \in 1 .. G - R /\ gb[R + n].comp = comp /\ Divides(gb[R + n].lead, e)
    BY <1>3, <1>4 DEF FindDivisors
  <2>3. \A n \in FindDivisors(lookup, e, comp) : lookup.terms[n].val = R + n
    BY <1>4, <2>2
  <2>4. QED
    BY <2>1, <2>2, <2>3 DEF Divisors
<1>6. SUFFICES ASSUME NEW i
               PROVE  i \in Divisors(e, comp) <=> i \in 1 .. G /\ gb[i].comp \in {0, comp} /\ Divides(gb[i].lead, e)
  BY DEF G
<1>7. CASE i \in 1 .. R
  <2>1. i \in 1 .. G /\ gb[i].comp = 0 /\ ~\E n \in 1 .. G - R : i = R + n
    BY <1>1, <1>2, <1>7
  <2>2. QED
    BY <1>5, <1>7, <2>1
<1>8. CASE i \in 1 .. G /\ i \notin 1 .. R
  <2>1. i - R \in 1 .. G - R /\ i = R + (i - R) /\ gb[i].comp # 0
    BY <1>1, <1>2, <1>8
  <2>2. QED
    BY <1>5, <1>8, <2>1
<1>9. CASE i \notin 1 .. G
  <2>1. i \notin 1 .. R /\ ~\E n \in 1 .. G - R : i = R + n
    BY <1>1, <1>4, <1>9
  <2>2. QED
    BY <1>5, <1>9, <2>1
<1>10. QED
  BY <1>7, <1>8, <1>9

-----------------------------------------------------------------------------
(* The steps.                                                               *)

\* Where elements, pairs and the degree are as before but for pairs that are taken.
LEMMA ChainsUntouched ==
  ASSUME StateInv, ElementsStay, ChainCriterion, np_i' = np_i, (heap \cup taken)' = heap \cup taken
  PROVE  ChainCriterion'
<1>1. Components' = Components /\ first_gb_element' = first_gb_element /\ SkewVars' = SkewVars /\ input' = input
  BY DEF ElementsStay, Components, first_gb_element, RingElements, SkewVars
<1>2. SUFFICES ASSUME NEW comp \in Components PROVE ChainsOf(comp)'
  BY <1>1, ChainsAre
<1>3. ChainsOf(comp)
  BY ChainsAre
<1>4. Nodes(comp)' = Nodes(comp)
  <2>1. /\ Len(gb) \in Nat /\ Len(RingElements) \in Nat /\ first_gb_element = Len(RingElements) + 1
        /\ np_i \in Nat /\ np_i <= Len(gb) + 1 /\ first_gb_element <= Len(gb) + 1
    BY StateTypes
  <2>2. \A i \in 1 .. first_gb_element - 1 : gb'[i] = gb[i]
    BY <2>1 DEF ElementsStay
  <2>3. \A i \in first_gb_element .. np_i - 1 : gb'[i] = gb[i]
    BY <2>1 DEF ElementsStay
  <2> DEFINE K == {k \in first_gb_element .. np_i - 1 : gb[k].mingb /\ gb[k].comp = comp}
  <2>4. K' = K
    BY <1>1, <2>3
  <2>5. \A i \in K : BaseNode(i)' = BaseNode(i)
    BY <2>3 DEF BaseNode
  <2>6. \A i \in 1 .. first_gb_element - 1 : RingNode(i)' = RingNode(i)
    BY <2>2 DEF RingNode
  <2>7. Nodes(comp)' = {RingNode(i)' : i \in 1 .. first_gb_element' - 1} \cup {SkewNode(v) : v \in SkewVars'}
                         \cup {BaseNode(i)' : i \in K'}
    BY DEF Nodes, RingNode, SkewNode, BaseNode
  <2>8. Nodes(comp) = {RingNode(i) : i \in 1 .. first_gb_element - 1} \cup {SkewNode(v) : v \in SkewVars}
                        \cup {BaseNode(i) : i \in K}
    BY NodesAre
  <2> HIDE DEF K
  <2>9. {BaseNode(i)' : i \in K'} = {BaseNode(i) : i \in K}
    BY <2>4, <2>5
  <2>10. {RingNode(i)' : i \in 1 .. first_gb_element' - 1} = {RingNode(i) : i \in 1 .. first_gb_element - 1}
    BY <1>1, <2>6
  <2>11. QED
    BY <1>1, <2>7, <2>8, <2>9, <2>10
<1>5. \A x, y : Settled(x, y) => Settled(x, y)'
  BY <1>1, SettledIs
<1>6. QED
  BY <1>3, <1>4, <1>5, ChainsStay

\* Pairs remain those of their elements.
LEMMA PairsStay ==
  ASSUME StateInv, PairInv, ElementsStay
  PROVE  \A p \in heap \cup taken : /\ p.i \in first_gb_element .. np_i - 1 /\ p.i \in 1 .. Len(gb)
                                    /\ gb'[p.i].mingb /\ p \in NewSet(p.i)'
<1>1. SUFFICES ASSUME NEW p \in heap \cup taken
               PROVE  /\ p.i \in first_gb_element .. np_i - 1 /\ p.i \in 1 .. Len(gb)
                      /\ gb'[p.i].mingb /\ p \in NewSet(p.i)'
  OBVIOUS
<1>2. p.i \in first_gb_element .. np_i - 1 /\ gb[p.i].mingb /\ p \in NewSet(p.i)
  BY DEF PairInv
<1>3. p.i \in first_gb_element .. Len(gb) /\ p.i \in 1 .. Len(gb)
  <2>1. /\ Len(gb) \in Nat /\ Len(RingElements) \in Nat /\ first_gb_element = Len(RingElements) + 1
        /\ np_i \in Nat /\ np_i <= Len(gb) + 1
    BY StateTypes
  <2>2. QED
    BY <1>2, <2>1
<1>4. gb'[p.i] = gb[p.i]
  BY <1>3 DEF ElementsStay
<1>5. NewSet(p.i)' = NewSet(p.i)
  BY <1>3, NewSetKept
<1>6. QED
  BY <1>2, <1>3, <1>4, <1>5

\* Another element.
LEMMA InsertHolds ==
  ASSUME IInv, NEW e \in Leads, NEW comp \in Components, NEW mingb \in BOOLEAN,
         this_degree - Weight(e) \in 0 .. MaxGap, mingb => Divisors(e, comp) = {},
         InsertGB(e, comp, mingb)
  PROVE  IInv'
<1> DEFINE G == Len(gb)
           r == [lead |-> e, comp |-> comp, deg |-> this_degree, gap |-> this_degree - Weight(e), mingb |-> mingb]
<1>1. StateInv /\ ElementInv /\ LookupInv /\ PairInv /\ NothingTwice /\ ChainCriterion
  BY DEF IInv
<1>2. /\ gb' = Append(gb, r) /\ lookup' = InsertTerm(lookup, e, comp, Len(gb) + 1)
      /\ input' = input /\ heap' = heap /\ taken' = taken /\ this_degree' = this_degree /\ np_i' = np_i
  BY DEF InsertGB
<1>3. /\ G \in Nat /\ Indices = 1 .. G /\ Len(RingElements) \in Nat /\ first_gb_element = Len(RingElements) + 1
      /\ first_gb_element <= G + 1 /\ np_i \in Nat /\ first_gb_element <= np_i /\ np_i <= G + 1 /\ this_degree \in Int
      /\ e \in [Vars -> Nat] /\ comp \in Nat \ {0} /\ Len(RingElements) <= G
      /\ \A i \in 1 .. G : gb[i] \in Element /\ gb[i].lead \in [Vars -> Nat]
  BY <1>1, StateTypes DEF StateInv
<1>4. Weight(e) \in Nat /\ MaxGap \in Nat
  BY <1>3, DividesReflexive, WeightMonotone, PairsAssumption
<1>5. this_degree \in Nat /\ r.gap \in Nat /\ this_degree = Weight(e) + r.gap
  BY <1>3, <1>4
<1>6. r \in Element
  BY <1>5 DEF Element
<1> HIDE DEF r
<1>7. gb \in Seq(Element)
  BY <1>1 DEF StateInv, Element
<1>8. Len(gb') = G + 1 /\ gb' \in Seq(Element) /\ (\A i \in 1 .. G : gb'[i] = gb[i]) /\ gb'[G + 1] = r
  <2> HIDE DEF Element
  <2>1. QED
    BY <1>2, <1>6, <1>7
<1>9. r.lead = e /\ r.comp = comp /\ r.deg = this_degree /\ r.mingb = mingb
  BY DEF r
<1>10. /\ Leads' = Leads /\ Components' = Components /\ RingElements' = RingElements /\ IsIdeal' = IsIdeal
       /\ first_gb_element' = first_gb_element /\ Element' = Element
  BY <1>2 DEF Leads, Components, RingElements, first_gb_element, IsIdeal, Element
<1>11. ElementsStay
  BY <1>2, <1>8 DEF ElementsStay
<1>12. Indices' = 1 .. G + 1
  <2> HIDE DEF Element
  <2>1. QED
    BY <1>3, <1>8 DEF Indices
<1>13. StateInv'
  <2>1. gb' \in Seq(Element')
    BY <1>8, <1>10
  <2>2. np_i' \in first_gb_element' .. Len(gb') + 1 /\ Len(RingElements') <= Len(gb')
    BY <1>2, <1>3, <1>8, <1>10
  <2>3. input' \in Inputs /\ this_degree' \in -1 .. MaxDegree
    BY <1>1, <1>2 DEF StateInv
  <2>4. QED
    BY <2>1, <2>2, <2>3 DEF StateInv, Element
<1>14. ElementInv'
  <2>1. ASSUME NEW i \in 1 .. G + 1
        PROVE  /\ gb'[i].deg = Weight(gb'[i].lead) + gb'[i].gap
               /\ gb'[i].comp = 0 <=> i < first_gb_element
               /\ i >= first_gb_element => gb'[i].deg <= this_degree
               /\ i >= np_i => gb'[i].deg = this_degree
    <3>1. CASE i \in 1 .. G
      BY <1>1, <1>3, <1>8, <3>1 DEF ElementInv
    <3>2. CASE i = G + 1
      <4>1. gb'[i] = r /\ ~(i < first_gb_element)
        BY <1>3, <1>8, <3>2
      <4>2. QED
        BY <1>3, <1>5, <1>9, <4>1
    <3>3. QED
      BY <1>3, <3>1, <3>2
  <2>2. ASSUME NEW i \in 1 .. G + 1, NEW j \in 1 .. G + 1, i < j, gb'[j].mingb, gb'[i].comp \in {0, gb'[j].comp}
        PROVE  ~Divides(gb'[i].lead, gb'[j].lead)
    <3>1. i \in 1 .. G /\ gb'[i] = gb[i]
      BY <1>3, <1>8, <2>2
    <3>2. CASE j \in 1 .. G
      <4>1. gb'[j] = gb[j]
        BY <1>8, <3>2
      <4>2. QED
        BY <1>1, <1>3, <2>2, <3>1, <3>2, <4>1 DEF ElementInv
    <3>3. CASE j = G + 1
      <4>1. gb'[j] = r
        BY <1>8, <3>3
      <4>2. mingb /\ gb[i].comp \in {0, comp}
        BY <1>9, <2>2, <3>1, <4>1
      <4>3. i \notin Divisors(e, comp)
        BY <4>2
      <4>4. ~Divides(gb[i].lead, e)
        BY <1>1, <1>3, <3>1, <4>2, <4>3, LookupIs
      <4>5. QED
        BY <1>9, <3>1, <4>1, <4>4
    <3>4. j \in 1 .. G \/ j = G + 1
      BY <1>3
    <3>5. QED
      BY <3>2, <3>3, <3>4
  <2> HIDE DEF G
  <2>3. QED
    BY <1>2, <1>10, <1>12, <2>1, <2>2 DEF ElementInv
<1>15. LookupInv'
  <2> DEFINE R == Len(RingElements)
             term(n) == [lead |-> gb[R + n].lead, comp |-> gb[R + n].comp, val |-> R + n]
             next(n) == [lead |-> gb'[R + n].lead, comp |-> gb'[R + n].comp, val |-> R + n]
             new == [lead |-> e, comp |-> comp, val |-> G + 1]
             old == [n \in 1 .. G - R |-> term(n)]
  <2>1. lookup = [terms |-> old, last |-> NoMatch]
    BY <1>1 DEF LookupInv
  <2>2. lookup' = [terms |-> Append(old, new), last |-> NoMatch]
    <3> HIDE DEF old, new
    <3>1. lookup' = [lookup EXCEPT !.terms = Append(@, new)]
      BY <1>2 DEF InsertTerm, new
    <3>2. QED
      BY <2>1, <3>1
  <2>3. /\ G - R \in Nat /\ \A n \in 1 .. G - R : R + n \in 1 .. G
    BY <1>3
  <2>4. \A n \in 1 .. G - R : term(n) \in Term
    <3>1. \A i \in 1 .. G : gb[i].lead \in [Vars -> Nat] /\ gb[i].comp \in Nat
      BY <1>1, StateTypes
    <3>2. QED
      BY <1>3, <2>3, <3>1 DEF Term
  <2>5. new \in Term
    BY <1>3 DEF Term
  <2>6. old \in Seq(Term) /\ Len(old) = G - R
    <3> HIDE DEF term, Term
    <3>1. QED
      BY <2>3, <2>4
  <2>7. /\ Append(old, new) \in Seq(Term) /\ Len(Append(old, new)) = G - R + 1
        /\ Append(old, new)[G - R + 1] = new
        /\ \A n \in 1 .. G - R : Append(old, new)[n] = term(n)
    <3>1. \A n \in 1 .. G - R : old[n] = term(n)
      OBVIOUS
    <3> HIDE DEF old, new, Term, term
    <3>2. QED
      BY <2>3, <2>5, <2>6, <3>1
  <2>8. \A n \in 1 .. G - R + 1 : Append(old, new)[n] = next(n)
    <3>1. ASSUME NEW n \in 1 .. G - R PROVE term(n) = next(n)
      BY <1>8, <2>3, <3>1
    <3>2. new = next(G - R + 1)
      <4>1. R + (G - R + 1) = G + 1
        BY <1>3
      <4>2. QED
        BY <1>8, <1>9, <4>1
    <3> HIDE DEF old, new, term, next
    <3>3. \A n \in 1 .. G - R + 1 : n \in 1 .. G - R \/ n = G - R + 1
      BY <2>3
    <3>4. QED
      BY <2>7, <3>1, <3>2, <3>3
  <2>9. Append(old, new) = [n \in 1 .. G - R + 1 |-> next(n)]
    <3> HIDE DEF old, new, next, Term
    <3>1. Append(old, new) = [n \in 1 .. Len(Append(old, new)) |-> Append(old, new)[n]]
      <4>1. ASSUME NEW S, NEW q \in Seq(S) PROVE q = [n \in 1 .. Len(q) |-> q[n]]
        OBVIOUS
      <4>2. QED
        BY <2>7, <4>1
    <3>2. QED
      BY <2>7, <2>8, <3>1
  <2>10. Len(gb') - Len(RingElements') = G - R + 1
    BY <1>3, <1>8, <1>10
  <2> HIDE DEF old, new
  <2>11. lookup' = [terms |-> [n \in 1 .. Len(gb') - Len(RingElements') |-> next(n)], last |-> NoMatch]
    BY <2>2, <2>9, <2>10
  <2>12. QED
    BY <1>10, <2>11 DEF LookupInv
<1>16. PairInv'
  <2>1. \A p \in heap \cup taken : p.i \in first_gb_element .. np_i - 1 /\ gb'[p.i].mingb /\ p \in NewSet(p.i)'
    BY <1>1, <1>11, PairsStay
  <2>2. (\A p \in heap : p.deg > this_degree) /\ (\A p \in taken : p.deg <= this_degree)
    BY <1>1 DEF PairInv
  <2>3. QED
    BY <1>2, <1>10, <2>1, <2>2 DEF PairInv
<1>17. NothingTwice'
  BY <1>1, <1>2 DEF NothingTwice
<1>18. ChainCriterion'
  BY <1>1, <1>2, <1>11, ChainsUntouched
<1>19. QED
  BY <1>13, <1>14, <1>15, <1>16, <1>17, <1>18 DEF IInv

LEMMA InitHolds ==
  ASSUME Init
  PROVE  IInv
<1> DEFINE R == Len(RingElements)
           r(i) == [lead |-> RingElements[i].lead, gap |-> RingElements[i].gap, comp |-> 0,
                    deg |-> Weight(RingElements[i].lead) + RingElements[i].gap, mingb |-> FALSE]
<1>1. /\ input \in Inputs /\ gb = [i \in 1 .. R |-> r(i)] /\ lookup = EmptyTable
      /\ heap = {} /\ taken = {} /\ this_degree = -1 /\ np_i = R + 1 /\ first_gb_element = R + 1
  BY DEF Init, first_gb_element
<1>2. /\ R \in Nat /\ RingElements \in Seq([lead : Leads, gap : Nat]) /\ MaxDegree \in Nat
      /\ \A e \in Leads : e \in [Vars -> Nat]
  BY <1>1, InputTypes, PairsAssumption DEF RingElements, Leads
<1>3. \A i \in 1 .. R : RingElements[i] \in [lead : Leads, gap : Nat]
  <2> DEFINE S == [lead : Leads, gap : Nat]
  <2> HIDE DEF S
  <2>1. RingElements \in Seq(S)
    BY <1>2 DEF S
  <2>2. \A i \in 1 .. Len(RingElements) : RingElements[i] \in S
    BY <2>1
  <2>3. QED
    BY <2>2 DEF S
<1>4. \A i \in 1 .. R : r(i) \in Element
  <2>1. SUFFICES ASSUME NEW i \in 1 .. R PROVE r(i) \in Element
    OBVIOUS
  <2>2. RingElements[i].lead \in Leads /\ RingElements[i].gap \in Nat
    BY <1>3
  <2>3. Weight(RingElements[i].lead) \in Nat
    BY <1>2, <2>2, DividesReflexive, WeightMonotone
  <2>4. Weight(RingElements[i].lead) + RingElements[i].gap \in Nat
    BY <2>2, <2>3
  <2>5. QED
    BY <2>2, <2>4 DEF Element
<1>5. /\ \A i \in 1 .. R : /\ r(i).deg = Weight(r(i).lead) + r(i).gap /\ r(i).comp = 0 /\ r(i).mingb = FALSE
  OBVIOUS
<1> HIDE DEF R, r
<1>6. gb \in Seq(Element) /\ Len(gb) = R /\ \A i \in 1 .. R : gb[i] = r(i)
  <2> HIDE DEF Element
  <2>1. QED
    BY <1>1, <1>2, <1>4
<1>7. Indices = 1 .. R
  BY <1>1 DEF Indices
<1>8. StateInv
  <2>1. np_i \in first_gb_element .. Len(gb) + 1 /\ this_degree \in -1 .. MaxDegree /\ Len(RingElements) <= Len(gb)
    BY <1>1, <1>2, <1>6 DEF R
  <2>2. QED
    BY <1>1, <1>6, <2>1 DEF StateInv, Element
<1>9. ElementInv
  <2>1. \A i \in 1 .. R : i < first_gb_element /\ ~(i >= first_gb_element) /\ ~(i >= np_i)
    BY <1>1, <1>2
  <2>2. QED
    BY <1>5, <1>6, <1>7, <2>1 DEF ElementInv
<1>10. LookupInv
  <2>1. Len(gb) - Len(RingElements) = 0
    BY <1>2, <1>6 DEF R
  <2> DEFINE K == Len(gb) - Len(RingElements)
             at(n) == [lead |-> gb[Len(RingElements) + n].lead, comp |-> gb[Len(RingElements) + n].comp,
                       val |-> Len(RingElements) + n]
             S == {at(n) : n \in 1 .. K}
             terms == [n \in 1 .. K |-> at(n)]
  <2>2. terms = << >>
    <3>1. K = 0 /\ \A n \in 1 .. K : at(n) \in S
      BY <2>1
    <3> HIDE DEF K, at, S
    <3>2. terms \in Seq(S) /\ Len(terms) = 0
      BY <3>1
    <3> HIDE DEF terms
    <3>3. QED
      BY <3>2
  <2>3. lookup = [terms |-> terms, last |-> NoMatch]
    <3> HIDE DEF terms
    <3>1. QED
      BY <1>1, <2>2 DEF EmptyTable
  <2>4. QED
    BY <2>3 DEF LookupInv
<1>11. PairInv /\ NothingTwice
  BY <1>1 DEF PairInv, NothingTwice
<1>12. ChainCriterion
  <2>1. SUFFICES ASSUME NEW comp \in Components PROVE ChainsOf(comp)
    BY ChainsAre
  <2>2. SUFFICES ASSUME NEW N, N = Nodes(comp), NEW a \in N, NEW b \in N PROVE Joined(a, b, Lcm(a.lead, b.lead), N)
    BY DEF ChainsOf
  <2>3. \A x \in N : NodeOf(x, comp)
    BY <1>8, <2>2, NodeIs
  <2>4. ~\E i : i \in first_gb_element .. np_i - 1
    BY <1>1, <1>2
  <2>5. \A x \in N : x.kind = "ring" \/ x.kind = "skew"
    BY <2>3, <2>4 DEF NodeOf
  <2>6. \A x, y \in N : Settled(x, y)
    BY <2>5 DEF Settled
  <2>7. /\ a.lead \in [Vars -> Nat] /\ b.lead \in [Vars -> Nat]
    BY <2>2, <2>3 DEF NodeOf
  <2>8. a \in Below(N, Lcm(a.lead, b.lead)) /\ b \in Below(N, Lcm(a.lead, b.lead))
    BY <2>2, <2>7, LcmIs DEF Below
  <2>9. <<a, b>> \in Edges(N)
    BY <2>2, <2>6 DEF Edges
  <2>10. QED
    BY <2>8, <2>9, LinkStep, JoinedIs
<1>13. QED
  BY <1>8, <1>9, <1>10, <1>11, <1>12 DEF IInv

\* The next degree.
LEMMA NextDegreeHolds ==
  ASSUME IInv, NextDegree
  PROVE  IInv'
<1>1. StateInv /\ ElementInv /\ LookupInv /\ PairInv /\ NothingTwice /\ ChainCriterion
  BY DEF IInv
<1>2. np_i > Len(gb) /\ input' = input /\ gb' = gb /\ lookup' = lookup /\ np_i' = np_i
  BY DEF NextDegree
<1>3. PICK d \in this_degree + 1 .. MaxDegree :
        /\ \A e \in NextDegrees : d <= e
        /\ this_degree' = d
        /\ taken' = taken \cup {p \in heap : p.deg = d}
        /\ heap' = {p \in heap : p.deg # d}
  BY DEF NextDegree
<1>4. /\ Len(gb) \in Nat /\ Indices = 1 .. Len(gb) /\ Len(RingElements) \in Nat
      /\ first_gb_element = Len(RingElements) + 1 /\ np_i \in Nat /\ np_i <= Len(gb) + 1 /\ this_degree \in Int
      /\ \A i \in 1 .. Len(gb) : gb[i].deg \in Nat
  BY <1>1, StateTypes
<1>5. d \in Int /\ d > this_degree /\ this_degree \in -1 .. MaxDegree /\ MaxDegree \in Nat /\ d \in -1 .. MaxDegree
  BY <1>1, <1>3, PairsAssumption DEF StateInv
<1>6. ElementsStay /\ (heap \cup taken)' = heap \cup taken
  BY <1>2, <1>3 DEF ElementsStay
<1>7. /\ Leads' = Leads /\ Components' = Components /\ RingElements' = RingElements
      /\ first_gb_element' = first_gb_element /\ Indices' = Indices
  BY <1>2 DEF Leads, Components, RingElements, first_gb_element, Indices
<1>8. StateInv'
  BY <1>1, <1>2, <1>3, <1>5, <1>7 DEF StateInv
<1>9. ElementInv'
  <2>1. ASSUME NEW i \in 1 .. Len(gb)
        PROVE  /\ gb[i].deg = Weight(gb[i].lead) + gb[i].gap
               /\ gb[i].comp = 0 <=> i < first_gb_element
               /\ i >= first_gb_element => gb[i].deg <= d
               /\ ~(i >= np_i)
    <3>1. ~(i >= np_i) /\ gb[i].deg \in Nat
      BY <1>2, <1>4
    <3>2. /\ gb[i].deg = Weight(gb[i].lead) + gb[i].gap
          /\ gb[i].comp = 0 <=> i < first_gb_element
          /\ i >= first_gb_element => gb[i].deg <= this_degree
      BY <1>1, <1>4 DEF ElementInv
    <3>3. QED
      BY <1>4, <1>5, <3>1, <3>2
  <2>2. \A i, j \in Indices :
          i < j /\ gb[j].mingb /\ gb[i].comp \in {0, gb[j].comp} => ~Divides(gb[i].lead, gb[j].lead)
    BY <1>1 DEF ElementInv
  <2>3. QED
    BY <1>2, <1>3, <1>4, <1>7, <2>1, <2>2 DEF ElementInv
<1>10. LookupInv'
  BY <1>1, <1>2, <1>7 DEF LookupInv
<1>11. \A p \in heap \cup taken :
         p.i \in first_gb_element .. np_i - 1 /\ gb'[p.i].mingb /\ p \in NewSet(p.i)' /\ p.deg \in Nat
  <2>1. \A p \in heap \cup taken : /\ p.i \in first_gb_element .. np_i - 1 /\ p.i \in 1 .. Len(gb)
                                   /\ gb'[p.i].mingb /\ p \in NewSet(p.i)'
    BY <1>1, <1>6, PairsStay
  <2>2. ASSUME NEW p \in heap \cup taken PROVE p.deg \in Nat
    <3>1. p.i \in first_gb_element .. Len(gb)
      BY <1>4, <2>1
    <3>2. p \in NewSet(p.i) /\ gb[p.i].mingb
      BY <1>1 DEF PairInv
    <3>3. QED
      BY <1>1, <3>1, <3>2, NewSetIs DEF PairOf
  <2>3. QED
    BY <2>1, <2>2
<1>12. PairInv'
  <2>1. \A p \in heap : p.deg > this_degree /\ d <= p.deg
    BY <1>1, <1>3 DEF PairInv, NextDegrees
  <2>2. \A p \in heap' : p.deg > this_degree'
    BY <1>3, <1>5, <1>11, <2>1
  <2>3. \A p \in taken' : p.deg <= this_degree'
    <3>1. \A p \in taken : p.deg <= this_degree
      BY <1>1 DEF PairInv
    <3>2. \A p \in taken : p.deg <= d
      BY <1>4, <1>5, <1>11, <3>1
    <3>3. QED
      BY <1>3, <1>5, <3>2
  <2>4. QED
    BY <1>2, <1>6, <1>7, <1>11, <2>2, <2>3 DEF PairInv
<1>13. NothingTwice'
  BY <1>1, <1>6 DEF NothingTwice
<1>14. ChainCriterion'
  BY <1>1, <1>2, <1>6, ChainsUntouched
<1>15. QED
  BY <1>8, <1>9, <1>10, <1>12, <1>13, <1>14 DEF IInv

\* Chains of the components the new element is not in.
LEMMA ChainsElsewhere ==
  ASSUME StateInv, UpdatePairs, NEW comp, ChainsOf(comp), ~(gb[np_i].mingb /\ gb[np_i].comp = comp)
  PROVE  ChainsOf(comp)'
<1>1. np_i <= Len(gb) /\ np_i' = np_i + 1 /\ input' = input /\ gb' = gb /\ taken' = taken
  BY DEF UpdatePairs
<1>2. Nodes(comp)' = Nodes(comp)
  BY <1>1, NodesNext
<1>3. \A p \in heap : p \in heap' \/ (gb[np_i].mingb /\ PairNotNeeded(p, gb[np_i]))
  BY DEF UpdatePairs
<1>4. ASSUME NEW x \in Nodes(comp), NEW y \in Nodes(comp), Settled(x, y) PROVE Settled(x, y)'
  <2>1. NodeOf(x, comp) /\ NodeOf(y, comp)
    BY NodeIs
  <2>2. NeedsNoPair(x, y) \/ \E p \in heap \cup taken : PairOfNodes(p, x, y)
    BY <1>4, SettledIs
  <2>3. CASE NeedsNoPair(x, y)
    BY <1>1, <2>3, SettledIs
  <2>4. ASSUME NEW p \in heap \cup taken, PairOfNodes(p, x, y) PROVE Settled(x, y)'
    <3>1. gb[p.i].comp = comp
      BY <2>1, <2>4 DEF PairOfNodes, NodeOf
    <3>2. ~(gb[np_i].mingb /\ PairNotNeeded(p, gb[np_i]))
      BY <3>1 DEF PairNotNeeded
    <3>3. p \in (heap \cup taken)'
      BY <1>1, <1>3, <3>2
    <3>4. QED
      BY <2>4, <3>3, SettledIs
  <2>5. QED
    BY <2>2, <2>3, <2>4
<1>5. QED
  BY <1>2, <1>4, ChainsStay

\* The pairs of one more element.
LEMMA UpdatePairsHolds ==
  ASSUME IInv, UpdatePairs
  PROVE  IInv'
<1>1. StateInv /\ ElementInv /\ LookupInv /\ PairInv /\ NothingTwice /\ ChainCriterion
  BY DEF IInv
<1>2. /\ np_i <= Len(gb) /\ np_i' = np_i + 1 /\ input' = input /\ gb' = gb /\ lookup' = lookup /\ taken' = taken
      /\ this_degree' = this_degree
  BY DEF UpdatePairs
<1>3. /\ Len(gb) \in Nat /\ Indices = 1 .. Len(gb) /\ Len(RingElements) \in Nat
      /\ first_gb_element = Len(RingElements) + 1 /\ np_i \in Nat /\ first_gb_element <= np_i
      /\ np_i \in first_gb_element .. Len(gb) /\ np_i \in 1 .. Len(gb) /\ gb[np_i].mingb \in BOOLEAN
  <2>1. /\ Len(gb) \in Nat /\ Indices = 1 .. Len(gb) /\ Len(RingElements) \in Nat
        /\ first_gb_element = Len(RingElements) + 1 /\ np_i \in Nat /\ first_gb_element <= np_i
    BY <1>1, StateTypes
  <2>2. np_i \in first_gb_element .. Len(gb) /\ np_i \in 1 .. Len(gb)
    BY <1>2, <2>1
  <2>3. QED
    BY <1>1, <2>1, <2>2, StateTypes
<1>4. ElementsStay
  BY <1>2 DEF ElementsStay
<1>5. /\ Leads' = Leads /\ Components' = Components /\ RingElements' = RingElements
      /\ first_gb_element' = first_gb_element /\ Indices' = Indices
  BY <1>2 DEF Leads, Components, RingElements, first_gb_element, Indices
<1>6. StateInv'
  <2>1. np_i' \in first_gb_element' .. Len(gb') + 1
    BY <1>2, <1>3, <1>5
  <2>2. QED
    BY <1>1, <1>2, <1>5, <2>1 DEF StateInv
<1>7. ElementInv'
  <2>1. \A i \in 1 .. Len(gb) : i >= np_i + 1 => i >= np_i
    BY <1>3
  <2>2. QED
    BY <1>1, <1>2, <1>3, <1>5, <2>1 DEF ElementInv
<1>8. LookupInv'
  BY <1>1, <1>2, <1>5 DEF LookupInv
\* What waits now: what waited, and pairs of the new element.
<1>9. ASSUME NEW p \in heap' PROVE p \in heap \/ (gb[np_i].mingb /\ PairOf(p, np_i) /\ p \in NewSet(np_i))
  <2>1. CASE gb[np_i].mingb
    <3>1. PICK choice \in Choices(NewSet(np_i)) :
            heap' = {q \in heap : ~PairNotNeeded(q, gb[np_i])} \cup MinimalizePairs(NewSet(np_i), choice)
      BY <2>1 DEF UpdatePairs
    <3>2. GoodPairs(NewSet(np_i)) /\ \A q \in NewSet(np_i) : PairOf(q, np_i)
      BY <1>1, <1>3, <2>1, NewSetIs
    <3>3. MinimalizePairs(NewSet(np_i), choice) \in SUBSET NewSet(np_i)
      BY <3>2, MinimalizedIs
    <3>4. QED
      BY <1>2, <1>9, <2>1, <3>1, <3>2, <3>3
  <2>2. CASE ~gb[np_i].mingb
    BY <1>2, <1>9, <2>2 DEF UpdatePairs
  <2>3. QED
    BY <2>1, <2>2
<1>10. \A p \in heap \cup taken : /\ p.i \in first_gb_element .. np_i - 1 /\ p.i \in 1 .. Len(gb)
                                  /\ gb'[p.i].mingb /\ p \in NewSet(p.i)'
  BY <1>1, <1>4, PairsStay
<1>11. PairInv'
  <2>1. ASSUME NEW p \in (heap \cup taken)'
        PROVE  p.i \in first_gb_element .. np_i /\ gb'[p.i].mingb /\ p \in NewSet(p.i)'
    <3>1. CASE p \in heap \cup taken
      <4>1. p.i \in first_gb_element .. np_i
        BY <1>3, <1>10, <3>1
      <4>2. QED
        BY <1>10, <3>1, <4>1
    <3>2. CASE gb[np_i].mingb /\ PairOf(p, np_i) /\ p \in NewSet(np_i)
      <4>1. p.i = np_i /\ np_i \in first_gb_element .. np_i
        BY <1>3, <3>2 DEF PairOf
      <4>2. \A id \in first_gb_element .. Len(gb) : NewSet(id)' = NewSet(id)
        BY <1>1, <1>4, NewSetKept
      <4>3. NewSet(p.i)' = NewSet(p.i)
        <5>1. \A id : id = p.i => NewSet(id)' = NewSet(p.i)'
          OBVIOUS
        <5>2. p.i \in first_gb_element .. Len(gb)
          BY <1>3, <4>1
        <5>3. QED
          BY <4>2, <5>2
      <4>4. QED
        BY <1>2, <3>2, <4>1, <4>3
    <3>3. QED
      BY <1>2, <1>9, <2>1, <3>1, <3>2
  <2>2. ASSUME NEW p \in heap' PROVE p.deg > this_degree
    <3>1. CASE gb[np_i].mingb /\ PairOf(p, np_i)
      <4>1. gb[np_i].deg = this_degree
        <5>1. np_i >= np_i
          BY <1>3
        <5>2. QED
          BY <1>1, <1>3, <5>1 DEF ElementInv
      <4>2. QED
        BY <3>1, <4>1 DEF PairOf
    <3>2. CASE p \in heap
      BY <1>1, <3>2 DEF PairInv
    <3>3. QED
      BY <1>9, <2>2, <3>1, <3>2
  <2>3. \A p \in taken' : p.deg <= this_degree'
    BY <1>1, <1>2 DEF PairInv
  <2>4. np_i' - 1 = np_i
    BY <1>2, <1>3
  <2>5. QED
    BY <1>2, <1>5, <2>1, <2>2, <2>3, <2>4 DEF PairInv
<1>12. NothingTwice'
  <2>1. SUFFICES ASSUME NEW p \in (heap \cup taken)', NEW q \in (heap \cup taken)', p # q, p.i = q.i, Divides(p.lcm, q.lcm)
                 PROVE  p.lcm # q.lcm /\ (p.deg > q.deg \/ (p.deg = q.deg /\ Types[p.type] > Types[q.type]))
    BY DEF NothingTwice
  <2>2. ASSUME NEW r \in (heap \cup taken)', r \notin heap \cup taken PROVE r.i = np_i
    BY <1>2, <1>9, <2>2 DEF PairOf
  <2>3. \A r \in heap \cup taken : r.i # np_i
    BY <1>3, <1>10
  <2>4. CASE p \in heap \cup taken /\ q \in heap \cup taken
    BY <1>1, <2>1, <2>4 DEF NothingTwice
  <2>5. CASE p \notin heap \cup taken /\ q \notin heap \cup taken
    <3>1. gb[np_i].mingb
      BY <1>2, <1>9, <2>1, <2>5
    <3>2. PICK choice \in Choices(NewSet(np_i)) :
            heap' = {r \in heap : ~PairNotNeeded(r, gb[np_i])} \cup MinimalizePairs(NewSet(np_i), choice)
      BY <3>1 DEF UpdatePairs
    <3>3. GoodPairs(NewSet(np_i))
      BY <1>1, <1>3, <3>1, NewSetIs
    <3>4. p \in MinimalizePairs(NewSet(np_i), choice) /\ q \in MinimalizePairs(NewSet(np_i), choice)
      BY <1>2, <2>1, <2>5, <3>2
    <3>5. QED
      BY <2>1, <3>3, <3>4, MinimalizedIs
  <2>6. QED
    BY <2>1, <2>2, <2>3, <2>4, <2>5
<1>13. ChainCriterion'
  <2>1. SUFFICES ASSUME NEW comp \in Components PROVE ChainsOf(comp)'
    BY <1>5, ChainsAre
  <2>2. ChainsOf(comp)
    BY <1>1, ChainsAre
  <2>3. CASE gb[np_i].mingb /\ gb[np_i].comp = comp
    BY <1>1, <2>2, <2>3, ChainsWithNew
  <2>4. CASE ~(gb[np_i].mingb /\ gb[np_i].comp = comp)
    BY <1>1, <2>2, <2>4, ChainsElsewhere
  <2>5. QED
    BY <2>3, <2>4
<1>14. QED
  BY <1>6, <1>7, <1>8, <1>11, <1>12, <1>13 DEF IInv

-----------------------------------------------------------------------------
(* The theorems.                                                            *)

\* The pairs of an element are records of their type.
LEMMA PairRecords ==
  ASSUME NEW id, NEW p \in NewSet(id)
  PROVE  p = [type |-> p.type, i |-> p.i, j |-> p.j, lcm |-> p.lcm, deg |-> p.deg]
<1>1. \A type, i : LET q == SpairMake(type, id, i) IN q = [type |-> q.type, i |-> q.i, j |-> q.j, lcm |-> q.lcm, deg |-> q.deg]
  BY DEF SpairMake
<1>2. \A v : LET q == SpairMakeSkew(id, v) IN q = [type |-> q.type, i |-> q.i, j |-> q.j, lcm |-> q.lcm, deg |-> q.deg]
  BY DEF SpairMakeSkew
<1>3. p \in SkewPairs(id) \/ p \in RingPairs(id) \/ p \in BasisPairs(id)
  BY NewSetSplit
<1>4. (\E type, i : p = SpairMake(type, id, i)) \/ \E v : p = SpairMakeSkew(id, v)
  BY <1>3 DEF SkewPairs, RingPairs, BasisPairs
<1>5. QED
  BY <1>1, <1>2, <1>4

LEMMA PairsTyped ==
  ASSUME IInv, NEW p \in heap \cup taken
  PROVE  p \in PairType /\ PairOf(p, p.i) /\ p.i \in 1 .. Len(gb)
<1>1. StateInv /\ ElementInv /\ PairInv
  BY DEF IInv
<1>2. p.i \in first_gb_element .. np_i - 1 /\ gb[p.i].mingb /\ p \in NewSet(p.i)
  BY <1>1 DEF PairInv
<1>3. /\ Len(gb) \in Nat /\ Indices = 1 .. Len(gb) /\ Len(RingElements) \in Nat /\ first_gb_element = Len(RingElements) + 1
      /\ np_i \in Nat /\ np_i <= Len(gb) + 1 /\ SkewVars \subseteq Vars
  BY <1>1, StateTypes
<1>4. p.i \in first_gb_element .. Len(gb) /\ p.i \in 1 .. Len(gb) /\ p.i \in Indices
  BY <1>2, <1>3
<1>5. PairOf(p, p.i)
  BY <1>1, <1>2, <1>4, NewSetIs
<1>6. p.type \in DOMAIN Types
  BY <1>5 DEF PairOf, Types
<1>7. p.j \in Indices \cup Vars
  <2>1. CASE p.j \in SkewVars
    BY <1>3, <2>1
  <2>2. CASE p.j \in 1 .. first_gb_element - 1 \/ p.j \in first_gb_element .. p.i - 1
    BY <1>3, <1>4, <2>2
  <2>3. QED
    BY <1>5, <2>1, <2>2 DEF PairOf
<1>8. p.lcm \in [Vars -> Nat] /\ p.deg \in Nat
  BY <1>5 DEF PairOf
<1>9. p = [type |-> p.type, i |-> p.i, j |-> p.j, lcm |-> p.lcm, deg |-> p.deg]
  BY <1>2, PairRecords
<1>10. p \in PairType
  BY <1>4, <1>6, <1>7, <1>8, <1>9 DEF PairType
<1>11. QED
  BY <1>4, <1>5, <1>10

LEMMA HeapIsSound ==
  ASSUME IInv
  PROVE  HeapSound
<1>1. StateInv /\ ElementInv /\ LookupInv /\ PairInv /\ NothingTwice
  BY DEF IInv
<1>2. /\ Len(gb) \in Nat /\ Indices = 1 .. Len(gb) /\ Len(RingElements) \in Nat /\ first_gb_element = Len(RingElements) + 1
      /\ Len(RingElements) <= Len(gb) /\ this_degree \in Int /\ \A i \in 1 .. Len(gb) : gb[i] \in Element
  BY <1>1, StateTypes DEF StateInv
<1>3. \A p \in heap \cup taken : p \in PairType /\ PairOf(p, p.i)
  BY PairsTyped
<1>4. TypeOK
  <2>1. \A i \in Indices : gb[i] \in [lead : Leads, gap : Nat, comp : {0} \cup Components, deg : Nat, mingb : BOOLEAN]
    BY <1>2 DEF Element
  <2>2. heap \cap taken = {}
    <3>1. SUFFICES ASSUME NEW p \in heap, p \in taken PROVE FALSE
      OBVIOUS
    <3>2. p.deg > this_degree /\ p.deg <= this_degree
      BY <1>1, <3>1 DEF PairInv
    <3>3. p.deg \in Nat
      BY <1>3 DEF PairOf
    <3>4. QED
      BY <1>2, <3>2, <3>3
  <2>3. \A k \in DOMAIN lookup.terms : lookup.terms[k].val \in Elements
    <3>1. DOMAIN lookup.terms = 1 .. Len(gb) - Len(RingElements)
      BY <1>1 DEF LookupInv
    <3>2. \A k \in 1 .. Len(gb) - Len(RingElements) : lookup.terms[k].val = Len(RingElements) + k
      BY <1>1 DEF LookupInv
    <3>3. \A k \in 1 .. Len(gb) - Len(RingElements) : Len(RingElements) + k \in Elements
      BY <1>2 DEF Elements
    <3>4. QED
      BY <3>1, <3>2, <3>3
  <2>4. this_degree \in -1 .. MaxDegree /\ np_i \in first_gb_element .. Len(gb) + 1
    BY <1>1 DEF StateInv
  <2>5. heap \subseteq PairType /\ taken \subseteq PairType
    BY <1>3
  <2>6. QED
    BY <2>1, <2>2, <2>3, <2>4, <2>5 DEF TypeOK
<1>5. PairsAhead
  <2>1. SUFFICES ASSUME NEW p \in heap
                 PROVE  p.deg > this_degree /\ p.deg >= gb[p.i].deg /\ (p.type # "skew" => p.deg >= gb[p.j].deg)
    BY DEF PairsAhead
  <2>2. p.deg > this_degree
    BY <1>1 DEF PairInv
  <2>3. PairOf(p, p.i) /\ p.i \in 1 .. Len(gb) /\ gb[p.i].deg \in Nat
    BY <1>1, PairsTyped, StateTypes
  <2>4. p.deg >= gb[p.i].deg
    BY <2>3 DEF PairOf
  <2>5. p.type # "skew" => p.deg >= gb[p.j].deg
    BY <2>3 DEF PairOf
  <2>6. QED
    BY <2>2, <2>4, <2>5
<1>6. QED
  BY <1>1, <1>4, <1>5 DEF HeapSound

LEMMA TablesAreTruthful ==
  ASSUME IInv
  PROVE  TablesTruthful
<1>1. StateInv /\ ElementInv /\ LookupInv
  BY DEF IInv
<1>2. /\ Len(gb) \in Nat /\ Indices = 1 .. Len(gb) /\ \A e \in Leads : e \in [Vars -> Nat]
      /\ \A i \in 1 .. Len(gb) : gb[i].lead \in [Vars -> Nat] /\ gb[i].comp \in Nat
  BY <1>1, StateTypes
<1>3. LookupTruthful
  <2>1. SUFFICES ASSUME NEW e \in Leads, NEW comp \in Components
                 PROVE  Divisors(e, comp) = {i \in Indices : gb[i].comp \in {0, comp} /\ Divides(gb[i].lead, e)}
    BY DEF LookupTruthful
  <2>2. \A i : i \in Divisors(e, comp) <=> i \in 1 .. Len(gb) /\ gb[i].comp \in {0, comp} /\ Divides(gb[i].lead, e)
    BY <1>1, <1>2, LookupIs
  <2>3. QED
    BY <1>2, <2>2
<1>4. MinimalizeMinimal
  <2> DEFINE es == [i \in Indices |-> gb[i].lead]
             comps == [i \in Indices |-> gb[i].comp]
             smaller(i, j) == comps[i] = comps[j] /\ es[i] # es[j] /\ Divides(es[i], es[j])
             minimal == {j \in Indices : \A i \in Indices : ~smaller(i, j)}
             one == Minimalize(es, comps, FALSE)
  <2>1. es \in [1 .. Len(gb) -> [Vars -> Nat]] /\ comps \in [1 .. Len(gb) -> Nat] /\ DOMAIN es = 1 .. Len(gb)
    BY <1>2
  <2>2. ASSUME NEW j \in 1 .. Len(gb) PROVE MinimalAt(es, comps, j) <=> j \in minimal
    <3>1. MinimalAt(es, comps, j) <=> \A i \in 1 .. Len(gb) : ~smaller(i, j)
      <4> HIDE DEF es, comps
      <4>1. QED
        BY <2>1 DEF MinimalAt, Smaller
    <3>2. j \in minimal <=> \A i \in 1 .. Len(gb) : ~smaller(i, j)
      BY <1>2
    <3>3. QED
      BY <3>1, <3>2
  <2>3. minimal \subseteq 1 .. Len(gb)
    BY <1>2
  <2> HIDE DEF es, comps, minimal
  <2>4. {j \in 1 .. Len(gb) : MinimalAt(es, comps, j)} = minimal
    BY <2>2, <2>3
  <2>5. Minimalize(es, comps, TRUE) = minimal /\ one \subseteq minimal
    BY <1>2, <2>1, <2>4, MinimalizeIs
  <2>6. ASSUME NEW j \in minimal PROVE Cardinality({i \in one : es[i] = es[j] /\ comps[i] = comps[j]}) = 1
    <3>1. j \in 1 .. Len(gb) /\ MinimalAt(es, comps, j)
      BY <2>2, <2>3
    <3>2. OneOf(one, es, comps, j)
      BY <1>2, <2>1, <3>1, MinimalizeIs
    <3>3. PICK k : {i \in one : es[i] = es[j] /\ comps[i] = comps[j]} = {k}
      BY <3>2 DEF OneOf
    <3>4. QED
      BY <3>3, FS_Singleton
  <2>7. /\ Minimalize(es, comps, TRUE) = minimal
        /\ one \subseteq minimal
        /\ \A j \in minimal : Cardinality({i \in one : es[i] = es[j] /\ comps[i] = comps[j]}) = 1
    BY <2>5, <2>6
  <2>8. QED
    BY <2>7 DEF MinimalizeMinimal, es, comps, minimal
<1>5. QED
  BY <1>3, <1>4 DEF TablesTruthful

\* The inductive invariant: elements in the order of their degrees, the table of lead terms in
\* step with them, pairs of those elements that wait for degrees to come, and the two properties
\* of the pairs that are kept (gb-default.cpp, update_pairs and the steps around it).
THEOREM CriticalPairsInvariant == Spec => []IInv
<1>1. Init => IInv
  BY InitHolds
<1>2. IInv /\ [Next]_vars => IInv'
  <2>1. SUFFICES ASSUME IInv, [Next]_vars PROVE IInv'
    OBVIOUS
  <2>2. CASE NextDegree
    BY <2>1, <2>2, NextDegreeHolds
  <2>3. ASSUME NEW e \in Leads, NEW comp \in Components, NewElement(e, comp) PROVE IInv'
    <3>1. /\ this_degree - Weight(e) \in 0 .. MaxGap /\ Divisors(e, comp) = {} /\ InsertGB(e, comp, TRUE)
      BY <2>3 DEF NewElement
    <3>2. QED
      BY <2>1, <3>1, InsertHolds
  <2>4. ASSUME NEW e \in Leads, NEW comp \in Components, NewReducer(e, comp) PROVE IInv'
    <3>1. this_degree - Weight(e) \in 0 .. MaxGap /\ InsertGB(e, comp, FALSE)
      BY <2>4 DEF NewReducer
    <3>2. QED
      BY <2>1, <3>1, InsertHolds
  <2>5. CASE UpdatePairs
    BY <2>1, <2>5, UpdatePairsHolds
  <2>6. CASE UNCHANGED vars
    <3>1. /\ input' = input /\ gb' = gb /\ lookup' = lookup /\ heap' = heap /\ taken' = taken
          /\ this_degree' = this_degree /\ np_i' = np_i
      BY <2>6 DEF vars
    <3>2. StateInv /\ ElementInv /\ LookupInv /\ PairInv /\ NothingTwice /\ ChainCriterion
      BY <2>1 DEF IInv
    <3>3. ElementsStay /\ (heap \cup taken)' = heap \cup taken
      BY <3>1 DEF ElementsStay
    <3>4. ChainCriterion'
      BY <3>1, <3>2, <3>3, ChainsUntouched
    <3>5. /\ Leads' = Leads /\ Components' = Components /\ RingElements' = RingElements
          /\ first_gb_element' = first_gb_element /\ Indices' = Indices
      BY <3>1 DEF Leads, Components, RingElements, first_gb_element, Indices
    <3>6. StateInv' /\ ElementInv' /\ LookupInv' /\ NothingTwice'
      <4>1. StateInv'
        BY <3>1, <3>2, <3>5 DEF StateInv
      <4>2. ElementInv'
        BY <3>1, <3>2, <3>5 DEF ElementInv
      <4>3. LookupInv'
        BY <3>1, <3>2, <3>5 DEF LookupInv
      <4>4. NothingTwice'
        BY <3>1, <3>2 DEF NothingTwice
      <4>5. QED
        BY <4>1, <4>2, <4>3, <4>4
    <3>7. PairInv'
      <4>1. \A p \in heap \cup taken : p.i \in first_gb_element .. np_i - 1 /\ gb'[p.i].mingb /\ p \in NewSet(p.i)'
        BY <3>2, <3>3, PairsStay
      <4>2. QED
        BY <3>1, <3>2, <3>5, <4>1 DEF PairInv
    <3>8. QED
      BY <3>4, <3>6, <3>7 DEF IInv
  <2>7. QED
    BY <2>1, <2>2, <2>3, <2>4, <2>5, <2>6 DEF Next
<1>3. QED
  BY <1>1, <1>2, PTL DEF Spec

\* No pair is left out that is needed: between any two elements there is always a chain of
\* settled pairs with lcms that divide theirs, for any input and any number of elements
\* (pair_not_needed and minimalize_pairs_non_ZZ of gb-default.cpp).
THEOREM ChainsAlways == Spec => []ChainCriterion
<1>1. IInv => ChainCriterion
  BY DEF IInv
<1>2. QED
  BY <1>1, CriticalPairsInvariant, PTL

\* The pairs that wait are of degrees to come and of elements that are there, and none of an
\* element is kept beside one that makes it superfluous (spair_make, insert_pairs and
\* minimalize_pairs_non_ZZ of gb-default.cpp).
THEOREM HeapAlwaysSound == Spec => []HeapSound
<1>1. IInv => HeapSound
  BY HeapIsSound
<1>2. QED
  BY <1>1, CriticalPairsInvariant, PTL

\* The masks of the table hide no divisor, and minimalize finds the minimal monomials, all of
\* them or one of each (find_divisors and minimalize of montable.cpp).
THEOREM TablesAlwaysTruthful == Spec => []TablesTruthful
<1>1. IInv => TablesTruthful
  BY TablesAreTruthful
<1>2. QED
  BY <1>1, CriticalPairsInvariant, PTL
=============================================================================
