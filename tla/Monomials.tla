------------------------------- MODULE Monomials -------------------------------
(***************************************************************************)
(* Monomials as exponent vectors: e/ntuple.hpp and the static functions    *)
(* at the head of e/gb-default.cpp of src/M2/Macaulay2.                    *)
(***************************************************************************)
EXTENDS Integers, Sequences, FiniteSets

CONSTANTS
  NVars,       \* number of variables
  Weights      \* weight of each variable

Vars == 1 .. NVars

ASSUME MonomialAssumption == NVars \in Nat \ {0} /\ Weights \in [Vars -> Nat \ {0}]

One         == [v \in Vars |-> 0]
Power(v, n) == [w \in Vars |-> IF w = v THEN n ELSE 0]

Divides(a, b)  == \A v \in Vars : a[v] <= b[v]
Coprime(a, b)  == \A v \in Vars : a[v] = 0 \/ b[v] = 0
Lcm(a, b)      == [v \in Vars |-> IF a[v] < b[v] THEN b[v] ELSE a[v]]

\* a : b, the exponents cut off at zero.
Quotient(a, b) == [v \in Vars |-> IF a[v] > b[v] THEN a[v] - b[v] ELSE 0]

Weight(a) == LET upTo[v \in 0 .. NVars] == IF v = 0 THEN 0 ELSE upTo[v - 1] + a[v] * Weights[v]
             IN  upTo[NVars]

LexLess(a, b) == \E v \in Vars : a[v] < b[v] /\ \A w \in 1 .. v - 1 : a[w] = b[w]

\* The minimal monomials of a set.
Minimal(ms) == {m \in ms : \A n \in ms : Divides(n, m) => n = m}

\* The elements of the finite set S in the order of a total order on it.
InOrder(S, less(_, _)) ==
  [n \in 1 .. Cardinality(S) |-> CHOOSE x \in S : Cardinality({y \in S : less(y, x)}) = n - 1]
=============================================================================
