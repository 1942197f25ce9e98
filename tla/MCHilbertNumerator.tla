-------------------------- MODULE MCHilbertNumerator --------------------------
(* Instances of HilbertNumerator for TLC. *)
EXTENDS HilbertNumerator

MCWeights == [v \in Vars |-> IF v = 1 THEN 2 ELSE 1]
MCRows    == <<0, 1>>

\* The sets of monomials mono(1) .. mono(count), none of which divides another.
With(As, m) == As \cup {A \cup {m} : A \in {B \in As : \A k \in B : ~Divides(k, m) /\ ~Divides(m, k)}}
Antichains(count, mono(_)) ==
  LET upTo[n \in 0 .. count] == IF n = 0 THEN {{}} ELSE With(upTo[n - 1], mono(n))
  IN  upTo[count]

\* Exponents up to two in three variables; square-free monomials in four.
InBox(n)      == <<(n - 1) \div 9, ((n - 1) \div 3) % 3, (n - 1) % 3, 0>>
SquareFree(n) == <<(n - 1) \div 8, ((n - 1) \div 4) % 2, ((n - 1) \div 2) % 2, (n - 1) % 2>>

\* Every monomial ideal of these.
OneRow == {<<I>> : I \in Antichains(27, InBox) \cup Antichains(16, SquareFree)}

\* Two components; lead monomials of which some divide others; the ideals zero and one.
TwoRows == {<<{}, {<<1, 1, 0, 0>>, <<0, 1, 1, 0>>, <<2, 0, 0, 0>>}>>,
            <<{<<0, 2, 0, 1>>, <<1, 1, 1, 0>>, <<2, 2, 2, 1>>}, {One}>>,
            <<{Power(1, 1), Power(2, 2)}, {<<1, 1, 0, 0>>, <<0, 1, 1, 0>>, <<1, 0, 1, 0>>}>>}

MCInputs == OneRow \cup TwoRows \cup {<< >>}
=============================================================================
