--------------------------- MODULE MCCriticalPairs ---------------------------
(* Instances of CriticalPairs for TLC. *)
EXTENDS CriticalPairs

MCWeights == [v \in Vars |-> 1]

\* A polynomial ring in three variables.
Polynomials == [ring |-> << >>, skew |-> {}, components |-> {1}, is_ideal |-> TRUE,
                max_exp |-> <<2, 1, 1>>, elements |-> 4]

\* A quotient ring, with an element that is not homogeneous.
QuotientRing == [Polynomials EXCEPT !.elements = 3, !.max_exp = <<1, 1, 1>>,
                                    !.ring = <<[lead |-> <<1, 1, 0>>, gap |-> 0],
                                               [lead |-> <<0, 1, 1>>, gap |-> 1]>>]

\* Skew-commuting variables.
Skew == [Polynomials EXCEPT !.skew = {2, 3}, !.elements = 3, !.max_exp = <<2, 1, 1>>]

\* A submodule: no product criterion.
Submodule == [Polynomials EXCEPT !.components = {1, 2}, !.is_ideal = FALSE, !.elements = 3,
                                 !.max_exp = <<1, 1, 1>>]

\* A submodule over a quotient ring whose relation has a gap.
Relation == [Submodule EXCEPT !.components = {1}, !.elements = 2, !.max_exp = <<1, 2, 0>>,
                              !.ring = <<[lead |-> <<1, 1, 0>>, gap |-> 2]>>]

MCInputs == {Polynomials, QuotientRing, Skew, Submodule, Relation}
=============================================================================
