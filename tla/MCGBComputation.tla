--------------------------- MODULE MCGBComputation ---------------------------
(* Instances of GBComputation for TLC: the stop conditions the calls are given. *)
EXTENDS GBComputation

NoStop ==
  [always_stop |-> FALSE, degree_limit |-> NoLimit, basis_element_limit |-> 0, syzygy_limit |-> 0,
   pair_limit |-> 0, subring_limit |-> 0, just_min_gens |-> FALSE]

StopAtDegree   == [NoStop EXCEPT !.degree_limit = 2]
StopAtElement  == [NoStop EXCEPT !.basis_element_limit = 1]
StopAtPair     == [NoStop EXCEPT !.pair_limit = 2]
StopAtSyzygy   == [NoStop EXCEPT !.syzygy_limit = 1]
StopInSubring  == [NoStop EXCEPT !.subring_limit = 1]
StopAtMinGens  == [NoStop EXCEPT !.just_min_gens = TRUE]
StopAtOnce     == [NoStop EXCEPT !.always_stop = TRUE]

FieldStops   == {NoStop, StopAtDegree, StopAtElement, StopAtMinGens, StopAtOnce}
SyzygyStops  == {NoStop, StopAtSyzygy, StopAtPair, StopInSubring}
HilbertStops == {NoStop, StopAtDegree, StopAtElement}
NoStops      == {NoStop}

=============================================================================
