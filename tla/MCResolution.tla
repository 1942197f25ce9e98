----------------------------- MODULE MCResolution -----------------------------
(* Instances of Resolution for TLC: the stop conditions the calls are given. *)
EXTENDS Resolution

NoStop == [degree_limit |-> NoLimit, length_limit |-> NoLimit, syzygy_limit |-> 0, pair_limit |-> 0]

MCStops == {NoStop, [NoStop EXCEPT !.degree_limit = 1],
            [NoStop EXCEPT !.pair_limit = 3, !.syzygy_limit = 2],
            [NoStop EXCEPT !.length_limit = 2], [NoStop EXCEPT !.length_limit = 4]}
=============================================================================
