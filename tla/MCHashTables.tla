----------------------------- MODULE MCHashTables -----------------------------
(* Instances of HashTables for TLC. *)
EXTENDS HashTables

CONSTANTS k1, k2, k3, k4

\* k1 and k3 always share a bucket, k2 is with them while the table is small.
MCHash   == [k \in {k1, k2, k3, k4} |-> IF k = k2 THEN 5 ELSE IF k = k4 THEN 2 ELSE 1]
MCValues == [k \in {k1, k2, k3, k4} |-> IF k = k1 THEN {1, 2} ELSE {1}]
=============================================================================
