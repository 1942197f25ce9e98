------------------------------ MODULE MCM2File ------------------------------
(***************************************************************************)
(* An instance of M2File for TLC: two threads on one file, with callers    *)
(* that change its mode only while nobody uses it; between the modes       *)
(* without an exclusive owner at any moment; from the exclusive mode to    *)
(* the synchronized one at any moment, and back in quiet; out of the       *)
(* exclusive mode at any moment, and into it in quiet; and without a rule. *)
(***************************************************************************)
EXTENDS M2File

CONSTANTS p, q

MCDisciplines ==
  {[inUse |-> {}, modes |-> Modes, switches |-> 3],
   [inUse |-> {<<Unsynchronized, Synchronized>>, <<Synchronized, Unsynchronized>>}, modes |-> Modes,
    switches |-> 2],
   [inUse |-> {<<Exclusive, Synchronized>>}, modes |-> {Synchronized, Exclusive}, switches |-> 2],
   [inUse |-> Modes \X {Unsynchronized, Synchronized}, modes |-> Modes, switches |-> 2],
   [inUse |-> Modes \X Modes, modes |-> Modes, switches |-> 1]}
=============================================================================
