------------------------------ MODULE Resolution ------------------------------
(***************************************************************************)
(* The free resolutions of the engine by the algorithm of Schreyer and     *)
(* Lascala, class res_comp of src/M2/Macaulay2/e/res-a1.cpp: a state       *)
(* machine over slanted degrees and levels that stops at limits and        *)
(* interrupts, and goes on where it was left when it is called again.      *)
(*                                                                         *)
(* A pair is abstracted to its level, its slanted degree (its degree minus *)
(* its level) and what has become of it.  To which pair of the level below *)
(* a reduction leads, if to any, and which new pairs there are, is left    *)
(* open, within what degrees allow.  Degrees count from lodegree.          *)
(***************************************************************************)
EXTENDS Integers, Sequences, FiniteSets

CONSTANTS
  LengthLimit,      \* the length limit the computation is made with
  MaxDegree,        \* bound on slanted degrees
  MaxGens,          \* bound on the generators
  MaxPairs,         \* bound on the generators and pairs ever made
  MaxNewPairs,      \* bound on the pairs that one pair gives rise to
  MaxCalls,         \* bound on the calls of resolution
  MaxInterrupts,    \* bound on the interrupts
  StopConditions,   \* the stop conditions callers give
  NoLimit           \* no degree limit, or no length limit

Degrees == 0 .. MaxDegree
Levels  == 1 .. LengthLimit + 1

ASSUME ResolutionAssumption ==
  /\ LengthLimit \in Nat \ {0} /\ MaxDegree \in Nat
  /\ MaxGens \in Nat /\ MaxPairs \in Nat /\ MaxGens <= MaxPairs /\ MaxNewPairs \in Nat
  /\ MaxCalls \in Nat /\ MaxInterrupts \in Nat /\ NoLimit \notin Int
  /\ StopConditions \subseteq
       [degree_limit : Int \cup {NoLimit}, length_limit : Nat \cup {NoLimit},
        syzygy_limit : Nat, pair_limit : Nat]

VARIABLES
  pair,            \* generators and pairs: [level, deg, type]
  top,             \* the greatest degree for which each level has a degree set
  is_sorted,       \* the degree sets <<level, degree>> that are sorted
  next_gen,        \* the generators that are not handled yet
  next_new_pair,   \* in sorted degree sets: what new_pairs has still to be called for
  next_pair,       \* in sorted degree sets: what handle_pair has still to be called for
  n_level, n_degree, length_limit,
  nleft, npairs, nminimal,
  status, stop_, interruptedFlag,
  pc,              \* the call that start_computation is in, or "idle"
  calls, interrupts

lists  == <<pair, top, is_sorted, next_gen, next_new_pair, next_pair>>
counts == <<nleft, npairs, nminimal>>
vars   == <<lists, n_level, n_degree, length_limit, counts, status, stop_, interruptedFlag, pc,
            calls, interrupts>>

Pairs == DOMAIN pair

\* hidegree grows when a degree set is made.
hidegree == CHOOSE d \in Degrees : (\E l \in DOMAIN top : top[l] = d) /\ \A l \in DOMAIN top : top[l] <= d

\* In the list of a degree set: no generator that waits or was reduced to zero.
Listed == {p \in Pairs : pair[p].type \notin {"GEN", "REMOVED"}}
InSet(ps, level, deg) == {p \in ps : pair[p].level = level /\ pair[p].deg = deg}

\* initialize: the generators, and the components of the free module, of which only the
\* greatest degree matters; one of all these has degree lodegree.
Init ==
  /\ \E n \in 0 .. MaxGens : pair \in [1 .. n -> [level : {1}, deg : Degrees, type : {"GEN"}]]
  /\ top \in [0 .. LengthLimit + 1 -> -1 .. MaxDegree]
  /\ top[0] >= 0 /\ \A l \in 2 .. LengthLimit + 1 : top[l] = -1
  /\ \A p \in Pairs : pair[p].deg <= top[1]
  /\ top[1] >= 0 => \E p \in Pairs : pair[p].deg = top[1]
  /\ is_sorted = {} /\ next_gen = Pairs /\ next_new_pair = {} /\ next_pair = {}
  /\ n_level = 2 /\ n_degree = 0 /\ length_limit = LengthLimit
  /\ nleft = Len(pair) /\ npairs = Len(pair) /\ nminimal = 0
  /\ status = "NOT_STARTED" /\ interruptedFlag = FALSE /\ pc = "idle"
  /\ stop_ = [degree_limit |-> NoLimit, length_limit |-> NoLimit, syzygy_limit |-> 0, pair_limit |-> 0]
  /\ calls = 0 /\ interrupts = 0

-----------------------------------------------------------------------------
(* Calls.                                                                   *)

Return(code) == status' = code /\ pc' = "idle"

\* set_stop_conditions, stop_conditions_ok and, unless the length limit is refused,
\* start_computation: the head of resolutionInEngine of m2/res.m2 makes no call when the
\* computation is done.
Call ==
  /\ pc = "idle" /\ status # "DONE"
  /\ calls < MaxCalls /\ calls' = calls + 1
  /\ \E s \in StopConditions :
       /\ stop_' = s
       /\ IF s.length_limit # NoLimit /\ s.length_limit > length_limit
            THEN UNCHANGED <<status, pc, length_limit>>
            ELSE /\ status' = "COMPUTING" /\ pc' = "gens0"
                 /\ length_limit' = IF s.length_limit = NoLimit THEN length_limit ELSE s.length_limit
  /\ interruptedFlag' = FALSE
  /\ UNCHANGED <<lists, n_level, n_degree, counts, interrupts>>

\* A signal, while the engine computes.
Interrupt ==
  /\ pc # "idle" /\ ~interruptedFlag
  /\ interrupts < MaxInterrupts /\ interrupts' = interrupts + 1
  /\ interruptedFlag' = TRUE
  /\ UNCHANGED <<lists, n_level, n_degree, length_limit, counts, status, stop_, pc, calls>>

\* After a generator or a pair was handled, and is no more left.
AfterHandling ==
  /\ nleft' = nleft - 1 + (npairs' - npairs)
  /\ IF stop_.pair_limit > 0 /\ npairs' - nleft' >= stop_.pair_limit THEN Return("DONE_PAIR_LIMIT")
     ELSE IF stop_.syzygy_limit > 0 /\ nminimal' >= stop_.syzygy_limit THEN Return("DONE_SYZYGY_LIMIT")
     ELSE IF interruptedFlag THEN Return("INTERRUPTED")
     ELSE UNCHANGED <<status, pc>>

-----------------------------------------------------------------------------
(* Degree sets.                                                             *)

HasSet(level, deg) == deg <= top[level]

\* sort_pairs: what it adds to next_pair and next_new_pair.
Sorting(level, deg) == IF HasSet(level, deg) /\ <<level, deg>> \notin is_sorted
                         THEN InSet(Listed, level, deg) ELSE {}
NowSorted(level, deg) == is_sorted \cup (IF HasSet(level, deg) THEN {<<level, deg>>} ELSE {})

\* insert_res_pair, for several pairs of a level: they are not looked at in a degree set
\* that is sorted already.
Inserted(ps, level) ==
  /\ pair' = pair \o ps
  /\ top' = [top EXCEPT ![level] =
               CHOOSE d \in {@} \cup {ps[n].deg : n \in DOMAIN ps} :
                 d >= @ /\ \A n \in DOMAIN ps : d >= ps[n].deg]

-----------------------------------------------------------------------------
(* gens(deg): the generators of a degree, then next.                        *)

Gens(deg, next) ==
  LET mine == InSet(next_gen, 1, deg)
  IN  IF mine # {}
        THEN /\ \E p \in mine, type \in {"MINIMAL", "REMOVED"} :
                  /\ next_gen' = next_gen \ {p}
                  /\ pair' = [pair EXCEPT ![p].type = type]
                  /\ nminimal' = nminimal + (IF type = "MINIMAL" THEN 1 ELSE 0)
             /\ npairs' = npairs
             /\ AfterHandling
             /\ UNCHANGED <<top, is_sorted, next_new_pair, next_pair>>
        ELSE /\ next_new_pair' = next_new_pair \cup Sorting(1, deg)
             /\ next_pair' = next_pair \cup Sorting(1, deg)
             /\ is_sorted' = NowSorted(1, deg)
             /\ pc' = next
             /\ UNCHANGED <<pair, top, next_gen, counts, status>>

\* new_pairs(p): pairs of higher degree, which go to level n_level.
NewPairs(p) ==
  LET least == pair[p].deg + pair[p].level + 1 - n_level
      sp(d) == [level |-> n_level, deg |-> d, type |-> "S_PAIR"]
  IN  \E n \in 0 .. MaxNewPairs : \E ds \in [1 .. n -> least .. MaxDegree] :
        /\ \A i \in 1 .. n - 1 : ds[i] <= ds[i + 1]
        /\ Len(pair) + n <= MaxPairs
        /\ Inserted([i \in 1 .. n |-> sp(ds[i])], n_level)
        /\ npairs' = npairs + n /\ nleft' = nleft + n

\* pairs(level, deg): the new pairs of a degree set, then next.
PairsOf(level, deg, next) ==
  LET mine == InSet(next_new_pair \cup Sorting(level, deg), level, deg)
  IN  /\ is_sorted' = NowSorted(level, deg)
      /\ next_pair' = next_pair \cup Sorting(level, deg)
      /\ IF mine # {}
           THEN \E p \in mine :
                  /\ next_new_pair' = (next_new_pair \cup Sorting(level, deg)) \ {p}
                  /\ NewPairs(p)
                  /\ IF interruptedFlag THEN Return("INTERRUPTED") ELSE UNCHANGED <<status, pc>>
           ELSE /\ next_new_pair' = next_new_pair \cup Sorting(level, deg)
                /\ pc' = next
                /\ UNCHANGED <<pair, top, npairs, nleft, status>>
      /\ UNCHANGED <<next_gen, nminimal>>

-----------------------------------------------------------------------------
(* reductions(level, deg).                                                  *)

\* The pairs in the ideals that reduce searches, that is for which new_pairs was called.
Searched == {q \in Listed : <<pair[q].level, pair[q].deg>> \in is_sorted} \ next_new_pair

\* Mutant: a pair that was filled in by a reduction of the level above is reduced all the same.
NeverNeeded(p) == FALSE

NotNeeded(p) == pair[p].type = "NOT_NEEDED"

\* handle_pair, when the pair is not needed,
Skip(p) == NotNeeded(p) /\ UNCHANGED <<pair, top, nminimal>>

\* when it reduces to zero,
Minimal(p) ==
  /\ ~NotNeeded(p)
  /\ pair' = [pair EXCEPT ![p].type = "MINIMAL"] /\ nminimal' = nminimal + 1
  /\ UNCHANGED top

\* when reduce comes to a pair q of the level below that is not computed yet: the
\* remainder fills it in,
FillsIn(p, q) ==
  /\ ~NotNeeded(p) /\ n_level > 2
  /\ q \in Searched /\ pair[q].level = n_level - 1 /\ pair[q].type = "S_PAIR"
  /\ pair[q].deg <= pair[p].deg + 1
  /\ pair' = [pair EXCEPT ![p].type = "NOT_MINIMAL", ![q].type = "NOT_NEEDED"]
  /\ UNCHANGED <<top, nminimal>>

\* and when reduce_level_one comes to a monomial not seen yet: a new element of level 1.
FillsInNew(p) ==
  /\ ~NotNeeded(p) /\ n_level = 2 /\ Len(pair) < MaxPairs
  /\ pair[p].deg < MaxDegree
  /\ pair' = Append([pair EXCEPT ![p].type = "NOT_MINIMAL"],
                    [level |-> 1, deg |-> pair[p].deg + 1, type |-> "NOT_NEEDED"])
  /\ top' = [top EXCEPT ![1] = IF @ > pair[p].deg THEN @ ELSE pair[p].deg + 1]
  /\ UNCHANGED nminimal

Reductions(level, deg, next) ==
  LET mine == InSet(next_pair \cup Sorting(level, deg), level, deg)
  IN  /\ is_sorted' = NowSorted(level, deg)
      /\ next_new_pair' = next_new_pair \cup Sorting(level, deg)
      /\ npairs' = npairs
      /\ IF mine # {}
           THEN \E p \in mine :
                  /\ next_pair' = (next_pair \cup Sorting(level, deg)) \ {p}
                  /\ Skip(p) \/ Minimal(p) \/ FillsInNew(p) \/ \E q \in Pairs : FillsIn(p, q)
                  /\ AfterHandling
           ELSE /\ next_pair' = next_pair \cup Sorting(level, deg)
                /\ pc' = next
                /\ UNCHANGED <<pair, top, nleft, nminimal, status>>
      /\ UNCHANGED next_gen

-----------------------------------------------------------------------------
(* start_computation.                                                       *)

At(p) == pc = p /\ UNCHANGED <<n_degree, length_limit, stop_, interruptedFlag, calls, interrupts>>

GensFirst    == At("gens0") /\ Gens(0, "pairs0") /\ UNCHANGED n_level
PairsFirst   == At("pairs0") /\ PairsOf(1, 0, "head") /\ UNCHANGED n_level

BeyondLimit(d) == stop_.degree_limit # NoLimit /\ stop_.degree_limit < d

DegreeLoop ==
  /\ At("head")
  /\ IF n_degree > hidegree THEN Return("DONE")
     ELSE IF BeyondLimit(n_degree) THEN Return("DONE_DEGREE_LIMIT")
     ELSE pc' = (IF n_level = 2 THEN "reductions2" ELSE "level") /\ UNCHANGED status
  /\ UNCHANGED <<lists, n_level, counts>>

ReductionsTwo == At("reductions2") /\ Reductions(2, n_degree, "gens") /\ UNCHANGED n_level

\* Mutant: the generators of this degree, after its reductions.
GensNextLate  == At("gens") /\ Gens(n_degree, "pairs") /\ UNCHANGED n_level

GensNext      == At("gens") /\ Gens(n_degree + 1, "pairs") /\ UNCHANGED n_level
PairsNext     == /\ At("pairs") /\ PairsOf(1, n_degree + 1, "level")
                 /\ n_level' = IF pc' = "level" THEN 3 ELSE n_level

\* Mutant: the level that only cancels is left out.
FewerLevels == n_level <= length_limit

MoreLevels == n_level <= length_limit + 1

\* The loop over the levels, and its end: the next degree.
Level ==
  /\ pc = "level"
  /\ IF MoreLevels
       THEN pc' = "pairsBelow" /\ UNCHANGED <<n_level, n_degree>>
       ELSE pc' = "head" /\ n_level' = 2 /\ n_degree' = n_degree + 1
  /\ UNCHANGED <<lists, length_limit, counts, status, stop_, interruptedFlag, calls, interrupts>>

\* Mutant: the pairs of the next degree are not made.
PairsBelowOnly  == At("pairsBelowNext") /\ pc' = "reductions"
                   /\ UNCHANGED <<lists, n_level, counts, status>>

PairsBelow      == At("pairsBelow") /\ PairsOf(n_level - 1, n_degree, "pairsBelowNext") /\ UNCHANGED n_level
PairsBelowNext  == At("pairsBelowNext") /\ PairsOf(n_level - 1, n_degree + 1, "reductions") /\ UNCHANGED n_level
ReductionsAbove == /\ At("reductions") /\ Reductions(n_level, n_degree, "level")
                   /\ n_level' = IF pc' = "level" THEN n_level + 1 ELSE n_level

Compute ==
  \/ GensFirst \/ PairsFirst \/ DegreeLoop
  \/ ReductionsTwo \/ GensNext \/ PairsNext
  \/ Level \/ PairsBelow \/ PairsBelowNext \/ ReductionsAbove

Next == Call \/ Interrupt \/ Compute

Spec == Init /\ [][Next]_vars

-----------------------------------------------------------------------------
(* Properties.                                                              *)

TypeOK ==
  /\ pair \in Seq([level : Levels, deg : Degrees,
                   type : {"GEN", "REMOVED", "S_PAIR", "MINIMAL", "NOT_MINIMAL", "NOT_NEEDED"}])
  /\ top \in [0 .. LengthLimit + 1 -> -1 .. MaxDegree]
  /\ is_sorted \subseteq Levels \X Degrees
  /\ next_gen \subseteq Pairs /\ next_new_pair \subseteq Listed /\ next_pair \subseteq Listed
  /\ n_level \in 2 .. LengthLimit + 2 /\ n_degree \in 0 .. MaxDegree + 1

\* What is still to be reduced at its level.
Open(p) == pair[p].type \in {"GEN", "S_PAIR"}

Handled(p) == pair[p].type # "GEN" /\ <<pair[p].level, pair[p].deg>> \in is_sorted /\ p \notin next_pair

\* new_pairs is called with a pair of the level below n_level, at the start of a resumed call
\* too, and within a level degree after degree.
PairsInOrder ==
  /\ pc = "pairs0" /\ n_level > 2 => InSet(next_new_pair \cup Sorting(1, 0), 1, 0) = {}
  /\ \A p \in Searched, q \in Listed :
       pair[q].level = pair[p].level /\ pair[q].deg < pair[p].deg => q \in Searched

\* nleft, by which the pair limit stops, is what is left to be handled, whatever was filled in.
NLeftTruthful ==
  nleft = Cardinality({p \in Pairs : pair[p].type = "GEN"})
          + Cardinality({p \in Pairs : pair[p].level >= 2 /\ ~Handled(p)})

\* What is not minimal comes in pairs, of a syzygy and what it fills in one level below and one
\* slanted degree above, so that leaving both out of the Betti numbers keeps the Euler
\* characteristic of each degree.
CancelInPairs ==
  \A l \in 2 .. LengthLimit + 1, d \in Degrees :
    Cardinality({p \in InSet(Pairs, l, d) : pair[p].type = "NOT_MINIMAL"})
      = Cardinality({q \in InSet(Pairs, l - 1, d + 1) : pair[q].type = "NOT_NEEDED"})

\* The frame through interrupts, stops and resumed calls: types, the order of new pairs, the
\* count of what is left, and the cancelling of what is not minimal.
FrameSound == TypeOK /\ PairsInOrder /\ NLeftTruthful /\ CancelInPairs

\* What the comments before gens and pairs call preconditions: when a level is reduced in a
\* degree, the level below is reduced through that degree, and all its pairs that a reduction
\* can come to, those of the next slanted degree included, are in the ideals it searches; so
\* reduce never comes to a monomial it has not seen.
ReductionReady ==
  /\ pc \in {"reductions2", "reductions"} =>
       \A q \in Pairs : pair[q].level = n_level - 1 /\ pair[q].deg <= n_degree => ~Open(q)
  /\ pc = "reductions" =>
       \A q \in Pairs : pair[q].level = n_level - 1 /\ pair[q].deg <= n_degree + 1 => q \in Searched
  /\ pc = "gens" =>
       \A q \in Pairs : pair[q].level = 2 /\ pair[q].deg <= n_degree => Handled(q)

\* complete_thru_degree is n_degree - 1: nothing is open there, at the levels asked for,
CompleteThruTruthful ==
  \A p \in Pairs : pair[p].level <= length_limit + 1 /\ Open(p) => pair[p].deg >= n_degree

DoneMeansComplete ==
  status = "DONE" => \A p \in Pairs : pair[p].level <= length_limit + 1 => ~Open(p)

\* and nothing at all when start_computation says it is done, after any stops before.
StatusTruthful == CompleteThruTruthful /\ DoneMeansComplete

\* insert_res_pair puts nothing in a degree set that is sorted, where next_pair and
\* next_new_pair would miss it.
NothingLate == \A p \in Listed' \ Listed : <<pair'[p].level, pair'[p].deg>> \notin is_sorted

Betti(l, d) == Cardinality({p \in InSet(Pairs, l, d) : pair[p].type = "MINIMAL"})

\* What n_minimal counts in a degree set stays once its degree, or its level in this degree, is
\* over.
BettiFinal ==
  \A l \in 1 .. LengthLimit, d \in Degrees :
    /\ l <= length_limit' /\ <<l, d>> \in is_sorted
    /\ d < n_degree \/ (d = n_degree /\ l < n_level)
    => Betti(l, d)' = Betti(l, d)

\* What a call gave is not taken back by a later one: no step adds to a sorted degree set, or
\* changes a Betti number that is final.
Settled == [][NothingLate /\ BettiFinal]_vars

-----------------------------------------------------------------------------
(* The inductive invariant of the proofs (ResolutionProofs).                *)

IsSorted(l, d) == <<l, d>> \in is_sorted

\* Of a level, through a degree: the generators are handled, new_pairs was called, and
\* handle_pair was.
GensThrough(d)        == \A p \in Pairs : pair[p].type = "GEN" => pair[p].deg > d
SearchedThrough(l, d) == \A p \in Listed : pair[p].level = l /\ pair[p].deg <= d => p \in Searched
HandledThrough(l, d)  == \A p \in Pairs : pair[p].level = l /\ pair[p].deg <= d => Handled(p)

InLoop == pc \notin {"idle", "gens0", "pairs0"}

\* Where start_computation is, and what it has been through.
PositionInv ==
  /\ pc \in {"idle", "gens0", "pairs0", "head", "reductions2", "gens", "pairs", "level", "pairsBelow",
             "pairsBelowNext", "reductions"}
  /\ length_limit \in 0 .. LengthLimit
  /\ pc \in {"reductions2", "gens", "pairs"} => n_level = 2
  /\ pc \in {"level", "pairsBelow", "pairsBelowNext", "reductions"} => n_level > 2
  /\ pc \in {"pairsBelow", "pairsBelowNext", "reductions"} => n_level <= length_limit + 1
  /\ InLoop /\ pc # "head" => n_degree <= MaxDegree
  /\ pc # "idle" => status = "COMPUTING"
  /\ npairs \in Nat

\* Every pair has its place in the degree sets and in what is still to be done.
PairInv ==
  /\ top[0] >= 0 /\ \A p \in Pairs : pair[p].deg <= top[pair[p].level]
  /\ next_gen = {p \in Pairs : pair[p].type = "GEN"}
  /\ \A p \in next_new_pair \cup next_pair : p \in Listed /\ IsSorted(pair[p].level, pair[p].deg)
  /\ \A p \in Pairs :
       /\ pair[p].level = 1 => pair[p].type \in {"GEN", "REMOVED", "MINIMAL", "NOT_NEEDED"}
       /\ pair[p].level > 1 => pair[p].type \notin {"GEN", "REMOVED"}
       /\ pair[p].level > 1 /\ ~IsSorted(pair[p].level, pair[p].deg) => pair[p].type = "S_PAIR"
       /\ pair[p].level > 1 /\ p \in next_pair => pair[p].type \in {"S_PAIR", "NOT_NEEDED"}
       /\ pair[p].type = "S_PAIR" /\ IsSorted(pair[p].level, pair[p].deg) => p \in next_pair

\* The degree sets that are sorted: a level is ahead of the degree by one, and of the level
\* that is reduced by none.
SortedInv ==
  \A l \in Levels, d \in Degrees : IsSorted(l, d) =>
    /\ d <= n_degree + 1 /\ (l >= n_level => d <= n_degree) /\ (l > n_level => n_degree > 0)
    /\ l = 1 => GensThrough(d) /\ SearchedThrough(1, d - 1)
    /\ l > 1 => SearchedThrough(l - 1, d)

\* Through which degree the generators, the pairs and the reductions of a level are done.
GensInv ==
  /\ is_sorted # {} => GensThrough(0)
  /\ n_degree > 0 \/ pc \notin {"idle", "gens0"} => GensThrough(n_degree)
  /\ n_level > 2 \/ pc = "pairs" => GensThrough(n_degree + 1)

SearchedInv ==
  \A l \in Levels : l = 1 \/ l <= length_limit =>
    /\ l < n_level - 1 \/ (l = n_level - 1 /\ pc = "reductions") => SearchedThrough(l, n_degree + 1)
    /\ n_degree > 0 \/ (l = n_level - 1 /\ pc = "pairsBelowNext") \/ (l = 1 /\ InLoop)
         => SearchedThrough(l, n_degree)

HandledInv ==
  \A l \in Levels : l = 2 \/ (l > 2 /\ l <= length_limit + 1) =>
    /\ HandledThrough(l, n_degree - 1)
    /\ l < n_level => HandledThrough(l, n_degree)
    /\ l = 2 /\ (pc \in {"gens", "pairs"} \/ IsSorted(1, n_degree + 1)) => HandledThrough(2, n_degree)

IInv ==
  /\ TypeOK /\ PositionInv /\ PairInv /\ SortedInv /\ GensInv /\ SearchedInv /\ HandledInv
  /\ PairsInOrder /\ NLeftTruthful /\ CancelInPairs /\ DoneMeansComplete
=============================================================================
