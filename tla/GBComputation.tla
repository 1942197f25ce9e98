---------------------------- MODULE GBComputation ----------------------------
(***************************************************************************)
(* The engine's default Groebner basis computation, class gbA of           *)
(* src/M2/Macaulay2/e/gb-default.cpp: a state machine over degrees that an *)
(* interrupt or a stop condition may leave at many places, and that a      *)
(* later call of rawStartComputation enters again where it was left.       *)
(*                                                                         *)
(* Polynomials are abstracted to what the control needs of them.  An       *)
(* S-pair, or a generator, knows how many reductions beyond                *)
(* max_reduction_count it needs (work) and whether its remainder is new,   *)
(* that is not zero; both are fixed when it is made.  A basis element has  *)
(* its degree and its minlevel.  The lists of a degree are sets: the order *)
(* in which spairs_sort puts them is left open.                            *)
(***************************************************************************)
EXTENDS Integers, Sequences, FiniteSets

CONSTANTS
  NGens,            \* number of generators that are not zero
  MaxDegree,        \* bound on the degrees of generators and pairs
  MaxPairs,         \* bound on the generators and pairs ever made
  MaxNewPairs,      \* bound on the pairs one basis element gives rise to
  MaxWork,          \* bound on how often a pair is deferred by its reduction count
  MaxGaps,          \* bound on the pairs deferred to a later degree; 0: homogeneous
  MaxCalls,         \* bound on the calls of gb
  MaxInterrupts,    \* bound on the interrupts
  StopConditions,   \* the stop conditions callers give
  HintedCalls,      \* the calls that come with a Hilbert function
  OverZZ,           \* the coefficients are the integers
  CollectSyz,       \* _collect_syz
  HasSubring,       \* the monomial order eliminates: elements may lie in a subring
  Local,            \* is_local_gb
  NoLimit           \* no degree limit

Degrees == 1 .. MaxDegree

ASSUME ConstantsAssumption ==
  /\ NGens \in Nat /\ MaxDegree \in Nat \ {0} /\ MaxPairs \in Nat /\ NGens <= MaxPairs
  /\ MaxNewPairs \in Nat /\ MaxWork \in Nat /\ MaxGaps \in Nat
  /\ MaxCalls \in Nat /\ MaxInterrupts \in Nat /\ HintedCalls \subseteq 1 .. MaxCalls
  /\ {OverZZ, CollectSyz, HasSubring, Local} \subseteq BOOLEAN
  /\ NoLimit \notin Int
  /\ StopConditions \subseteq
       [always_stop : BOOLEAN, degree_limit : Degrees \cup {NoLimit}, basis_element_limit : Nat,
        syzygy_limit : Nat, pair_limit : Nat, subring_limit : Nat, just_min_gens : BOOLEAN]

VARIABLES
  spair,           \* the generators and pairs made so far
  S,               \* SPairSet
  gb,              \* the basis elements, without those of a quotient ring
  state,           \* gbA_state
  status,          \* computation_status
  this_degree, complete_thru_this_degree, first_in_degree,
  np_i, ar_i, ar_j,                         \* numbers of elements that are behind the index
  npairs, n_pairs_computed, n_gens_left, n_syz, n_subring,
  use_hilb, hilb_new_elems, hilb_n_in_degree,
  stop_,
  interruptedFlag,
  pc,              \* where the call is: idle, at the head of the loop, in the switch
  done,            \* pairs that are dealt with: reduced, flushed or not needed
  flushed,         \* pairs that flush_pairs deleted
  gaps, calls, interrupts                   \* what is left of the bounds

degrees  == <<this_degree, complete_thru_this_degree, first_in_degree>>
autored  == <<ar_i, ar_j>>
counts   == <<npairs, n_pairs_computed, n_gens_left, n_syz, n_subring>>
hilbert  == <<use_hilb, hilb_new_elems, hilb_n_in_degree>>
bounds   == <<gaps, calls, interrupts>>
vars     == <<spair, S, gb, state, status, degrees, np_i, autored, counts, hilbert, stop_,
              interruptedFlag, pc, done, flushed, bounds>>

Pairs == 1 .. MaxPairs
Made  == DOMAIN spair
n_gb  == Len(gb)

-----------------------------------------------------------------------------
(* SPairSet: the pairs of later degrees, and four lists for this degree.    *)

InDegree(s) == s.spair_list \cup s.spair_deferred_list \cup s.gen_list \cup s.gen_deferred_list

\* spair_set_insert.
Insert(s, ps) == [s EXCEPT !.heap = @ \cup ps, !.nelems = @ + Cardinality(ps)]

\* Mutant: the deferred pairs are taken before the list is used up.
RefilledEarly(s) ==
  IF s.spair_deferred_list # {}
    THEN [s EXCEPT !.spair_list = s.spair_deferred_list, !.spair_deferred_list = {}]
  ELSE IF s.gen_list # {} THEN s
  ELSE [s EXCEPT !.gen_list = s.gen_deferred_list, !.gen_deferred_list = {}]

\* spair_set_next refills a list from its deferred list; generators come last.
Refilled(s) ==
  IF s.spair_list # {} THEN s
  ELSE IF s.spair_deferred_list # {}
    THEN [s EXCEPT !.spair_list = s.spair_deferred_list, !.spair_deferred_list = {}]
  ELSE IF s.gen_list # {} THEN s
  ELSE [s EXCEPT !.gen_list = s.gen_deferred_list, !.gen_deferred_list = {}]

Candidates(s) == LET r == Refilled(s) IN IF r.spair_list # {} THEN r.spair_list ELSE r.gen_list

\* What spair_set_next leaves when it returns p.
Without(s, p) ==
  [Refilled(s) EXCEPT !.spair_list = @ \ {p}, !.gen_list = @ \ {p},
                      !.nelems = @ - 1, !.n_in_degree = @ - 1]

\* Mutant: the pair is not counted.
DeferUncounted(s, p, type) ==
  IF type = "gen" THEN [s EXCEPT !.gen_deferred_list = @ \cup {p}]
                  ELSE [s EXCEPT !.spair_deferred_list = @ \cup {p}]

\* spair_set_defer.
Defer(s, p, type) ==
  IF type = "gen" THEN [s EXCEPT !.gen_deferred_list = @ \cup {p}, !.n_in_degree = @ + 1]
                  ELSE [s EXCEPT !.spair_deferred_list = @ \cup {p}, !.n_in_degree = @ + 1]

\* flush_pairs: spair_set_next until nothing is left.
Flushed(s) ==
  [s EXCEPT !.spair_list = {}, !.spair_deferred_list = {}, !.gen_list = {},
            !.gen_deferred_list = {}, !.nelems = @ - Cardinality(InDegree(s)),
            !.n_in_degree = @ - Cardinality(InDegree(s))]

\* spair_set_determine_next_degree.
NextDegree(s, d) ==
  /\ \E p \in s.heap : spair[p].deg = d
  /\ \A p \in s.heap : spair[p].deg >= d

\* spair_set_prepare_next_degree; what was left in the lists is forgotten.
Prepared(s, d) ==
  LET now == {p \in s.heap : spair[p].deg = d}
  IN  [s EXCEPT !.heap = @ \ now,
                !.gen_list  = {p \in now : spair[p].type = "gen"},
                !.spair_list = {p \in now : spair[p].type # "gen"},
                !.gen_deferred_list = {}, !.spair_deferred_list = {},
                !.n_in_degree = Cardinality(now)]

-----------------------------------------------------------------------------
\* A pair of an element of degree deg: over a field no lead monomial that is
\* paired divides another one, so that the lcm is of higher degree.
NewPair(deg) ==
  [type : {"spair"}, deg : (IF OverZZ THEN deg ELSE deg + 1) .. MaxDegree, new : BOOLEAN,
   work : 0 .. MaxWork]

Init ==
  /\ spair \in [1 .. NGens -> [type : {"gen"}, deg : Degrees, new : BOOLEAN, work : 0 .. MaxWork]]
  /\ S = [heap |-> 1 .. NGens, spair_list |-> {}, spair_deferred_list |-> {}, gen_list |-> {},
          gen_deferred_list |-> {}, nelems |-> NGens, n_in_degree |-> 0]
  /\ gb = <<>>
  /\ state = "NEWDEGREE" /\ status = "NOT_STARTED"
  /\ this_degree = 0 /\ complete_thru_this_degree = 0 /\ first_in_degree = 0
  /\ np_i = 0 /\ ar_i = 0 /\ ar_j = 1
  /\ npairs = 0 /\ n_pairs_computed = 0 /\ n_gens_left = NGens /\ n_syz = 0 /\ n_subring = 0
  /\ use_hilb = FALSE /\ hilb_new_elems = FALSE /\ hilb_n_in_degree = 0
  /\ stop_ = [always_stop |-> FALSE, degree_limit |-> NoLimit, basis_element_limit |-> 0,
              syzygy_limit |-> 0, pair_limit |-> 0, subring_limit |-> 0, just_min_gens |-> FALSE]
  /\ interruptedFlag = FALSE
  /\ pc = "idle"
  /\ done = {} /\ flushed = {}
  /\ gaps = MaxGaps /\ calls = 0 /\ interrupts = MaxInterrupts

\* computation_is_complete; the codimension it compares with is always 0 (the limit
\* is not functional) and is left out.
Complete(stop, nelements, nsyz, ncomputed, gensleft, nsub) ==
  IF stop.basis_element_limit > 0 /\ nelements >= stop.basis_element_limit THEN "DONE_GB_LIMIT"
  ELSE IF stop.syzygy_limit > 0 /\ nsyz >= stop.syzygy_limit THEN "DONE_SYZ_LIMIT"
  ELSE IF stop.pair_limit > 0 /\ ncomputed >= stop.pair_limit THEN "DONE_PAIR_LIMIT"
  ELSE IF stop.just_min_gens /\ gensleft = 0 THEN "DONE_MIN_GENS"
  ELSE IF stop.subring_limit > 0 /\ nsub >= stop.subring_limit THEN "DONE_SUBRING_LIMIT"
  ELSE "COMPUTING"

BeyondLimit(stop, d) == stop.degree_limit # NoLimit /\ d > stop.degree_limit

Return(code) == status' = code /\ pc' = "idle"

\* gb of m2/gb.m2, unless the computation is done: rawGBSetHilbertFunction when
\* there is a hint (and syzygies are not collected), rawGBSetStop and
\* rawStartComputation, up to the loop of do_computation.
Call ==
  /\ pc = "idle" /\ status # "DONE"
  /\ calls < MaxCalls /\ calls' = calls + 1
  /\ IF calls' \in HintedCalls /\ ~CollectSyz
       THEN use_hilb' = TRUE /\ hilb_new_elems' = TRUE /\ state' = "HILB"
       ELSE UNCHANGED <<use_hilb, hilb_new_elems, state>>
  /\ stop_' \in StopConditions
  /\ LET c == Complete(stop_', n_gb, n_syz, n_pairs_computed, n_gens_left, n_subring)
     IN  IF stop_'.always_stop THEN UNCHANGED <<status, pc>>
         ELSE IF c # "COMPUTING" THEN Return(c)
         ELSE pc' = "top" /\ UNCHANGED status
  /\ interruptedFlag' = FALSE
  /\ UNCHANGED <<spair, S, gb, degrees, np_i, autored, counts, hilb_n_in_degree, done, flushed,
                 gaps, interrupts>>

\* A signal, while the engine computes.
Interrupt ==
  /\ pc # "idle" /\ ~interruptedFlag
  /\ interrupts > 0 /\ interrupts' = interrupts - 1
  /\ interruptedFlag' = TRUE
  /\ UNCHANGED <<spair, S, gb, state, status, degrees, np_i, autored, counts, hilbert, stop_, pc,
                 done, flushed, gaps, calls>>

\* The head of the loop, and STATE_DONE.
LoopHead ==
  /\ pc = "top"
  /\ IF BeyondLimit(stop_, this_degree) THEN Return("DONE_DEGREE_LIMIT")
     ELSE UNCHANGED status /\ pc' = IF state = "DONE" THEN "idle" ELSE "switch"
  /\ UNCHANGED <<spair, S, gb, state, degrees, np_i, autored, counts, hilbert, stop_,
                 interruptedFlag, done, flushed, bounds>>

In(s) == pc = "switch" /\ state = s

-----------------------------------------------------------------------------
(* STATE_NEWPAIRS *)

\* update_pairs: pairs that a criterion shows not to be needed go, new ones come.
\* A pair that is not needed would not have given a new element.
UpdatePairs(g) ==
  \E unneeded \in SUBSET {p \in S.heap : ~OverZZ /\ spair[p].type = "spair" /\ ~spair[p].new} :
  \E n \in 0 .. MaxNewPairs :
    /\ Len(spair) + n <= MaxPairs
    /\ \E ps \in [1 .. n -> NewPair(g.deg)] : spair' = spair \o ps
    /\ S' = Insert([S EXCEPT !.heap = @ \ unneeded, !.nelems = @ - Cardinality(unneeded)],
                   Len(spair) + 1 .. Len(spair) + n)
    /\ done' = done \cup unneeded

NewPairs ==
  /\ In("NEWPAIRS") /\ np_i < n_gb
  /\ IF interruptedFlag
       THEN Return("INTERRUPTED") /\ UNCHANGED <<spair, S, done, np_i>>
       ELSE /\ IF gb[np_i + 1].mingb THEN UpdatePairs(gb[np_i + 1])
                                     ELSE UNCHANGED <<spair, S, done>>
            /\ np_i' = np_i + 1
            /\ UNCHANGED <<status, pc>>
  /\ UNCHANGED <<gb, state, degrees, autored, counts, hilbert, stop_, interruptedFlag, flushed, bounds>>

\* Mutant: elements that came after an interrupt are not waited for.
NewPairsBroken ==
  /\ In("NEWPAIRS")
  /\ state' = "HILB"
  /\ UNCHANGED <<spair, S, gb, status, degrees, np_i, autored, counts, hilbert, stop_,
                 interruptedFlag, pc, done, flushed, bounds>>

NewPairsEnd ==
  /\ In("NEWPAIRS") /\ np_i = n_gb
  /\ state' = "HILB"
  /\ UNCHANGED <<spair, S, gb, status, degrees, np_i, autored, counts, hilbert, stop_,
                 interruptedFlag, pc, done, flushed, bounds>>

(* STATE_HILB: hilbertNumerator gives up when it sees the interrupt. *)
Hilb ==
  /\ In("HILB")
  /\ \/ /\ hilb_new_elems /\ interruptedFlag
        /\ Return("INTERRUPTED") /\ UNCHANGED <<hilb_new_elems, state>>
     \/ hilb_new_elems' = FALSE /\ state' = "NEWDEGREE" /\ UNCHANGED <<status, pc>>
  /\ UNCHANGED <<spair, S, gb, degrees, np_i, autored, counts, use_hilb, hilb_n_in_degree, stop_,
                 interruptedFlag, done, flushed, bounds>>

(* STATE_NEWDEGREE *)

\* The coefficient of hf_diff in this degree: how many elements are still to come.
HilbertCount(s) == Cardinality({p \in InDegree(s) : spair[p].new})

StartSpairs == ar_i' = n_gb /\ ar_j' = n_gb + 1 /\ state' = "SPAIRS"

NewDegreeDone ==
  /\ In("NEWDEGREE") /\ S.n_in_degree = 0 /\ S.heap = {}
  /\ S' = [S EXCEPT !.spair_list = {}, !.spair_deferred_list = {}, !.gen_list = {},
                    !.gen_deferred_list = {}]
  /\ npairs' = 0
  /\ complete_thru_this_degree' = this_degree - 1
  /\ state' = "DONE" /\ Return("DONE")
  /\ UNCHANGED <<spair, gb, this_degree, first_in_degree, np_i, autored, n_pairs_computed,
                 n_gens_left, n_syz, n_subring, hilbert, stop_, interruptedFlag, done, flushed, bounds>>

\* Mutant: the degree itself is taken to be complete.
DegreeBefore(d) == d

\* complete_thru_this_degree when degree d is begun.
DegreeBegun(d) == d - 1

\* Mutant: all pairs are flushed when the expected number is not positive.
FlushNow(n) == n <= 0

\* Nothing, or nothing more, is expected in this degree.
NoneExpected(n) == n = 0

NewDegree ==
  /\ In("NEWDEGREE") /\ S.n_in_degree = 0
  /\ \E d \in Degrees :
       /\ NextDegree(S, d)
       /\ this_degree' = d
       /\ first_in_degree' = IF this_degree < d THEN n_gb ELSE first_in_degree
       /\ complete_thru_this_degree' = DegreeBegun(d)
       /\ LET s == Prepared(S, d)
              n == HilbertCount(s)
          IN  /\ npairs' = s.n_in_degree
              /\ IF BeyondLimit(stop_, d)
                   THEN /\ S' = s /\ Return("DONE_DEGREE_LIMIT")
                        /\ UNCHANGED <<hilb_n_in_degree, done, flushed, autored, state>>
                 ELSE /\ StartSpairs /\ UNCHANGED <<status, pc>>
                      /\ hilb_n_in_degree' = IF use_hilb THEN n ELSE hilb_n_in_degree
                      /\ IF use_hilb /\ NoneExpected(n)
                           THEN /\ S' = Flushed(s)
                                /\ done' = done \cup InDegree(s)
                                /\ flushed' = flushed \cup InDegree(s)
                           ELSE S' = s /\ UNCHANGED <<done, flushed>>
  /\ UNCHANGED <<spair, gb, np_i, n_pairs_computed, n_gens_left, n_syz, n_subring, use_hilb,
                 hilb_new_elems, stop_, interruptedFlag, bounds>>

\* The degree was begun in an earlier call, which stopped at the degree limit.
NewDegreeResumed ==
  /\ In("NEWDEGREE") /\ S.n_in_degree # 0
  /\ StartSpairs
  /\ UNCHANGED <<spair, S, gb, status, degrees, np_i, counts, hilbert, stop_, interruptedFlag, pc,
                 done, flushed, bounds>>

-----------------------------------------------------------------------------
(* STATE_SPAIRS, STATE_GENS: one pair p, with s what spair_set_next left.    *)

Element(mingb, mingen) ==
  [deg |-> this_degree, mingb |-> mingb \/ OverZZ, mingen |-> mingen]

\* The end of insert_gb for the elements of gb', in the set of pairs s.
InsertGb(s) ==
  /\ \E sub \in {0, 1} : (sub = 1 => HasSubring) /\ n_subring' = n_subring + sub
  /\ IF use_hilb
       THEN /\ hilb_new_elems' = TRUE
            /\ hilb_n_in_degree' = hilb_n_in_degree - 1
            /\ IF NoneExpected(hilb_n_in_degree')
                 THEN /\ S' = Flushed(s)
                      /\ flushed' = flushed \cup InDegree(s)
                 ELSE S' = s /\ UNCHANGED flushed
       ELSE S' = s /\ UNCHANGED <<hilb_new_elems, hilb_n_in_degree, flushed>>
  /\ UNCHANGED use_hilb

NoInsertGb == UNCHANGED <<n_subring, hilbert, flushed>>

GensLeft(type) == n_gens_left' = IF type = "gen" THEN n_gens_left - 1 ELSE n_gens_left

\* Mutant: a generator counts as dealt with when it is deferred.
GensLeftDeferred(p, type) == GensLeft(type)

GensLeftKept(p, type) == UNCHANGED n_gens_left

\* reduce: the reduction count is exceeded.
DeferPair(p, s, type, elements) ==
  /\ spair[p].work > 0
  /\ spair' = [spair EXCEPT ![p].work = @ - 1, ![p].type = type]
  /\ S' = Defer(s, p, type)
  /\ gb' = elements
  /\ GensLeftKept(p, type)
  /\ NoInsertGb /\ UNCHANGED <<n_syz, done, gaps>>

\* reduce: the divisor has a higher gap.  The polynomial becomes an element that is
\* not in the minimal basis, and its remainder waits for a later degree.
RaisePair(p, s, type, elements) ==
  /\ spair[p].work = 0 /\ gaps > 0
  /\ gaps' = gaps - 1
  /\ \E d \in Degrees : d > spair[p].deg /\ spair' = [spair EXCEPT ![p].deg = d, ![p].type = type]
  /\ gb' = Append(elements, Element(FALSE, type = "gen"))
  /\ InsertGb(Insert(s, {p}))
  /\ done' = done \cup (flushed' \ flushed)
  /\ GensLeftKept(p, type) /\ UNCHANGED n_syz

\* process_spair: the remainder is a new element,
NewElement(p, s, type, elements) ==
  /\ spair[p].work = 0 /\ spair[p].new
  /\ gb' = Append(elements, Element(TRUE, type = "gen"))
  /\ InsertGb(s)
  /\ done' = done \cup {p} \cup (flushed' \ flushed)
  /\ GensLeft(type)
  /\ UNCHANGED <<spair, n_syz, gaps>>

\* or zero, and perhaps a syzygy; the last reduction may have been by a divisor of
\* higher gap.
ZeroRemainder(p, s, type, elements) ==
  /\ spair[p].work = 0 /\ ~spair[p].new
  /\ \E z \in {0, 1} : (z = 1 => CollectSyz) /\ n_syz' = n_syz + z
  /\ \/ gb' = elements /\ S' = s /\ NoInsertGb /\ UNCHANGED gaps
     \/ /\ gaps > 0 /\ gaps' = gaps - 1
        /\ gb' = Append(elements, Element(FALSE, type = "gen"))
        /\ InsertGb(s)
  /\ done' = done \cup {p} \cup (flushed' \ flushed)
  /\ GensLeft(type)
  /\ UNCHANGED spair

ProcessSpair(p, s, type, elements) ==
  \/ DeferPair(p, s, type, elements) \/ RaisePair(p, s, type, elements)
  \/ NewElement(p, s, type, elements) \/ ZeroRemainder(p, s, type, elements)

\* compute_s_pair.
ComputedType(p) == IF spair[p].type = "gen" THEN "gen" ELSE "elem"

\* reduce_ZZ swaps p with element k of this degree, of the same lead monomial, and
\* goes on with what k was.
ProcessSwapped(p, s) ==
  /\ OverZZ
  /\ \E k \in first_in_degree + 1 .. n_gb :
       LET type == IF gb[k].mingen THEN "gen" ELSE ComputedType(p)
       IN  ProcessSpair(p, s, type, [gb EXCEPT ![k].mingb = TRUE, ![k].mingen = type = "gen"])

\* One turn of the loop over the pairs of the degree.
Spairs ==
  /\ In("SPAIRS")
  /\ \E p \in Candidates(S) :
       \/ ProcessSpair(p, Without(S, p), ComputedType(p), gb)
       \/ ProcessSwapped(p, Without(S, p))
  /\ npairs' = npairs - 1
  /\ n_pairs_computed' = n_pairs_computed + 1
  /\ LET c == Complete(stop_, Len(gb'), n_syz', n_pairs_computed', n_gens_left', n_subring')
     IN  IF c # "COMPUTING" THEN Return(c)
         ELSE IF interruptedFlag THEN Return("INTERRUPTED")
         ELSE UNCHANGED <<status, pc>>
  /\ UNCHANGED <<state, degrees, np_i, autored, stop_, interruptedFlag, calls, interrupts>>

SpairsEnd ==
  /\ In("SPAIRS") /\ Candidates(S) = {}
  /\ state' = "AUTOREDUCE"
  /\ UNCHANGED <<spair, S, gb, status, degrees, np_i, autored, counts, hilbert, stop_,
                 interruptedFlag, pc, done, flushed, bounds>>

(* STATE_AUTOREDUCE: one element reduced by one other. *)

AutoReduce ==
  /\ In("AUTOREDUCE") /\ ~Local /\ ar_i < n_gb
  /\ IF ar_j >= n_gb
       THEN ar_i' = ar_i + 1 /\ ar_j' = ar_i + 2 /\ UNCHANGED <<status, pc>>
     ELSE IF interruptedFlag THEN Return("INTERRUPTED") /\ UNCHANGED autored
     ELSE ar_j' = ar_j + 1 /\ UNCHANGED <<ar_i, status, pc>>
  /\ UNCHANGED <<spair, S, gb, state, degrees, np_i, counts, hilbert, stop_, interruptedFlag, done,
                 flushed, bounds>>

AutoReduceEnd ==
  /\ In("AUTOREDUCE") /\ (Local \/ ar_i >= n_gb)
  /\ state' = "NEWPAIRS" /\ pc' = "top"
  /\ UNCHANGED <<spair, S, gb, status, degrees, np_i, autored, counts, hilbert, stop_,
                 interruptedFlag, done, flushed, bounds>>

-----------------------------------------------------------------------------
\* do_computation.
Compute ==
  \/ LoopHead \/ NewPairs \/ NewPairsEnd \/ Hilb
  \/ NewDegreeDone \/ NewDegree \/ NewDegreeResumed
  \/ Spairs \/ SpairsEnd \/ AutoReduce \/ AutoReduceEnd

Next == Call \/ Interrupt \/ Compute

Spec == Init /\ [][Next]_vars

\* A call runs as long as it can.
FairSpec == Spec /\ WF_vars(Compute)

-----------------------------------------------------------------------------
(* Properties. *)

\* The type of each variable.
TypeOK ==
  /\ spair \in Seq([type : {"gen", "elem", "spair"}, deg : Degrees, new : BOOLEAN, work : 0 .. MaxWork])
  /\ Len(spair) \in NGens .. MaxPairs
  /\ S.heap \cup InDegree(S) \subseteq Made /\ {S.nelems, S.n_in_degree} \subseteq Int
  /\ gb \in Seq([deg : Degrees, mingb : BOOLEAN, mingen : BOOLEAN])
  /\ state \in {"NEWDEGREE", "NEWPAIRS", "HILB", "SPAIRS", "AUTOREDUCE", "DONE"}
  /\ this_degree \in 0 .. MaxDegree /\ complete_thru_this_degree \in -1 .. MaxDegree
  /\ first_in_degree \in 0 .. n_gb /\ np_i \in 0 .. n_gb /\ ar_i \in 0 .. n_gb
  /\ pc \in {"idle", "top", "switch"}
  /\ done \subseteq Made /\ flushed \subseteq done

\* n_in_degree counts the pairs that wait in the lists of the degree: with 0 the
\* next degree is prepared, and spair_set_prepare_next_degree forgets the lists.
InDegreeTruthful == S.n_in_degree = Cardinality(InDegree(S))

\* Every pair is in one place: in the heap, in one list of the degree, or dealt with.
NoPairLost ==
  /\ S.heap \cup InDegree(S) \cup done = Made
  /\ Cardinality(S.heap) + Cardinality(S.spair_list) + Cardinality(S.spair_deferred_list)
       + Cardinality(S.gen_list) + Cardinality(S.gen_deferred_list) + Cardinality(done) = Len(spair)

\* complete_thru_degree: no pair of that degree or a lower one is left, and no
\* element that gives rise to one.
CompleteThruTruthful ==
  /\ \A p \in Made \ done : spair[p].deg > complete_thru_this_degree
  /\ \A i \in np_i + 1 .. n_gb : gb[i].mingb => gb[i].deg > complete_thru_this_degree

\* A computation that is done has dealt with every pair and paired every element,
\* however often it was interrupted, stopped and continued.
DoneMeansComplete == status = "DONE" => done = Made /\ np_i = n_gb

\* With the right Hilbert function no pair is flushed that would give an element.
NothingNewFlushed == \A p \in flushed : ~spair[p].new

\* A computation that stopped at its degree limit is complete in that degree.
DegreeLimitReached ==
  pc = "idle" /\ status = "DONE_DEGREE_LIMIT" /\ ~stop_.always_stop
    => stop_.degree_limit # NoLimit /\ complete_thru_this_degree >= stop_.degree_limit

\* A computation that stopped with the minimal generators knows them: every
\* generator is dealt with.
MinGensKnown == status = "DONE_MIN_GENS" => 1 .. NGens \subseteq done

\* Every call comes back: the loop over the degrees ends.
CallReturns == pc # "idle" ~> pc = "idle"

\* The pairs through deferrals, gaps, swaps, stops and interrupts: what the counts and the
\* lists of spair_set_* say agrees, and each pair is in one place until it is dealt with.
PairsAccounted == TypeOK /\ InDegreeTruthful /\ NoPairLost

\* What rawStatus reports is true whenever a call returns, and in between: the degree it is
\* complete through, that it is done, that it reached its degree limit.
StatusTruthful == CompleteThruTruthful /\ DoneMeansComplete /\ DegreeLimitReached

\* With a Hilbert function, given once: flush_pairs leaves out nothing that is needed, and
\* the computation that is done without the flushed pairs has paired all its elements.
FlushSound == NothingNewFlushed /\ DoneMeansComplete

-----------------------------------------------------------------------------
(* The inductive invariants of the proofs (GBComputationProofs).            *)

SPairSet ==
  [heap : SUBSET Pairs, spair_list : SUBSET Pairs, spair_deferred_list : SUBSET Pairs,
   gen_list : SUBSET Pairs, gen_deferred_list : SUBSET Pairs, nelems : Int, n_in_degree : Int]

\* A pair is in one list at most, and the lists of the degree are counted.
SPairSetOK(s) ==
  /\ s \in SPairSet
  /\ s.heap \cap InDegree(s) = {}
  /\ s.spair_list \cap (s.spair_deferred_list \cup s.gen_list \cup s.gen_deferred_list) = {}
  /\ s.spair_deferred_list \cap (s.gen_list \cup s.gen_deferred_list) = {}
  /\ s.gen_list \cap s.gen_deferred_list = {}
  /\ s.n_in_degree = Cardinality(InDegree(s))

\* What is dealt with is in no list, and what is in no list is dealt with.
PairsInv ==
  /\ TypeOK /\ SPairSetOK(S)
  /\ (S.heap \cup InDegree(S)) \cap done = {}
  /\ S.heap \cup InDegree(S) \cup done = Made
  /\ this_degree = 0 => InDegree(S) = {}

\* The elements that came in this degree are of this degree, the degrees before it are
\* complete, and a degree is begun only when every element is paired.
StatusInv ==
  /\ StatusTruthful
  /\ \/ complete_thru_this_degree = this_degree - 1
     \/ /\ this_degree = 0 /\ complete_thru_this_degree = 0
        /\ state \in {"NEWDEGREE", "HILB"} /\ gb = <<>> /\ InDegree(S) = {}
  /\ \A k \in first_in_degree + 1 .. n_gb : gb[k].deg = this_degree
  /\ state \in {"HILB", "NEWDEGREE", "DONE"} => np_i = n_gb
  /\ status = "DONE" => pc = "idle"
  /\ state = "DONE" => status = "DONE"
  /\ calls \in Nat /\ (calls = 0 => pc = "idle" /\ state = "NEWDEGREE" /\ gb = <<>>)
  /\ stop_.degree_limit \in Degrees \cup {NoLimit}

\* Over a field the generators keep their type; each that is dealt with was counted, or
\* flushed.
GensInv ==
  /\ MinGensKnown
  /\ \A p \in Made : spair[p].type = "gen" <=> p <= NGens
  /\ n_gens_left \in Int /\ n_gens_left >= Cardinality((1 .. NGens) \ done)

\* Without gaps the number of elements that are expected is that of the new pairs of the
\* degree, or the Hilbert function was not asked for this degree, and then it is never 0 again.
HilbertInv ==
  /\ NothingNewFlushed
  /\ gaps = 0 /\ hilb_n_in_degree \in Int
  /\ IF use_hilb THEN hilb_n_in_degree <= 0 \/ hilb_n_in_degree = HilbertCount(S)
                 ELSE hilb_n_in_degree = 0
=============================================================================
