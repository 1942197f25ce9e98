---------------------------- MODULE CriticalPairs ----------------------------
(***************************************************************************)
(* The critical pairs of the default Groebner basis algorithm, class gbA   *)
(* of src/M2/Macaulay2/e/gb-default.cpp, over a field: which S-pairs a new *)
(* basis element gives rise to, which of these are left out, and which of  *)
(* the waiting ones it makes superfluous.  GBComputation has the control   *)
(* of the algorithm and leaves open how many pairs there are; here are the *)
(* pairs themselves.                                                       *)
(*                                                                         *)
(* A polynomial is abstracted to its lead term and its gap, the difference *)
(* of its degree and the weight of its lead term.  Reductions happen: what *)
(* survives them is any lead term that the table of lead terms allows.     *)
(***************************************************************************)
EXTENDS MonomialTable

CONSTANTS
  Inputs,        \* the computations to look at, records of
                 \*   ring:       [lead, gap] of the elements of a quotient ring, a sequence
                 \*   skew:       the skew-commuting variables
                 \*   components: the components of the free module
                 \*   is_ideal:   _is_ideal
                 \*   max_exp:    bound on the exponents of lead terms, for each variable
                 \*   elements:   bound on the basis elements
  MaxReducers,   \* bound on the elements that are no members of the minimal basis
  MaxGap,        \* bound on the gaps
  MaxDegree      \* bound on this_degree

LeadsOf(input) ==
  {e \in [Vars -> UNION {0 .. input.max_exp[v] : v \in Vars}] :
     \A v \in Vars : e[v] <= input.max_exp[v]}

ASSUME PairsAssumption ==
  /\ MaxReducers \in Nat /\ MaxGap \in Nat /\ MaxDegree \in Nat
  /\ \A c \in Inputs :
       /\ c.max_exp \in [Vars -> Nat] /\ c.skew \subseteq Vars
       /\ \A v \in c.skew : c.max_exp[v] <= 1
       /\ c.components \subseteq Nat \ {0} /\ c.is_ideal \in BOOLEAN /\ c.elements \in Nat
       /\ c.is_ideal => Cardinality(c.components) = 1
       /\ c.ring \in Seq([lead : LeadsOf(c), gap : Nat])

VARIABLES
  input,        \* the computation, one of Inputs
  gb,           \* the ring's elements, then the basis elements
  lookup,       \* their table, without the ring's elements
  heap,         \* S->heap
  taken,        \* pairs that were taken from the heap to be reduced
  this_degree,
  np_i          \* the first element whose pairs are not made yet

vars == <<input, gb, lookup, heap, taken, this_degree, np_i>>

RingElements == input.ring
SkewVars     == input.skew
Components   == input.components
IsIdeal      == input.is_ideal
Leads        == LeadsOf(input)

first_gb_element == Len(RingElements) + 1
Indices          == DOMAIN gb
Elements         == first_gb_element .. Len(gb)

\* Pairs are of these types, in this order.
Types == [spair |-> 0, gcd_ZZ |-> 1, ring |-> 2, skew |-> 3]

-----------------------------------------------------------------------------
(* S-pairs.                                                                 *)

\* exponents_lcm starts from the degree of a and adds what the lcm has more.
LcmDegree(a, b) == a.deg + Weight(Lcm(a.lead, b)) - Weight(a.lead)

\* Mutant: the degree is that of the lcm, whatever the elements' gaps.
SpairMakeNoGap(type, i, j) ==
  LET l == Lcm(gb[i].lead, gb[j].lead) IN [type |-> type, i |-> i, j |-> j, lcm |-> l, deg |-> Weight(l)]

\* spair_make, spair_make_ring.
SpairMake(type, i, j) ==
  [type |-> type, i |-> i, j |-> j, lcm |-> Lcm(gb[i].lead, gb[j].lead),
   deg |-> LcmDegree(gb[i], gb[j].lead)
             + IF gb[j].gap > gb[i].gap THEN gb[j].gap - gb[i].gap ELSE 0]

\* spair_make_skew: the pair of an element with the square of a variable.
SpairMakeSkew(i, v) ==
  [type |-> "skew", i |-> i, j |-> v, lcm |-> Lcm(gb[i].lead, Power(v, 2)),
   deg |-> LcmDegree(gb[i], Power(v, 2))]

\* The least degree of pairs in the heap; spair_set_determine_next_degree.
NextDegrees == {p.deg : p \in heap}

-----------------------------------------------------------------------------
(* Old pairs that the new element m makes superfluous.                      *)

\* Mutant: it is not asked whether the pairs with m have smaller lcms.
PairNotNeededAnyLcm(p, m) ==
  p.type \in {"spair", "ring"} /\ gb[p.i].comp = m.comp /\ Divides(m.lead, p.lcm)

\* pair_not_needed.
PairNotNeeded(p, m) ==
  /\ p.type \in {"spair", "ring"}
  /\ gb[p.i].comp = m.comp
  /\ Divides(m.lead, p.lcm)
  /\ \E v \in Vars : m.lead[v] # p.lcm[v] /\ gb[p.i].lead[v] # p.lcm[v]
  /\ \E v \in Vars : m.lead[v] # p.lcm[v] /\ gb[p.j].lead[v] # p.lcm[v]

-----------------------------------------------------------------------------
(* The pairs of element id.                                                 *)

IsGcdOnePair(p) == p.type = "spair" /\ Coprime(gb[p.i].lead, gb[p.j].lead)

\* update_pairs, steps 2a to 2c.
NewSet(id) ==
  LET r == gb[id]
  IN  {SpairMakeSkew(id, v) : v \in {w \in SkewVars : r.lead[w] > 0}}
      \cup {SpairMake("ring", id, i) : i \in 1 .. first_gb_element - 1}
      \cup {SpairMake("spair", id, i) :
              i \in {k \in first_gb_element .. id - 1 : gb[k].mingb /\ gb[k].comp = r.comp}}

\* spair_sorter compares degree, type and lcm.
SortKey(p) == <<p.deg, Types[p.type], p.lcm>>
KeyLess(a, b) ==
  \/ a[1] < b[1]
  \/ a[1] = b[1] /\ a[2] < b[2]
  \/ a[1] = b[1] /\ a[2] = b[2] /\ LexLess(a[3], b[3])

SortKeys(new) == {SortKey(p) : p \in new}

\* A range of pairs with one key, and p the one of them that choose_pair takes.
MinimalizeKey(s, lcm, p, again) ==
  IF again THEN s
  ELSE IF FindOne(s.montab, lcm, 1) # NoMatch
  THEN [s EXCEPT !.montab = Searched(@, lcm, 1)]
  ELSE IF IsIdeal /\ IsGcdOnePair(p) THEN s
  ELSE [kept |-> s.kept \cup {p}, montab |-> InsertTerm(s.montab, lcm, 1, 0)]

\* minimalize_pairs_non_ZZ.  The sort leaves pairs with the same key in any order, and
\* choose_pair takes the first pair of a range with one lcm: choice is that pair.
MinimalizePairs(new, choice) ==
  LET keys == InOrder(SortKeys(new), KeyLess)
      again(n) == n > 1 /\ keys[n - 1][3] = keys[n][3]
      scan[n \in 0 .. Len(keys)] ==
        IF n = 0 THEN [kept |-> {}, montab |-> EmptyTable]
        ELSE MinimalizeKey(scan[n - 1], keys[n][3], choice[keys[n]], again(n))
  IN  scan[Len(keys)].kept

Choices(new) ==
  {c \in [SortKeys(new) -> new] : \A k \in SortKeys(new) : SortKey(c[k]) = k}

-----------------------------------------------------------------------------
(* The steps.                                                               *)

Init ==
  /\ input \in Inputs
  /\ gb = [i \in 1 .. Len(RingElements) |->
             [lead |-> RingElements[i].lead, gap |-> RingElements[i].gap, comp |-> 0,
              deg |-> Weight(RingElements[i].lead) + RingElements[i].gap, mingb |-> FALSE]]
  /\ lookup = EmptyTable
  /\ heap = {} /\ taken = {}
  /\ this_degree = -1
  /\ np_i = first_gb_element

\* spair_set_prepare_next_degree.  A generator, which is no pair here, may come in any
\* degree that is not beyond the pairs'.
NextDegree ==
  /\ np_i > Len(gb) /\ Cardinality(Elements) < input.elements
  /\ \E d \in this_degree + 1 .. MaxDegree :
       /\ \A e \in NextDegrees : d <= e
       /\ this_degree' = d
       /\ taken' = taken \cup {p \in heap : p.deg = d}
       /\ heap' = {p \in heap : p.deg # d}
  /\ UNCHANGED <<input, gb, lookup, np_i>>

\* The elements find_good_divisor finds for a lead term: the ring's, then the table's.
Divisors(e, comp) ==
  {i \in 1 .. first_gb_element - 1 : Divides(gb[i].lead, e)}
  \cup {lookup.terms[n].val : n \in FindDivisors(lookup, e, comp)}

\* insert_gb: the element joins gb and its table.
InsertGB(e, comp, mingb) ==
  /\ gb' = Append(gb, [lead |-> e, comp |-> comp, deg |-> this_degree,
                       gap |-> this_degree - Weight(e), mingb |-> mingb])
  /\ lookup' = InsertTerm(lookup, e, comp, Len(gb) + 1)
  /\ UNCHANGED <<input, heap, taken, this_degree, np_i>>

\* Elements come while the pairs of the degree are reduced, before the first update_pairs.
Reducing ==
  /\ \A i \in first_gb_element .. np_i - 1 : gb[i].deg < this_degree
  /\ Cardinality(Elements) < input.elements

\* process_spair: what is left of a pair or a generator is reduced, and not zero.
NewElement(e, comp) ==
  /\ Reducing /\ this_degree - Weight(e) \in 0 .. MaxGap
  /\ Divisors(e, comp) = {}
  /\ InsertGB(e, comp, TRUE)

\* reduce_kk: every divisor has a greater gap, the polynomial itself becomes a reducer
\* and its reduction goes on in a later degree.
NewReducer(e, comp) ==
  /\ Reducing /\ this_degree - Weight(e) \in 0 .. MaxGap
  /\ Divisors(e, comp) # {}
  /\ \A i \in Divisors(e, comp) : gb[i].gap > this_degree - Weight(e)
  /\ Cardinality({i \in Elements : ~gb[i].mingb}) < MaxReducers
  /\ InsertGB(e, comp, FALSE)

\* STATE_NEWPAIRS: update_pairs for one element.
UpdatePairs ==
  /\ np_i <= Len(gb)
  /\ np_i' = np_i + 1
  /\ IF gb[np_i].mingb
       THEN \E choice \in Choices(NewSet(np_i)) :
              heap' = {p \in heap : ~PairNotNeeded(p, gb[np_i])}
                      \cup MinimalizePairs(NewSet(np_i), choice)
       ELSE heap' = heap
  /\ UNCHANGED <<input, gb, lookup, taken, this_degree>>

Next ==
  \/ NextDegree
  \/ \E e \in Leads, comp \in Components : NewElement(e, comp) \/ NewReducer(e, comp)
  \/ UpdatePairs

Spec == Init /\ [][Next]_vars

-----------------------------------------------------------------------------
(* What must hold.                                                          *)

PairType == [type : DOMAIN Types, i : Indices, j : Indices \cup Vars, lcm : [Vars -> Nat], deg : Nat]

TypeOK ==
  /\ \A i \in Indices : gb[i] \in [lead : Leads, gap : Nat, comp : {0} \cup Components,
                                   deg : Nat, mingb : BOOLEAN]
  /\ heap \subseteq PairType /\ taken \subseteq PairType /\ heap \cap taken = {}
  /\ this_degree \in -1 .. MaxDegree
  /\ np_i \in first_gb_element .. Len(gb) + 1
  /\ \A k \in DOMAIN lookup.terms : lookup.terms[k].val \in Elements

\* The elements whose pairs are made, the ring's elements and the squares of the skew
\* variables: what the syzygies are about in one component.
Nodes(comp) ==
  {[kind |-> "ring", at |-> i, lead |-> gb[i].lead] : i \in 1 .. first_gb_element - 1}
  \cup {[kind |-> "skew", at |-> v, lead |-> Power(v, 2)] : v \in SkewVars}
  \cup {[kind |-> "gb", at |-> i, lead |-> gb[i].lead] :
           i \in {k \in first_gb_element .. np_i - 1 : gb[k].mingb /\ gb[k].comp = comp}}

PartnerKind == [spair |-> "gb", ring |-> "ring", skew |-> "skew"]

\* The S-polynomial of a and b reduces to zero, or will when the pairs are done: the
\* relations of the ring are a Groebner basis, a pair was kept, or the product criterion.
Settled(a, b) ==
  \/ a.kind # "gb" /\ b.kind # "gb"
  \/ \E p \in heap \cup taken :
       \E ends \in {<<a, b>>, <<b, a>>} :
         /\ ends[1].kind = "gb" /\ p.i = ends[1].at
         /\ ends[2].kind = PartnerKind[p.type] /\ p.j = ends[2].at
  \/ {a.kind, b.kind} = {"gb"} /\ IsIdeal /\ Coprime(a.lead, b.lead)
  \/ {a.kind, b.kind} = {"gb", "skew"} /\ Coprime(a.lead, b.lead)

\* A chain of settled pairs whose lcms divide t leads from a to b: all nodes that can be
\* reached from a include b.
Joined(a, b, t, nodes) ==
  LET below == {n \in nodes : Divides(n.lead, t)}
      closed(side) == \A m \in side, n \in below \ side : ~Settled(m, n)
  IN  \A side \in SUBSET below : a \in side /\ closed(side) => b \in side

\* The chain criterion (pair_not_needed and minimalize_pairs together, over the life of
\* the computation): for any two elements there is a chain of pairs, kept or known to
\* reduce to zero, whose lcms divide that of the two.  So no pair is left out for
\* another one that is itself left out for it.
ChainCriterion ==
  \A comp \in Components :
    \A a, b \in Nodes(comp) : Joined(a, b, Lcm(a.lead, b.lead), Nodes(comp))

\* A pair is made in a degree that is not over (determine_next_degree looks at the heap
\* alone): it comes after this degree, and not before its elements.
PairsAhead ==
  \A p \in heap :
    /\ p.deg > this_degree
    /\ p.deg >= gb[p.i].deg
    /\ p.type # "skew" => p.deg >= gb[p.j].deg

\* The table of lead terms finds all the divisors there are, and nothing else
\* (find_divisors and its masks), for all monomials.
LookupTruthful ==
  \A e \in Leads, comp \in Components :
    Divisors(e, comp) = {i \in Indices : gb[i].comp \in {0, comp} /\ Divides(gb[i].lead, e)}

\* No pair of an element is kept beside another whose lcm divides its own, unless that
\* other one comes later, in a greater degree or in the same one as a pair of a later type
\* (with an element of the ring that has a gap): minimalize_pairs_non_ZZ leaves no work
\* to do twice.
NothingTwice ==
  \A p, q \in heap \cup taken :
    p # q /\ p.i = q.i /\ Divides(p.lcm, q.lcm) =>
      /\ p.lcm # q.lcm
      /\ p.deg > q.deg \/ (p.deg = q.deg /\ Types[p.type] > Types[q.type])

\* minimalize (montable.cpp) of all the lead terms: one of each of the minimal ones, or
\* all of them when duplicates are kept.
MinimalizeMinimal ==
  LET es == [i \in Indices |-> gb[i].lead]
      comps == [i \in Indices |-> gb[i].comp]
      smaller(i, j) == comps[i] = comps[j] /\ es[i] # es[j] /\ Divides(es[i], es[j])
      minimal == {j \in Indices : \A i \in Indices : ~smaller(i, j)}
      one == Minimalize(es, comps, FALSE)
  IN  /\ Minimalize(es, comps, TRUE) = minimal
      /\ one \subseteq minimal
      /\ \A j \in minimal : Cardinality({i \in one : es[i] = es[j] /\ comps[i] = comps[j]}) = 1

\* The pairs that wait, over the life of the computation: of their types, ahead of the degree
\* that is at work, and no work twice.
HeapSound == TypeOK /\ PairsAhead /\ NothingTwice

\* The table of lead terms and the minimal monomials that are found by a table of that kind.
TablesTruthful == LookupTruthful /\ MinimalizeMinimal

-----------------------------------------------------------------------------
(* The inductive invariant of the proofs (CriticalPairsProofs).             *)

StateInv ==
  /\ input \in Inputs
  /\ gb \in Seq([lead : Leads, gap : Nat, comp : {0} \cup Components, deg : Nat, mingb : BOOLEAN])
  /\ Len(RingElements) <= Len(gb)
  /\ this_degree \in -1 .. MaxDegree
  /\ np_i \in first_gb_element .. Len(gb) + 1

\* Elements come in the order of their degrees, none is a multiple of an earlier one, and
\* those whose pairs are not made are of the degree that is at work.
ElementInv ==
  /\ \A i \in Indices :
       /\ gb[i].deg = Weight(gb[i].lead) + gb[i].gap
       /\ gb[i].comp = 0 <=> i < first_gb_element
       /\ i >= first_gb_element => gb[i].deg <= this_degree
       /\ i >= np_i => gb[i].deg = this_degree
  /\ \A i, j \in Indices :
       i < j /\ gb[j].mingb /\ gb[i].comp \in {0, gb[j].comp} => ~Divides(gb[i].lead, gb[j].lead)

LookupInv ==
  lookup = [terms |-> [n \in 1 .. Len(gb) - Len(RingElements) |->
                         LET i == Len(RingElements) + n
                         IN  [lead |-> gb[i].lead, comp |-> gb[i].comp, val |-> i]],
            last  |-> NoMatch]

\* Pairs are those of elements whose pairs are made; they wait if their degree is not begun.
PairInv ==
  /\ \A p \in heap \cup taken :
       p.i \in first_gb_element .. np_i - 1 /\ gb[p.i].mingb /\ p \in NewSet(p.i)
  /\ \A p \in heap : p.deg > this_degree
  /\ \A p \in taken : p.deg <= this_degree

IInv == StateInv /\ ElementInv /\ LookupInv /\ PairInv /\ NothingTwice /\ ChainCriterion
=============================================================================
