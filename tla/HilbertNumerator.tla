--------------------------- MODULE HilbertNumerator ---------------------------
(***************************************************************************)
(* The numerator of the Hilbert series of a monomial submodule, computed   *)
(* by divide and conquer: hilb_comp of src/M2/Macaulay2/e/hilb.cpp.  The   *)
(* class keeps its own stack of levels, so that it can look for an         *)
(* interrupt after every step().                                           *)
(*                                                                         *)
(* A monomial ideal is the set of its minimal generators; a polynomial of  *)
(* the degree ring is the set of its terms, <<degree, coefficient>>.       *)
(***************************************************************************)
EXTENDS Monomials

CONSTANTS
  Inputs,       \* the lead monomials of the matrices: sequences of sets, one for each component
  RowDegrees,   \* the degrees of the rows, at least as many as an input has
  MaxWeight     \* bound on the degrees of all polynomials

Degrees == 0 .. MaxWeight

\* The least common multiple of a finite set of monomials.
LcmOf(T) == [v \in Vars |-> CHOOSE e \in {0} \cup {m[v] : m \in T} : \A m \in T : m[v] <= e]

\* No numerator has a term of greater degree than the lcm of the generators, moved by its row.
ASSUME HilbertAssumption ==
  /\ MaxWeight \in Nat
  /\ RowDegrees \in Seq(Nat)
  /\ \A input \in Inputs :
       /\ input \in Seq(SUBSET [Vars -> Nat]) /\ Len(input) <= Len(RowDegrees)
       /\ \A k \in DOMAIN input :
            IsFiniteSet(input[k]) /\ Weight(LcmOf(input[k])) + RowDegrees[k] <= MaxWeight

VARIABLES
  input,             \* the matrix
  this_comp,         \* its current component
  levels,            \* the stack of hilb_steps, current last
  result_poincare,   \* the sum over the components that are done
  status             \* computing, done or interrupted

vars == <<input, this_comp, levels, result_poincare, status>>

-----------------------------------------------------------------------------
(* Polynomials in one variable.                                             *)

\* op over f(x) for the elements x of a finite set.
Over(S, op(_, _), base, f(_)) ==
  LET fold[T \in SUBSET S] ==
        IF T = {} THEN base ELSE LET x == CHOOSE x \in T : TRUE IN op(f(x), fold[T \ {x}])
  IN  fold[S]

Coeff(p, d)      == IF \E t \in p : t[1] = d THEN (CHOOSE t \in p : t[1] = d)[2] ELSE 0
WithCoeffs(c(_)) == {<<d, c(d)>> : d \in {e \in Degrees : c(e) # 0}}
IsPolynomial(p)  == /\ p \subseteq Degrees \X (Int \ {0})
                    /\ \A s, t \in p : s[1] = t[1] => s = t

Zero       == {}
Term(c, d) == {<<d, c>>}
Const(c)   == Term(c, 0)

Plus(p, q)  == LET c(d) == Coeff(p, d) + Coeff(q, d) IN WithCoeffs(c)
Minus(p, q) == LET c(d) == Coeff(p, d) - Coeff(q, d) IN WithCoeffs(c)
Times(p, q) ==
  LET c(d) == LET add(x, y) == x + y
                  part(t) == t[2] * Coeff(q, d - t[1])
              IN  Over(p, add, 0, part)
  IN  WithCoeffs(c)

-----------------------------------------------------------------------------
(* partition_table: the variables that occur together in a generator.       *)

\* varpower monomials begin with their greatest variable.
Support(m)  == {v \in Vars : m[v] > 0}
TopVar(I)   == LET vs == UNION {Support(m) : m \in I}
               IN  IF vs = {} THEN 1 ELSE CHOOSE v \in vs : \A w \in vs : w <= v

Representative(dad, x) ==
  LET up[k \in 0 .. NVars] ==
        IF k = 0 THEN x ELSE LET v == up[k - 1] IN IF dad[v] > 0 THEN dad[v] ELSE v
  IN  up[NVars]

\* The variables on the way from x to its representative.
Chain(dad, x) ==
  LET up[k \in 0 .. NVars] ==
        IF k = 0 THEN {x}
        ELSE LET vs == up[k - 1] IN vs \cup {dad[v] : v \in {w \in vs : dad[w] > 0}}
  IN  up[NVars]

\* merge_in(x, y): the smaller set goes under the root of the other one, and the chains
\* of x and y are made short.  A root's dad is minus the size of its set; var1 is the root
\* that is returned.
MergeVars(pt, x, y) ==
  LET dad == pt.dad
      i == Representative(dad, x)
      j == Representative(dad, y)
      top == IF dad[i] > dad[j] THEN j ELSE i
  IN  IF i = j THEN [pt EXCEPT !.var1 = i]
      ELSE [pt EXCEPT !.n_sets = @ - 1, !.var1 = top,
                      !.dad = [v \in DOMAIN dad |->
                                IF v = top THEN dad[i] + dad[j]
                                ELSE IF v \in Chain(dad, x) \cup Chain(dad, y) THEN top
                                ELSE dad[v]]]

\* merge_in(m): the variables of m, the greatest first.
MergeMonomial(pt, m) ==
  LET greater(v, w) == v > w
      vs == InOrder(Support(m), greater)
      merged[k \in 1 .. Len(vs)] ==
        IF k = 1 THEN [pt EXCEPT !.var1 = vs[1]]
        ELSE LET before == merged[k - 1] IN MergeVars(before, before.var1, vs[k])
  IN  [merged[Len(vs)] EXCEPT !.occurs = @ \cup Support(m)]

\* The table of an ideal: its monomials one after the other, until one set is left.
TableOf(I) ==
  LET n  == IF I = {} THEN 0 ELSE TopVar(I)
      ms == InOrder(I, LexLess)
      table[k \in 0 .. Len(ms)] ==
        IF k = 0 THEN [dad |-> [v \in 1 .. n |-> -1], occurs |-> {}, n_sets |-> n, var1 |-> 1]
        ELSE LET pt == table[k - 1] IN IF pt.n_sets > 1 THEN MergeMonomial(pt, ms[k]) ELSE pt
  IN  table[Len(ms)]

\* partition: the ideals into which I falls, those of one set of variables each, in the
\* order of the roots.
Partition(I) ==
  LET done   == TableOf(I)
      less(v, w) == v < w
      roots  == InOrder({v \in done.occurs : done.dad[v] < 0}, less)
      part(k) == {m \in I : Representative(done.dad, TopVar({m})) = roots[k]}
  IN  IF done.n_sets = 1 \/ Len(roots) = 1 THEN <<I>> ELSE [k \in 1 .. Len(roots) |-> part(k)]

-----------------------------------------------------------------------------
(* The pivot.                                                               *)

PurePowers(I) == {m \in I : Cardinality(Support(m)) = 1}
Mixed(I)      == {m \in I : Cardinality(Support(m)) > 1}

\* popular_var steps past the first variable of a monomial before it looks.  Of a pure power
\* it then reads what stands behind its end, where the cleared memory of intarray holds the
\* first variable: so pure powers of any number count as one,
NPure(I) == IF PurePowers(I) = {} THEN 0 ELSE 1

\* and the greatest variable of the others is not counted.
Counted(m) == Support(m) \ {TopVar({m})}

\* The variable counted most often; the first of them.
PopularVar(I) ==
  LET hits(v) == Cardinality({m \in Mixed(I) : v \in Counted(m)})
  IN  CHOOSE v \in Vars : \A w \in Vars : hits(w) < hits(v) \/ (hits(w) = hits(v) /\ v <= w)

\* Mutant: the power is not looked for among those that were counted.
PivotZero(I) ==
  LET v == PopularVar(I)
      exps == {m[v] : m \in Mixed(I)}
  IN  Power(v, CHOOSE e \in exps : \A f \in exps : e <= f)

\* find_pivot: when it returns 0, and else the least power that was counted.
NoPivot(I) == NPure(I) >= Cardinality(I) - 1

Pivot(I) ==
  LET v == PopularVar(I)
      exps == {m[v] : m \in {n \in Mixed(I) : v \in Counted(n)}}
  IN  Power(v, CHOOSE e \in exps : \A f \in exps : e <= f)

\* iquotient_and_sum.  What m divides goes into the quotient as it is; the others are
\* inserted after it, those of least degree first, if nothing there divides them.
QuotientBy(I, m) ==
  LET exact  == {Quotient(g, m) : g \in {h \in I : Divides(m, h)}}
      others == {Quotient(g, m) : g \in {h \in I : ~Divides(m, h)}}
  IN  exact \cup {b \in others : \A c \in exact \cup others : Divides(c, b) => c = b}

SumWith(I, m) == {m} \cup {g \in I : ~Divides(m, g)}

-----------------------------------------------------------------------------
(* The ideals whose numerator is known at once: do_ideal.                   *)

OneMinus(d) == Minus(Const(1), Term(1, d))

Few(I) == Cardinality(I) <= 2

\* Mutant: the term of the lcm is forgotten.
FewNumeratorNoLcm(I) ==
  LET first == CHOOSE m \in I : TRUE
      rest == I \ {first}
  IN  IF rest = {} THEN OneMinus(Weight(first))
      ELSE Minus(OneMinus(Weight(first)), Term(1, Weight(CHOOSE m \in rest : TRUE)))

\* One or two generators.
FewNumerator(I) ==
  LET first == CHOOSE m \in I : TRUE
      rest == I \ {first}
      second == CHOOSE m \in rest : TRUE
  IN  IF rest = {} THEN OneMinus(Weight(first))
      ELSE Plus(Minus(OneMinus(Weight(first)), Term(1, Weight(second))),
                Term(1, Weight(Lcm(first, second))))

-----------------------------------------------------------------------------
(* The steps.  A level's ideals are taken from the last one down: first the *)
(* parts of a quotient, then, from first_sum on, those of a sum.            *)

n_components == Len(input)
current      == levels[Len(levels)]

\* The lead monomials of the component, without those that others divide; make_monideal.
MakeMonideal(k) == Minimal(input[k])

\* next_monideal.
TopLevel(k) ==
  LET ms == Partition(MakeMonideal(k))
  IN  [monids |-> ms, i |-> Len(ms), first_sum |-> Len(ms) + 1, h0 |-> Zero, h1 |-> Const(1)]

\* The head of step(): the quotient is done, the sum begins.
Swapped(lv) == IF lv.i = lv.first_sum THEN [lv EXCEPT !.h0 = lv.h1, !.h1 = Const(1)] ELSE lv

\* recurse.
LevelFor(I) ==
  LET m == Pivot(I)
      sum == Partition(SumWith(I, m))
      quot == Partition(QuotientBy(I, m))
  IN  [monids |-> sum \o quot, i |-> Len(sum) + Len(quot), first_sum |-> Len(sum),
       h0 |-> Zero, h1 |-> Term(1, Weight(m))]

Init ==
  /\ input \in Inputs
  /\ this_comp = 1
  /\ result_poincare = Zero
  /\ IF n_components = 0 THEN levels = << >> /\ status = "done"
                         ELSE levels = <<TopLevel(1)>> /\ status = "computing"

Computing == status = "computing"

\* do_ideal, and the numerator F of the ideal is known.
Multiply(F) ==
  /\ levels' = [levels EXCEPT ![Len(levels)] =
                  [Swapped(current) EXCEPT !.h1 = Times(@, F), !.i = @ - 1]]
  /\ UNCHANGED <<input, this_comp, result_poincare, status>>

DoFew ==
  /\ Computing /\ current.i >= 1
  /\ Few(current.monids[current.i])
  /\ Multiply(FewNumerator(current.monids[current.i]))

\* Three generators or more.  That find_pivot returns 0 does not happen: IdealsFit.
Recurse ==
  /\ Computing /\ current.i >= 1
  /\ LET I == current.monids[current.i]
     IN  /\ ~Few(I) /\ ~NoPivot(I)
         /\ levels' = Append([levels EXCEPT ![Len(levels)] = Swapped(current)], LevelFor(I))
  /\ UNCHANGED <<input, this_comp, result_poincare, status>>

\* All ideals of a level are done: its value goes to the level above.
OneUp ==
  /\ Computing /\ current.i = 0 /\ Len(levels) > 1
  /\ LET f == Plus(Swapped(current).h0, Swapped(current).h1)
         n == Len(levels) - 1
     IN  levels' = [SubSeq(levels, 1, n) EXCEPT ![n].h1 = Times(@, f), ![n].i = @ - 1]
  /\ UNCHANGED <<input, this_comp, result_poincare, status>>

\* The same at the top: the component is done.
NextComponent ==
  /\ Computing /\ current.i = 0 /\ Len(levels) = 1
  /\ LET f == Times(Plus(current.h0, current.h1), Term(1, RowDegrees[this_comp]))
     IN  result_poincare' = Plus(result_poincare, f)
  /\ this_comp' = this_comp + 1
  /\ IF this_comp = n_components
       THEN status' = "done" /\ UNCHANGED levels
       ELSE status' = status /\ levels' = <<TopLevel(this_comp + 1)>>
  /\ UNCHANGED input

\* calc sees an interrupt after a step; hilbertNumerator gives the computation up.
Interrupt ==
  /\ Computing
  /\ status' = "interrupted"
  /\ UNCHANGED <<input, this_comp, levels, result_poincare>>

Step == DoFew \/ Recurse \/ OneUp \/ NextComponent
Next == Step \/ Interrupt

Spec == Init /\ [][Next]_vars

-----------------------------------------------------------------------------
(* What must hold.                                                          *)

TypeOK ==
  /\ input \in Inputs /\ this_comp \in 1 .. n_components + 1
  /\ IsPolynomial(result_poincare)
  /\ status \in {"computing", "done", "interrupted"}
  /\ \A k \in DOMAIN levels :
       /\ levels[k].i \in 0 .. Len(levels[k].monids)
       /\ IsPolynomial(levels[k].h0) /\ IsPolynomial(levels[k].h1)
       /\ \A n \in DOMAIN levels[k].monids : levels[k].monids[n] \subseteq [Vars -> Nat]

\* The numerator of an ideal by inclusion and exclusion over its generators.
ByInclusionExclusion(I) ==
  LET lcms    == {<<T, Weight(LcmOf(T))>> : T \in SUBSET I}
      number(d, parity) == Cardinality({x \in lcms : x[2] = d /\ Cardinality(x[1]) % 2 = parity})
      c(d) == number(d, 0) - number(d, 1)
  IN  WithCoeffs(c)

ReferenceNumerator ==
  LET row(k) == Times(ByInclusionExclusion(input[k]), Term(1, RowDegrees[k]))
  IN  Over(1 .. n_components, Plus, Zero, row)

\* What a level will hand up once its remaining ideals are done; inside is the numerator
\* of the one it is at.
LevelValue(lv, inside) ==
  LET N(n) == ByInclusionExclusion(lv.monids[n])
      quot == lv.i > lv.first_sum
      here == (IF quot THEN lv.first_sum + 1 ELSE 1) .. lv.i - 1
      part == Times(Times(lv.h1, inside), Over(here, Times, Const(1), N))
  IN  Plus(lv.h0, IF quot THEN Plus(part, Over(1 .. lv.first_sum, Times, Const(1), N)) ELSE part)

StackValue ==
  LET value[k \in DOMAIN levels] ==
        IF k < Len(levels) THEN LevelValue(levels[k], value[k + 1])
        ELSE LET lv == Swapped(current)
             IN  IF lv.i = 0 THEN Plus(lv.h0, lv.h1)
                 ELSE LevelValue(lv, ByInclusionExclusion(lv.monids[lv.i]))
  IN  value[1]

\* The sum of what is done, of what the stack stands for and of the components to come is
\* the numerator, before and after every step(): splitting off a pivot, falling apart into
\* independent ideals and going up a level lose nothing.  At the end it is the result.
NumeratorKept ==
  LET row(k, p) == Times(p, Term(1, RowDegrees[k]))
      later(k) == row(k, ByInclusionExclusion(input[k]))
  IN  CASE status = "done"        -> result_poincare = ReferenceNumerator
        [] status = "interrupted" -> TRUE
        [] OTHER -> Plus(Plus(result_poincare, row(this_comp, StackValue)),
                         Over(this_comp + 1 .. n_components, Plus, Zero, later))
                      = ReferenceNumerator

Connected(I) ==
  \A J \in (SUBSET I) \ {{}, I} :
    \E m \in J, n \in I \ J : Support(m) \cap Support(n) # {}

\* Every ideal on the stack is one that do_ideal can handle: not zero, its generators
\* minimal (insert_minimal does not look) and held together by their variables.  So
\* find_pivot finds a pivot for three generators or more, which is not one and not in the
\* ideal.
IdealsFit ==
  \A k \in DOMAIN levels : \A n \in 1 .. levels[k].i :
    LET I == levels[k].monids[n]
    IN  /\ I # {} /\ I = Minimal(I) /\ Connected(I)
        /\ ~Few(I) => /\ ~NoPivot(I) /\ Support(Pivot(I)) # {}
                       /\ \A m \in I : ~Divides(m, Pivot(I))

\* The ideals of a level are smaller than the one above it was made from: it has fewer
\* generators that are no pure powers, or as many and of lower degrees.  So recurse cannot
\* go on for ever, and calc, which calls step() until it is done, returns.
PartsSmaller ==
  LET degree(I) == Cardinality(UNION {{m} \X (1 .. Weight(m)) : m \in I})
      mixed(I)  == Cardinality(Mixed(I))
  IN  \A k \in 2 .. Len(levels) : \A n \in 1 .. levels[k].i :
        LET I == levels[k].monids[n]
            J == levels[k - 1].monids[levels[k - 1].i]
        IN  mixed(I) < mixed(J) \/ (mixed(I) = mixed(J) /\ degree(I) < degree(J))

\* do_ideal and recurse on every ideal of the stack: their assertions hold, and they end.
RecursionSound == TypeOK /\ IdealsFit /\ PartsSmaller
=============================================================================
