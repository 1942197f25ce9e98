----------------------------- MODULE MonomialTable -----------------------------
(***************************************************************************)
(* The tables in which the engine looks up which of its lead terms divide  *)
(* a given one: e/montable.cpp of src/M2/Macaulay2.  A table is the        *)
(* sequence of its terms in the order of their insertion, over all         *)
(* components, with the term that a search matched last.                   *)
(***************************************************************************)
EXTENDS Monomials

CONSTANT WordBits    \* bits of a mask: 32 in the code

ASSUME MaskAssumption == WordBits \in Nat \ {0}

-----------------------------------------------------------------------------
(* The table.                                                               *)

\* The bit of a variable: they are dealt from the last variable on, around the word.
Bit(v)  == (NVars - v) % WordBits
Mask(e) == {Bit(v) : v \in {w \in Vars : e[w] > 0}}

NoMatch    == [lead |-> One, comp |-> -1, val |-> -1]
EmptyTable == [terms |-> << >>, last |-> NoMatch]

InsertTerm(T, e, comp, id) ==
  [T EXCEPT !.terms = Append(@, [lead |-> e, comp |-> comp, val |-> id])]

\* Mutant: the masks are compared the wrong way round.
MatchesSwapped(t, e, comp) ==
  t.comp = comp /\ Mask(e) \subseteq Mask(t.lead) /\ Divides(t.lead, e)

\* The terms that a search finds: their mask does not rule them out, and they divide e.
Matches(t, e, comp) ==
  t.comp = comp /\ Mask(t.lead) \subseteq Mask(e) /\ Divides(t.lead, e)

\* find_divisors without a maximum: where the terms stand that it finds.
FindDivisors(T, e, comp) == {n \in DOMAIN T.terms : Matches(T.terms[n], e, comp)}

\* find_divisors(1, ...): the term found, or NoMatch.  The last match is tried first.
FindOne(T, e, comp) ==
  LET found == FindDivisors(T, e, comp)
  IN  IF T.last.comp = comp /\ Divides(T.last.lead, e) THEN T.last
      ELSE IF found # {} THEN T.terms[CHOOSE n \in found : \A m \in found : n <= m] ELSE NoMatch

\* The table after that search.
Searched(T, e, comp) ==
  LET t == FindOne(T, e, comp) IN IF t = NoMatch THEN T ELSE [T EXCEPT !.last = t]

-----------------------------------------------------------------------------
(* Minimalization: the positions of the minimal monomials among es, each     *)
(* with its component.                                                       *)

\* Positions with the same monomial and component may stand in any order: by number here.
Ascending(es, comps) ==
  LET less(i, j) == \/ LexLess(es[i], es[j])
                    \/ es[i] = es[j] /\ comps[i] < comps[j]
                    \/ es[i] = es[j] /\ comps[i] = comps[j] /\ i < j
  IN  InOrder(DOMAIN es, less)

\* The monomial at a position, after those before it in the order: again, if it is the same.
Minimalized(s, e, comp, i, again, keep_duplicates) ==
  IF again
  THEN [s EXCEPT !.kept = IF keep_duplicates /\ s.took THEN @ \cup {i} ELSE @]
  ELSE IF FindOne(s.table, e, comp) # NoMatch
  THEN [s EXCEPT !.took = FALSE, !.table = Searched(@, e, comp)]
  ELSE [table |-> InsertTerm(s.table, e, comp, i), kept |-> s.kept \cup {i}, took |-> TRUE]

Minimalize(es, comps, keep_duplicates) ==
  LET pos == Ascending(es, comps)
      again(n) == /\ n > 1
                  /\ es[pos[n - 1]] = es[pos[n]]
                  /\ comps[pos[n - 1]] = comps[pos[n]]
      scan[n \in 0 .. Len(pos)] ==
        IF n = 0 THEN [table |-> EmptyTable, kept |-> {}, took |-> FALSE]
        ELSE Minimalized(scan[n - 1], es[pos[n]], comps[pos[n]], pos[n], again(n), keep_duplicates)
  IN  scan[Len(pos)].kept
=============================================================================
