--------------------------- MODULE ResolutionProofs ---------------------------
(***************************************************************************)
(* Proofs about Resolution.  What steps share comes first: a step only     *)
(* goes forward (Forward), it lists pairs only where no claim was made     *)
(* (Unclaimed), and a degree set is sorted only when what comes before it  *)
(* is done (SortsRight).  Then each action is shown to keep the core of    *)
(* the invariant and to be of one of five kinds (Kind): what is left after *)
(* that, the two counts, the order and what is settled, is proved once for *)
(* each kind.                                                              *)
(***************************************************************************)
EXTENDS Resolution, FiniteSetTheorems, SequenceTheorems, WellFoundedInduction, TLAPS

Types   == {"GEN", "REMOVED", "S_PAIR", "MINIMAL", "NOT_MINIMAL", "NOT_NEEDED"}
PairRec == [level : Levels, deg : Degrees, type : Types]

\* A set of integers from lo on has a least element.
LEMMA LeastOf ==
  ASSUME NEW lo \in Int, NEW T \in SUBSET Int, T # {}, \A x \in T : x >= lo
  PROVE  \E m \in T : \A x \in T : m <= x
<1> DEFINE U == {x - lo : x \in T}
<1>1. U \subseteq Nat /\ U # {}
  <2>1. PICK x \in T : TRUE
    OBVIOUS
  <2>2. x - lo \in U
    BY <2>1
  <2>3. \A y \in T : y - lo \in Nat
    OBVIOUS
  <2>4. U \subseteq Nat
    BY <2>3
  <2>5. QED
    BY <2>2, <2>4
<1>2. PICK u \in U : \A y \in U : ~(<<y, u>> \in OpToRel(<, Nat))
  <2> DEFINE R == OpToRel(<, Nat)
  <2>1. IsWellFoundedOn(R, Nat)
    BY NatLessThanWellFounded
  <2> HIDE DEF U, R
  <2>2. \E u \in U : \A y \in U : ~(<<y, u>> \in R)
    BY <1>1, <2>1, WFMin
  <2>3. QED
    BY <2>2 DEF R
<1>3. \A y \in U : ~(y < u)
  <2>1. TAKE y \in U
  <2>2. y \in Nat /\ u \in Nat
    BY <1>1, <1>2
  <2>3. ~(y < u)
    BY <1>2, <2>2 DEF OpToRel
  <2>4. QED
    BY <2>3
<1>4. PICK m \in T : u = m - lo
  BY <1>2
<1>5. \A x \in T : m <= x
  <2>1. TAKE x \in T
  <2>2. x - lo \in U
    OBVIOUS
  <2>3. ~(x - lo < m - lo)
    BY <1>3, <1>4, <2>2
  <2>4. x \in Int /\ m \in Int
    OBVIOUS
  <2>5. QED
    BY <2>3, <2>4
<1>6. QED
  BY <1>5

-----------------------------------------------------------------------------
(* The sequence of pairs.                                                   *)

\* The parts of a pair have their types.
LEMMA PairFacts ==
  ASSUME TypeOK
  PROVE  /\ pair \in Seq(PairRec) /\ Len(pair) \in Nat /\ Pairs = 1 .. Len(pair)
         /\ \A p \in Pairs : /\ pair[p] \in PairRec /\ pair[p].level \in Levels
                             /\ pair[p].deg \in Degrees /\ pair[p].type \in Types
<1>1. pair \in Seq(PairRec)
  BY DEF TypeOK, PairRec, Types
<1>2. Len(pair) \in Nat /\ Pairs = 1 .. Len(pair)
  BY <1>1, LenProperties DEF Pairs
<1>3. \A p \in Pairs : pair[p] \in PairRec
  BY <1>1, <1>2, ElementOfSeq
<1>4. \A p \in Pairs : pair[p].level \in Levels /\ pair[p].deg \in Degrees /\ pair[p].type \in Types
  BY <1>3 DEF PairRec
<1>5. QED
  BY <1>1, <1>2, <1>3, <1>4

\* One pair changes its type.
LEMMA Retyped ==
  ASSUME NEW s \in Seq(PairRec), NEW p \in DOMAIN s, NEW type \in Types, NEW u,
         u = [s EXCEPT ![p].type = type]
  PROVE  /\ u \in Seq(PairRec) /\ DOMAIN u = DOMAIN s /\ Len(u) = Len(s)
         /\ \A q \in DOMAIN s : u[q].level = s[q].level /\ u[q].deg = s[q].deg
         /\ \A q \in DOMAIN s : u[q].type = IF q = p THEN type ELSE s[q].type
<1>1. s \in [1 .. Len(s) -> PairRec] /\ DOMAIN s = 1 .. Len(s) /\ Len(s) \in Nat
  BY LenProperties
<1>2. s[p] \in PairRec
  BY <1>1
<1>3. [s[p] EXCEPT !.type = type] \in PairRec
  BY <1>2 DEF PairRec
<1>4. u \in [1 .. Len(s) -> PairRec] /\ DOMAIN u = DOMAIN s
  BY <1>1, <1>3
<1>5. u \in Seq(PairRec) /\ Len(u) = Len(s)
  BY <1>1, <1>4, IsASeq, LenProperties
<1>6. \A q \in DOMAIN s : u[q] = IF q = p THEN [s[p] EXCEPT !.type = type] ELSE s[q]
  BY <1>4
<1>7. /\ [s[p] EXCEPT !.type = type].level = s[p].level
      /\ [s[p] EXCEPT !.type = type].deg = s[p].deg
      /\ [s[p] EXCEPT !.type = type].type = type
  BY <1>2 DEF PairRec
<1>8. QED
  BY <1>4, <1>5, <1>6, <1>7

\* Pairs are added behind the others.
LEMMA Added ==
  ASSUME NEW s \in Seq(PairRec), NEW ps \in Seq(PairRec), NEW u, u = s \o ps
  PROVE  /\ u \in Seq(PairRec) /\ Len(u) = Len(s) + Len(ps)
         /\ DOMAIN s = 1 .. Len(s) /\ DOMAIN u = 1 .. Len(s) + Len(ps)
         /\ Len(s) \in Nat /\ Len(ps) \in Nat
         /\ \A q \in DOMAIN s : u[q] = s[q]
         /\ \A q \in DOMAIN u \ DOMAIN s : q - Len(s) \in 1 .. Len(ps) /\ u[q] = ps[q - Len(s)]
<1>1. u \in Seq(PairRec) /\ Len(u) = Len(s) + Len(ps)
      /\ \A i \in 1 .. Len(s) + Len(ps) : u[i] = IF i <= Len(s) THEN s[i] ELSE ps[i - Len(s)]
  BY ConcatProperties
<1>2. /\ DOMAIN s = 1 .. Len(s) /\ DOMAIN u = 1 .. Len(s) + Len(ps)
      /\ Len(s) \in Nat /\ Len(ps) \in Nat
  BY <1>1, LenProperties
<1>3. \A q \in DOMAIN s : u[q] = s[q]
  BY <1>1, <1>2
<1>4. \A q \in DOMAIN u \ DOMAIN s : q - Len(s) \in 1 .. Len(ps) /\ u[q] = ps[q - Len(s)]
  BY <1>1, <1>2
<1>5. QED
  BY <1>1, <1>2, <1>3, <1>4

\* The types of the parts, now and after a step.
PairsTyped == \A p \in Pairs : /\ pair[p].level \in Levels /\ pair[p].deg \in Degrees
                               /\ pair[p].type \in Types

\* Every pair has a level, a degree and a type of the frame,
LEMMA TypedPairs ==
  TypeOK => PairsTyped
BY PairFacts DEF PairsTyped

\* after a step too.
LEMMA TypedNext ==
  ASSUME TypeOK'
  PROVE  PairsTyped'
BY TypedPairs, PTL

-----------------------------------------------------------------------------
(* Sorting a degree set.                                                    *)

SetOf(p) == <<pair[p].level, pair[p].deg>>

\* What is sorted now was not sorted, and in neither list.
LEMMA SortFacts ==
  ASSUME TypeOK, PairInv, NEW l \in Levels, NEW d \in Nat
  PROVE  /\ Sorting(l, d) \subseteq Listed
         /\ is_sorted \subseteq NowSorted(l, d) /\ NowSorted(l, d) \subseteq Levels \X Degrees
         /\ \A x \in NowSorted(l, d) \ is_sorted : x = <<l, d>>
         /\ \A p \in Sorting(l, d) : /\ SetOf(p) = <<l, d>> /\ SetOf(p) \notin is_sorted
                                     /\ p \notin next_new_pair /\ p \notin next_pair
         /\ \A p \in next_new_pair \cup next_pair \cup Sorting(l, d) :
              p \in Listed /\ SetOf(p) \in NowSorted(l, d)
         /\ \A p \in Listed : SetOf(p) = <<l, d>> => SetOf(p) \in NowSorted(l, d)
         /\ \A p \in Listed : SetOf(p) \in NowSorted(l, d) /\ SetOf(p) \notin is_sorted
                                => p \in Sorting(l, d)
<1>1. Sorting(l, d) \subseteq Listed
  BY DEF Sorting, InSet
<1>2. top \in [0 .. LengthLimit + 1 -> -1 .. MaxDegree] /\ is_sorted \subseteq Levels \X Degrees
  BY DEF TypeOK
<1>3. LengthLimit \in Nat /\ MaxDegree \in Nat
  BY ResolutionAssumption
<1>4. l \in 0 .. LengthLimit + 1 /\ top[l] \in -1 .. MaxDegree
  BY <1>2, <1>3 DEF Levels
<1>5. HasSet(l, d) => d \in Degrees
  BY <1>3, <1>4 DEF HasSet, Degrees
<1>6. is_sorted \subseteq NowSorted(l, d) /\ NowSorted(l, d) \subseteq Levels \X Degrees
  BY <1>2, <1>5 DEF NowSorted
<1>7. \A x \in NowSorted(l, d) \ is_sorted : x = <<l, d>>
  BY DEF NowSorted
<1>8. \A p \in Sorting(l, d) :
        /\ pair[p].level = l /\ pair[p].deg = d /\ HasSet(l, d) /\ <<l, d>> \notin is_sorted
  BY DEF Sorting, InSet
<1>9. \A p \in next_new_pair \cup next_pair : p \in Listed /\ SetOf(p) \in is_sorted
  BY DEF PairInv, IsSorted, SetOf
<1>10. \A p \in Sorting(l, d) : /\ SetOf(p) = <<l, d>> /\ SetOf(p) \notin is_sorted
                                /\ p \notin next_new_pair /\ p \notin next_pair
  BY <1>8, <1>9 DEF SetOf
<1>11. \A p \in Listed : SetOf(p) = <<l, d>> => HasSet(l, d)
  <2>1. TAKE p \in Listed
  <2>2. p \in Pairs /\ pair[p].deg <= top[pair[p].level]
    BY DEF PairInv, Listed
  <2>3. QED
    BY <2>2 DEF SetOf, HasSet
<1>12. \A p \in Listed : SetOf(p) = <<l, d>> => SetOf(p) \in NowSorted(l, d)
  BY <1>11 DEF NowSorted
<1>13. \A p \in next_new_pair \cup next_pair \cup Sorting(l, d) :
         p \in Listed /\ SetOf(p) \in NowSorted(l, d)
  BY <1>1, <1>6, <1>9, <1>10, <1>12
<1>14. \A p \in Listed : SetOf(p) \in NowSorted(l, d) /\ SetOf(p) \notin is_sorted
                           => p \in Sorting(l, d)
  <2>1. SUFFICES ASSUME NEW p \in Listed, SetOf(p) \in NowSorted(l, d), SetOf(p) \notin is_sorted
                 PROVE  p \in Sorting(l, d)
    OBVIOUS
  <2>2. SetOf(p) = <<l, d>>
    BY <1>7, <2>1
  <2>3. HasSet(l, d) /\ <<l, d>> \notin is_sorted /\ pair[p].level = l /\ pair[p].deg = d
    BY <1>11, <2>1, <2>2 DEF SetOf
  <2>4. QED
    BY <2>1, <2>3 DEF Sorting, InSet
<1>15. QED
  BY <1>1, <1>6, <1>7, <1>10, <1>12, <1>13, <1>14

\* Once a degree set is sorted, PairInv holds with what was added to the lists, and neither
\* what was searched nor what was handled changes.
LEMMA SortedPairs ==
  ASSUME TypeOK, PairInv, NEW l \in Levels, NEW d \in Nat
  PROVE  /\ \A p \in Pairs : pair[p].level > 1 /\ SetOf(p) \notin NowSorted(l, d) => pair[p].type = "S_PAIR"
         /\ \A p \in next_pair \cup Sorting(l, d) :
              pair[p].level > 1 => pair[p].type \in {"S_PAIR", "NOT_NEEDED"}
         /\ \A p \in Pairs : pair[p].type = "S_PAIR" /\ SetOf(p) \in NowSorted(l, d)
                               => p \in next_pair \cup Sorting(l, d)
         /\ \A p \in Listed : p \in Searched
              <=> SetOf(p) \in NowSorted(l, d) /\ p \notin next_new_pair \cup Sorting(l, d)
         /\ \A p \in Listed : Handled(p)
              <=> SetOf(p) \in NowSorted(l, d) /\ p \notin next_pair \cup Sorting(l, d)
         /\ \A p \in Pairs : Handled(p)
              => SetOf(p) \in NowSorted(l, d) /\ p \notin next_pair \cup Sorting(l, d)
<1>1. PICK NS, SO : NS = NowSorted(l, d) /\ SO = Sorting(l, d)
  OBVIOUS
<1>2. /\ SO \subseteq Listed /\ is_sorted \subseteq NS
      /\ \A p \in SO : SetOf(p) \notin is_sorted /\ p \notin next_new_pair /\ p \notin next_pair
      /\ \A p \in Listed : SetOf(p) \in NS /\ SetOf(p) \notin is_sorted => p \in SO
  BY <1>1, SortFacts
<1>3. /\ \A p \in Pairs : pair[p].level > 1 => pair[p].type \notin {"GEN", "REMOVED"}
      /\ \A p \in Pairs : pair[p].level > 1 /\ SetOf(p) \notin is_sorted => pair[p].type = "S_PAIR"
      /\ \A p \in Pairs : pair[p].level > 1 /\ p \in next_pair => pair[p].type \in {"S_PAIR", "NOT_NEEDED"}
      /\ \A p \in Pairs : pair[p].type = "S_PAIR" /\ SetOf(p) \in is_sorted => p \in next_pair
  BY DEF PairInv, IsSorted, SetOf
<1>4. \A p \in Pairs : pair[p].type = "S_PAIR" => p \in Listed
  BY DEF Listed
<1>5. Listed \subseteq Pairs /\ next_pair \subseteq Listed
  BY DEF Listed, TypeOK
<1>6. \A p \in Pairs : pair[p].level > 1 /\ SetOf(p) \notin NS => pair[p].type = "S_PAIR"
  BY <1>2, <1>3
<1>7. \A p \in next_pair \cup SO : pair[p].level > 1 => pair[p].type \in {"S_PAIR", "NOT_NEEDED"}
  BY <1>2, <1>3, <1>5
<1>8. \A p \in Pairs : pair[p].type = "S_PAIR" /\ SetOf(p) \in NS => p \in next_pair \cup SO
  BY <1>2, <1>3, <1>4
<1>9. \A p \in Listed : p \in Searched <=> SetOf(p) \in NS /\ p \notin next_new_pair \cup SO
  BY <1>2 DEF Searched, SetOf
<1>10. \A p \in Pairs : Handled(p) => SetOf(p) \in NS /\ p \notin next_pair \cup SO
  BY <1>2 DEF Handled, SetOf
<1>11. \A p \in Listed : Handled(p) <=> SetOf(p) \in NS /\ p \notin next_pair \cup SO
  BY <1>2 DEF Handled, SetOf, Listed
<1>12. QED
  BY <1>1, <1>6, <1>7, <1>8, <1>9, <1>10, <1>11

-----------------------------------------------------------------------------
(* What every step keeps.                                                   *)

\* Pairs stay what and where they are, and what was done for them is not undone.
Forward ==
  /\ Pairs \subseteq Pairs' /\ is_sorted \subseteq is_sorted'
  /\ \A p \in Pairs : pair'[p].level = pair[p].level /\ pair'[p].deg = pair[p].deg
  /\ \A p \in Pairs' : pair'[p].type = "GEN" => p \in Pairs /\ pair[p].type = "GEN"
  /\ \A p \in Listed : p \in Listed'
  /\ \A p \in Pairs' \ Pairs : p \in Listed'
  /\ \A p \in Searched : p \in Searched'
  /\ \A p \in Pairs : Handled(p) => Handled(p)'

\* The pairs that a step lists are where nothing is claimed to be done.
Unclaimed ==
  \A p \in Listed' \ Listed :
    /\ \A k \in Degrees :
         <<pair'[p].level, k>> \in is_sorted' \/ <<pair'[p].level + 1, k>> \in is_sorted'
           => k < pair'[p].deg
    /\ pair'[p].level >= n_level \/ (pair'[p].level = 1 /\ n_level = 2)
    /\ pair'[p].deg >= n_degree
    /\ (\/ n_degree > 0 \/ (pair'[p].level = 1 /\ InLoop) \/ pc \in {"gens", "pairs"}
        \/ (pair'[p].level = 2 /\ <<1, n_degree + 1>> \in is_sorted'))
         => pair'[p].deg > n_degree

\* What is true of a degree set that is about to be sorted.
Sortable(l, d) ==
  /\ d <= n_degree + 1 /\ (l >= n_level => d <= n_degree) /\ (l > n_level => n_degree > 0)
  /\ GensThrough(0)
  /\ l = 1 => GensThrough(d) /\ SearchedThrough(1, d - 1)
  /\ l > 1 => SearchedThrough(l - 1, d)
  /\ l = 1 /\ d = n_degree + 1 => HandledThrough(2, n_degree)

SortsRight == \A l \in Levels, d \in Degrees : <<l, d>> \in is_sorted' \ is_sorted => Sortable(l, d)

\* Generators do not come back.
LEMMA GensKept ==
  ASSUME Forward, NEW d, GensThrough(d)
  PROVE  GensThrough(d)'
BY DEF Forward, GensThrough

\* What is searched is searched, but for pairs listed now.
LEMMA SearchedKept ==
  ASSUME TypeOK, Forward, NEW l, NEW d, SearchedThrough(l, d),
         \A p \in Listed' \ Listed : ~(pair'[p].level = l /\ pair'[p].deg <= d)
  PROVE  SearchedThrough(l, d)'
<1>1. SUFFICES ASSUME NEW p \in Listed', pair'[p].level = l, pair'[p].deg <= d
               PROVE  p \in Searched'
  BY DEF SearchedThrough
<1>2. p \in Listed
  BY <1>1
<1>3. p \in Pairs
  BY <1>2 DEF Listed
<1>4. p \in Searched
  BY <1>1, <1>2, <1>3 DEF Forward, SearchedThrough
<1>5. QED
  BY <1>4 DEF Forward

\* And so for what is handled, above level 1.
LEMMA HandledKept ==
  ASSUME TypeOK, Forward, NEW l, NEW d, HandledThrough(l, d),
         \A p \in Listed' \ Listed : ~(pair'[p].level = l /\ pair'[p].deg <= d)
  PROVE  HandledThrough(l, d)'
<1>1. SUFFICES ASSUME NEW p \in Pairs', pair'[p].level = l, pair'[p].deg <= d
               PROVE  Handled(p)'
  BY DEF HandledThrough
<1>2. p \in Pairs
  <2>1. CASE p \in Listed'
    <3>1. p \in Listed
      BY <1>1, <2>1
    <3>2. QED
      BY <3>1 DEF Listed
  <2>2. CASE p \notin Listed'
    BY <1>1, <2>2 DEF Forward
  <2>3. QED
    BY <2>1, <2>2
<1>3. Handled(p)
  BY <1>1, <1>2 DEF Forward, HandledThrough
<1>4. QED
  BY <1>2, <1>3 DEF Forward

Claims == SortedInv /\ GensInv /\ SearchedInv /\ HandledInv

\* The types of the numbers.
LEMMA NumberFacts ==
  ASSUME TypeOK
  PROVE  /\ n_level \in Int /\ n_level >= 2 /\ n_degree \in Nat
         /\ LengthLimit \in Nat /\ LengthLimit >= 1 /\ MaxDegree \in Nat
         /\ Levels \subseteq Nat /\ Degrees \subseteq Nat /\ 1 \in Levels /\ 2 \in Levels
         /\ n_level <= LengthLimit + 2 /\ n_degree <= MaxDegree + 1
<1>1. LengthLimit \in Nat \ {0} /\ MaxDegree \in Nat
  BY ResolutionAssumption
<1>2. n_level \in 2 .. LengthLimit + 2 /\ n_degree \in 0 .. MaxDegree + 1
  BY DEF TypeOK
<1>3. QED
  BY <1>1, <1>2 DEF Levels, Degrees

\* A step that stays where it is, or returns, keeps every claim.
LEMMA StayKeeps ==
  ASSUME TypeOK, TypeOK', PositionInv, Claims, Forward, Unclaimed, SortsRight,
         UNCHANGED <<n_level, n_degree, length_limit>>, pc' \in {pc, "idle"}
  PROVE  Claims'
<1>1. /\ n_level \in Int /\ n_level >= 2 /\ n_degree \in Nat
      /\ Levels \subseteq Nat /\ Degrees \subseteq Nat /\ 1 \in Levels /\ 2 \in Levels
  BY NumberFacts
<1>2. \A p \in Listed' : pair'[p].level \in Levels /\ pair'[p].deg \in Degrees
  BY TypedNext DEF Listed, PairsTyped
<1>3. SortedInv'
  <2>1. SUFFICES ASSUME NEW l \in Levels, NEW d \in Degrees, <<l, d>> \in is_sorted'
                 PROVE  /\ d <= n_degree + 1 /\ (l >= n_level => d <= n_degree)
                        /\ (l > n_level => n_degree > 0)
                        /\ l = 1 => GensThrough(d)' /\ SearchedThrough(1, d - 1)'
                        /\ l > 1 => SearchedThrough(l - 1, d)'
    BY DEF SortedInv, IsSorted
  <2>2. /\ d <= n_degree + 1 /\ (l >= n_level => d <= n_degree) /\ (l > n_level => n_degree > 0)
        /\ l = 1 => GensThrough(d) /\ SearchedThrough(1, d - 1)
        /\ l > 1 => SearchedThrough(l - 1, d)
    <3>1. CASE <<l, d>> \in is_sorted
      BY <3>1 DEF Claims, SortedInv, IsSorted
    <3>2. CASE <<l, d>> \notin is_sorted
      BY <2>1, <3>2 DEF SortsRight, Sortable
    <3>3. QED
      BY <3>1, <3>2
  <2>3. \A p \in Listed' \ Listed : pair'[p].level = 1 /\ l = 1 => pair'[p].deg > d - 1
    <3>1. SUFFICES ASSUME NEW p \in Listed' \ Listed, pair'[p].level = 1, l = 1
                   PROVE  pair'[p].deg > d - 1
      OBVIOUS
    <3>2. <<pair'[p].level, d>> \in is_sorted'
      BY <2>1, <3>1
    <3>3. d < pair'[p].deg
      BY <3>2 DEF Unclaimed
    <3>4. d \in Nat /\ pair'[p].deg \in Nat
      BY <1>1, <1>2
    <3>5. QED
      BY <3>3, <3>4
  <2>4. \A p \in Listed' \ Listed : pair'[p].level = l - 1 => pair'[p].deg > d
    <3>1. SUFFICES ASSUME NEW p \in Listed' \ Listed, pair'[p].level = l - 1
                   PROVE  pair'[p].deg > d
      OBVIOUS
    <3>2. pair'[p].level + 1 = l
      BY <1>1, <3>1
    <3>3. <<pair'[p].level + 1, d>> \in is_sorted'
      BY <2>1, <3>2
    <3>4. d < pair'[p].deg
      BY <3>3 DEF Unclaimed
    <3>5. d \in Nat /\ pair'[p].deg \in Nat
      BY <1>1, <1>2
    <3>6. QED
      BY <3>4, <3>5
  <2>5. l = 1 => GensThrough(d)' /\ SearchedThrough(1, d - 1)'
    <3>1. SUFFICES ASSUME l = 1 PROVE GensThrough(d)' /\ SearchedThrough(1, d - 1)'
      OBVIOUS
    <3>2. \A p \in Listed' \ Listed : ~(pair'[p].level = 1 /\ pair'[p].deg <= d - 1)
      BY <1>1, <1>2, <2>3, <3>1
    <3>3. GensThrough(d)'
      BY <2>2, <3>1, GensKept
    <3>4. SearchedThrough(1, d - 1)'
      BY <2>2, <3>1, <3>2, SearchedKept
    <3>5. QED
      BY <3>3, <3>4
  <2>6. l > 1 => SearchedThrough(l - 1, d)'
    <3>1. ASSUME NEW p \in Listed' \ Listed, pair'[p].level = l - 1 PROVE ~(pair'[p].deg <= d)
      <4>1. d \in Nat /\ pair'[p].deg \in Nat
        BY <1>1, <1>2
      <4>2. QED
        BY <2>4, <3>1, <4>1
    <3>2. QED
      BY <2>2, <3>1, SearchedKept
  <2>7. QED
    BY <2>2, <2>5, <2>6
<1>4. GensInv'
  <2>1. is_sorted' # {} => GensThrough(0)
    <3>1. CASE is_sorted # {}
      BY <3>1 DEF Claims, GensInv
    <3>2. CASE is_sorted = {} /\ is_sorted' # {}
      <4>1. PICK x \in is_sorted' : x \notin is_sorted
        BY <3>2
      <4>2. PICK l \in Levels, d \in Degrees : x = <<l, d>>
        BY <4>1 DEF TypeOK
      <4>3. QED
        BY <4>1, <4>2 DEF SortsRight, Sortable
    <3>3. QED
      BY <3>1, <3>2
  <2>2. pc' \notin {"idle", "gens0"} => pc \notin {"idle", "gens0"}
    OBVIOUS
  <2>3. pc' = "pairs" => pc = "pairs"
    OBVIOUS
  <2>4. \A d \in Int : GensThrough(d) => GensThrough(d)'
    BY GensKept
  <2>5. is_sorted' # {} => GensThrough(0)'
    BY <2>1, <2>4
  <2>6. n_degree > 0 \/ pc' \notin {"idle", "gens0"} => GensThrough(n_degree)'
    BY <1>1, <2>2, <2>4 DEF Claims, GensInv
  <2>7. n_level > 2 \/ pc' = "pairs" => GensThrough(n_degree + 1)'
    BY <1>1, <2>3, <2>4 DEF Claims, GensInv
  <2>8. QED
    BY <2>5, <2>6, <2>7 DEF GensInv
<1>5. SearchedInv'
  <2>1. SUFFICES ASSUME NEW l \in Levels, l = 1 \/ l <= length_limit
                 PROVE  /\ l < n_level - 1 \/ (l = n_level - 1 /\ pc' = "reductions")
                             => SearchedThrough(l, n_degree + 1)'
                        /\ (\/ n_degree > 0 \/ (l = n_level - 1 /\ pc' = "pairsBelowNext")
                            \/ (l = 1 /\ InLoop'))
                             => SearchedThrough(l, n_degree)'
    BY DEF SearchedInv
  <2>2. ASSUME l < n_level - 1 \/ (l = n_level - 1 /\ pc' = "reductions")
        PROVE  SearchedThrough(l, n_degree + 1)'
    <3>1. pc' = "reductions" => pc = "reductions"
      OBVIOUS
    <3>2. SearchedThrough(l, n_degree + 1)
      BY <2>1, <2>2, <3>1 DEF Claims, SearchedInv
    <3>3. pc = "reductions" => n_level > 2
      BY DEF PositionInv
    <3>4. ASSUME NEW p \in Listed' \ Listed PROVE pair'[p].level # l
      <4>1. pair'[p].level >= n_level \/ (pair'[p].level = 1 /\ n_level = 2)
        BY DEF Unclaimed
      <4>2. l \in Nat /\ l >= 1 /\ pair'[p].level \in Nat
        BY <1>1, <1>2 DEF Levels
      <4>3. QED
        BY <1>1, <2>2, <3>1, <3>3, <4>1, <4>2
    <3>5. QED
      BY <3>2, <3>4, SearchedKept
  <2>3. ASSUME \/ n_degree > 0 \/ (l = n_level - 1 /\ pc' = "pairsBelowNext")
               \/ l = 1 /\ InLoop'
        PROVE  SearchedThrough(l, n_degree)'
    <3>1. (pc' = "pairsBelowNext" => pc = "pairsBelowNext") /\ (InLoop' => InLoop)
      BY DEF InLoop
    <3>2. SearchedThrough(l, n_degree)
      BY <2>1, <2>3, <3>1 DEF Claims, SearchedInv
    <3>3. pc = "pairsBelowNext" => n_level > 2
      BY DEF PositionInv
    <3>4. ASSUME NEW p \in Listed' \ Listed, pair'[p].level = l PROVE ~(pair'[p].deg <= n_degree)
      <4>1. /\ pair'[p].level >= n_level \/ (pair'[p].level = 1 /\ n_level = 2)
            /\ n_degree > 0 \/ (pair'[p].level = 1 /\ InLoop) => pair'[p].deg > n_degree
        BY DEF Unclaimed
      <4>2. p \in Listed'
        BY <3>4
      <4>3. l \in Nat /\ pair'[p].level \in Nat /\ pair'[p].deg \in Nat
        BY <1>1, <1>2, <4>2
      <4>4. QED
        BY <1>1, <2>3, <3>1, <3>3, <3>4, <4>1, <4>3
    <3>5. QED
      BY <3>2, <3>4, SearchedKept
  <2>4. QED
    BY <2>2, <2>3
<1>6. HandledInv'
  <2>1. SUFFICES ASSUME NEW l \in Levels, l = 2 \/ (l > 2 /\ l <= length_limit + 1)
                 PROVE  /\ HandledThrough(l, n_degree - 1)'
                        /\ l < n_level => HandledThrough(l, n_degree)'
                        /\ l = 2 /\ (pc' \in {"gens", "pairs"} \/ <<1, n_degree + 1>> \in is_sorted')
                             => HandledThrough(2, n_degree)'
    BY DEF HandledInv, IsSorted
  <2>2. /\ HandledThrough(l, n_degree - 1)
        /\ l < n_level => HandledThrough(l, n_degree)
        /\ l = 2 /\ (pc \in {"gens", "pairs"} \/ <<1, n_degree + 1>> \in is_sorted)
             => HandledThrough(2, n_degree)
    BY <2>1 DEF Claims, HandledInv, IsSorted
  <2>3. l \in Nat /\ l >= 2
    BY <1>1, <2>1
  <2>4. \A p \in Listed' \ Listed :
          /\ pair'[p].level \in Nat /\ pair'[p].deg \in Nat
          /\ pair'[p].level >= n_level \/ (pair'[p].level = 1 /\ n_level = 2)
          /\ pair'[p].deg >= n_degree
    BY <1>1, <1>2 DEF Unclaimed
  <2>5. HandledThrough(l, n_degree - 1)'
    <3>1. \A p \in Listed' \ Listed : ~(pair'[p].level = l /\ pair'[p].deg <= n_degree - 1)
      BY <1>1, <2>4
    <3>2. QED
      BY <2>2, <3>1, HandledKept
  <2>6. l < n_level => HandledThrough(l, n_degree)'
    <3>1. SUFFICES ASSUME l < n_level PROVE HandledThrough(l, n_degree)'
      OBVIOUS
    <3>2. \A p \in Listed' \ Listed : ~(pair'[p].level = l /\ pair'[p].deg <= n_degree)
      BY <1>1, <2>3, <2>4, <3>1
    <3>3. QED
      BY <2>2, <3>1, <3>2, HandledKept
  <2>7. ASSUME l = 2, pc' \in {"gens", "pairs"} \/ <<1, n_degree + 1>> \in is_sorted'
        PROVE  HandledThrough(2, n_degree)'
    <3>1. HandledThrough(2, n_degree)
      <4>1. CASE pc' \in {"gens", "pairs"}
        <5>1. pc \in {"gens", "pairs"}
          BY <4>1
        <5>2. QED
          BY <2>2, <2>7, <5>1
      <4>2. CASE <<1, n_degree + 1>> \in is_sorted
        BY <2>2, <2>7, <4>2
      <4>3. CASE <<1, n_degree + 1>> \in is_sorted' \ is_sorted
        <5>1. 1 \in Levels /\ n_degree + 1 \in Degrees
          BY <4>3 DEF TypeOK
        <5>2. Sortable(1, n_degree + 1)
          BY <4>3, <5>1 DEF SortsRight
        <5>3. QED
          BY <5>2 DEF Sortable
      <4>4. QED
        BY <2>7, <4>1, <4>2, <4>3
    <3>2. ASSUME NEW p \in Listed' \ Listed, pair'[p].level = 2 PROVE ~(pair'[p].deg <= n_degree)
      <4>1. pc' \in {"gens", "pairs"} => pc \in {"gens", "pairs"}
        OBVIOUS
      <4>2. pair'[p].deg > n_degree
        BY <2>7, <3>2, <4>1 DEF Unclaimed
      <4>3. QED
        BY <1>1, <2>4, <4>2
    <3>3. QED
      BY <3>1, <3>2, HandledKept
  <2>8. QED
    BY <2>5, <2>6, <2>7
<1>7. QED
  BY <1>3, <1>4, <1>5, <1>6 DEF Claims

\* When nothing is listed, every claim stays.
LEMMA QuietKeeps ==
  ASSUME TypeOK, Forward, Listed' = Listed
  PROVE  /\ \A d \in Int : GensThrough(d) => GensThrough(d)'
         /\ \A l, d \in Int : SearchedThrough(l, d) => SearchedThrough(l, d)'
         /\ \A l, d \in Int : HandledThrough(l, d) => HandledThrough(l, d)'
<1>1. Listed' \ Listed = {}
  OBVIOUS
<1>2. \A d \in Int : GensThrough(d) => GensThrough(d)'
  BY GensKept
<1>3. ASSUME NEW l \in Int, NEW d \in Int, SearchedThrough(l, d) PROVE SearchedThrough(l, d)'
  BY <1>1, <1>3, SearchedKept
<1>4. ASSUME NEW l \in Int, NEW d \in Int, HandledThrough(l, d) PROVE HandledThrough(l, d)'
  BY <1>1, <1>4, HandledKept
<1>5. QED
  BY <1>2, <1>3, <1>4

\* What is said of sorted degree sets stays when the level, or the degree, goes up.
LEMMA QuietSorted ==
  ASSUME TypeOK, TypeOK', PositionInv, Claims, Forward, Listed' = Listed, SortsRight,
         \/ n_degree' = n_degree /\ n_level' >= n_level
         \/ n_degree' = n_degree + 1 /\ n_level' = 2
  PROVE  SortedInv' /\ (is_sorted' # {} => GensThrough(0)')
<1>1. /\ n_level \in Int /\ n_level >= 2 /\ n_degree \in Nat
      /\ Levels \subseteq Nat /\ Degrees \subseteq Nat
  BY NumberFacts
<1>2. n_level' \in Int
  BY ResolutionAssumption DEF TypeOK
<1>3. SortedInv'
  <2>1. SUFFICES ASSUME NEW l \in Levels, NEW d \in Degrees, <<l, d>> \in is_sorted'
                 PROVE  /\ d <= n_degree' + 1 /\ (l >= n_level' => d <= n_degree')
                        /\ (l > n_level' => n_degree' > 0)
                        /\ l = 1 => GensThrough(d)' /\ SearchedThrough(1, d - 1)'
                        /\ l > 1 => SearchedThrough(l - 1, d)'
    BY DEF SortedInv, IsSorted
  <2>2. /\ d <= n_degree + 1 /\ (l >= n_level => d <= n_degree) /\ (l > n_level => n_degree > 0)
        /\ l = 1 => GensThrough(d) /\ SearchedThrough(1, d - 1)
        /\ l > 1 => SearchedThrough(l - 1, d)
    <3>1. CASE <<l, d>> \in is_sorted
      BY <3>1 DEF Claims, SortedInv, IsSorted
    <3>2. CASE <<l, d>> \notin is_sorted
      BY <2>1, <3>2 DEF SortsRight, Sortable
    <3>3. QED
      BY <3>1, <3>2
  <2>3. l \in Nat /\ d \in Nat
    BY <1>1
  <2>4. l = 1 => GensThrough(d)' /\ SearchedThrough(1, d - 1)'
    <3>1. d \in Int /\ d - 1 \in Int /\ 1 \in Int
      BY <2>3
    <3>2. QED
      BY <2>2, <3>1, QuietKeeps
  <2>5. l > 1 => SearchedThrough(l - 1, d)'
    <3>1. d \in Int /\ l - 1 \in Int
      BY <2>3
    <3>2. QED
      BY <2>2, <3>1, QuietKeeps
  <2>6. d <= n_degree' + 1 /\ (l >= n_level' => d <= n_degree') /\ (l > n_level' => n_degree' > 0)
    BY <1>1, <1>2, <2>2, <2>3
  <2>7. QED
    BY <2>4, <2>5, <2>6
<1>4. is_sorted' # {} => GensThrough(0)
  <2>1. CASE is_sorted # {}
    BY <2>1 DEF Claims, GensInv
  <2>2. CASE is_sorted = {} /\ is_sorted' # {}
    <3>1. PICK x \in is_sorted' : x \notin is_sorted
      BY <2>2
    <3>2. PICK l \in Levels, d \in Degrees : x = <<l, d>>
      BY <3>1 DEF TypeOK
    <3>3. QED
      BY <3>1, <3>2 DEF SortsRight, Sortable
  <2>3. QED
    BY <2>1, <2>2
<1>5. is_sorted' # {} => GensThrough(0)'
  BY <1>4, GensKept
<1>6. QED
  BY <1>3, <1>5

-----------------------------------------------------------------------------
(* What the steps do to the pairs and the degree sets.                      *)

ListsTyped ==
  /\ pair \in Seq(PairRec) /\ top \in [0 .. LengthLimit + 1 -> -1 .. MaxDegree]
  /\ is_sorted \subseteq Levels \X Degrees
  /\ next_gen \subseteq Pairs /\ next_new_pair \subseteq Listed /\ next_pair \subseteq Listed

\* A degree set is sorted, and nothing else.
SortOnly(l, d) ==
  /\ is_sorted' = NowSorted(l, d)
  /\ next_new_pair' = next_new_pair \cup Sorting(l, d)
  /\ next_pair' = next_pair \cup Sorting(l, d)
  /\ UNCHANGED <<pair, top, next_gen>>

\* Sorting a degree set moves its pairs into the lists that wait, and changes no pair.
LEMMA SortOnlyKeeps ==
  ASSUME TypeOK, PairInv, NEW l \in Levels, NEW d \in Nat, SortOnly(l, d)
  PROVE  /\ ListsTyped' /\ PairInv' /\ Forward /\ Listed' = Listed /\ Pairs' = Pairs
         /\ \A p \in Listed : Handled(p)' <=> Handled(p)
         /\ \A p \in Listed : p \in Searched' <=> p \in Searched
<1>1. PICK NS, NN, NP : /\ NS = NowSorted(l, d) /\ NN = next_new_pair \cup Sorting(l, d)
                        /\ NP = next_pair \cup Sorting(l, d)
  OBVIOUS
<1>2. is_sorted' = NS /\ next_new_pair' = NN /\ next_pair' = NP
  BY <1>1 DEF SortOnly
<1>3. pair' = pair /\ top' = top /\ next_gen' = next_gen
  BY DEF SortOnly
<1>4. Pairs' = Pairs
  BY <1>3 DEF Pairs
<1>5. Listed' = Listed
  BY <1>3, <1>4 DEF Listed
<1>6. /\ is_sorted \subseteq NS /\ NS \subseteq Levels \X Degrees
      /\ \A p \in NN \cup NP : p \in Listed /\ SetOf(p) \in NS
  BY <1>1, SortFacts
<1>7. /\ \A p \in Pairs : pair[p].level > 1 /\ SetOf(p) \notin NS => pair[p].type = "S_PAIR"
      /\ \A p \in NP : pair[p].level > 1 => pair[p].type \in {"S_PAIR", "NOT_NEEDED"}
      /\ \A p \in Pairs : pair[p].type = "S_PAIR" /\ SetOf(p) \in NS => p \in NP
      /\ \A p \in Listed : p \in Searched <=> SetOf(p) \in NS /\ p \notin NN
      /\ \A p \in Listed : Handled(p) <=> SetOf(p) \in NS /\ p \notin NP
      /\ \A p \in Pairs : Handled(p) => SetOf(p) \in NS /\ p \notin NP
  BY <1>1, SortedPairs
<1>8. ListsTyped'
  BY <1>2, <1>3, <1>4, <1>5, <1>6 DEF TypeOK, ListsTyped, PairRec, Types
<1>9. PairInv'
  <2>1. top'[0] >= 0 /\ \A p \in Pairs' : pair'[p].deg <= top'[pair'[p].level]
    BY <1>3, <1>4 DEF PairInv
  <2>2. next_gen' = {p \in Pairs' : pair'[p].type = "GEN"}
    BY <1>3, <1>4 DEF PairInv
  <2>3. \A p \in next_new_pair' \cup next_pair' :
          p \in Listed' /\ <<pair'[p].level, pair'[p].deg>> \in is_sorted'
    BY <1>2, <1>3, <1>5, <1>6 DEF SetOf
  <2>4. \A p \in Pairs' :
       /\ pair'[p].level = 1 => pair'[p].type \in {"GEN", "REMOVED", "MINIMAL", "NOT_NEEDED"}
       /\ pair'[p].level > 1 => pair'[p].type \notin {"GEN", "REMOVED"}
    BY <1>3, <1>4 DEF PairInv
  <2>5. \A p \in Pairs' :
       /\ pair'[p].level > 1 /\ <<pair'[p].level, pair'[p].deg>> \notin is_sorted' => pair'[p].type = "S_PAIR"
       /\ pair'[p].level > 1 /\ p \in next_pair' => pair'[p].type \in {"S_PAIR", "NOT_NEEDED"}
       /\ pair'[p].type = "S_PAIR" /\ <<pair'[p].level, pair'[p].deg>> \in is_sorted' => p \in next_pair'
    BY <1>2, <1>3, <1>4, <1>7 DEF SetOf
  <2>6. QED
    BY <2>1, <2>2, <2>3, <2>4, <2>5 DEF PairInv, IsSorted
<1>10. \A p \in Listed : p \in Searched' <=> p \in Searched
  BY <1>2, <1>3, <1>5, <1>7 DEF Searched, SetOf
<1>11. \A p \in Pairs : Handled(p) => Handled(p)'
  BY <1>2, <1>3, <1>7 DEF Handled, SetOf
<1>12. \A p \in Listed : Handled(p)' <=> Handled(p)
  BY <1>2, <1>3, <1>7 DEF Handled, SetOf, Listed
<1>13. Forward
  <2>1. \A p \in Searched : p \in Listed
    BY DEF Searched
  <2>2. QED
    BY <1>2, <1>3, <1>4, <1>5, <1>6, <1>10, <1>11, <2>1 DEF Forward
<1>14. QED
  BY <1>4, <1>5, <1>8, <1>9, <1>10, <1>12, <1>13

\* A generator is handled, whose degree set is not sorted yet.
LEMMA GenHandledKeeps ==
  ASSUME TypeOK, PairInv, NEW p \in next_gen, pair[p].level = 1, SetOf(p) \notin is_sorted,
         NEW type \in {"MINIMAL", "REMOVED"}, pair' = [pair EXCEPT ![p].type = type],
         next_gen' = next_gen \ {p}, UNCHANGED <<top, is_sorted, next_new_pair, next_pair>>
  PROVE  /\ ListsTyped' /\ PairInv' /\ Forward /\ Pairs' = Pairs /\ p \in Pairs
         /\ \A q \in Pairs : /\ pair'[q].level = pair[q].level /\ pair'[q].deg = pair[q].deg
                             /\ pair'[q].type = IF q = p THEN type ELSE pair[q].type
         /\ Listed' \ Listed \subseteq {p} /\ Searched' = Searched
         /\ \A q \in Pairs : pair[q].level # 1 => (Handled(q)' <=> Handled(q))
<1>1. p \in Pairs /\ pair[p].type = "GEN" /\ pair \in Seq(PairRec) /\ type \in Types
  BY PairFacts DEF PairInv, Types
<1>0. top' = top /\ is_sorted' = is_sorted /\ next_new_pair' = next_new_pair /\ next_pair' = next_pair
  OBVIOUS
<1>2. /\ pair' \in Seq(PairRec) /\ Pairs' = Pairs
      /\ \A q \in Pairs : pair'[q].level = pair[q].level /\ pair'[q].deg = pair[q].deg
      /\ \A q \in Pairs : pair'[q].type = IF q = p THEN type ELSE pair[q].type
  <2> DEFINE u == pair'
  <2>1. u = [pair EXCEPT ![p].type = type] /\ p \in DOMAIN pair
    BY <1>1 DEF Pairs
  <2> HIDE DEF u
  <2>2. /\ u \in Seq(PairRec) /\ DOMAIN u = DOMAIN pair
        /\ \A q \in DOMAIN pair : u[q].level = pair[q].level /\ u[q].deg = pair[q].deg
        /\ \A q \in DOMAIN pair : u[q].type = IF q = p THEN type ELSE pair[q].type
    BY ONLY <1>1, <2>1, Retyped
  <2>3. QED
    BY <2>2 DEF Pairs, u
<1>3. Listed \subseteq Listed' /\ Listed' \ Listed \subseteq {p} /\ p \notin Listed
  BY <1>1, <1>2 DEF Listed
<1>4. Searched' = Searched
  <2>1. \A q \in Listed : q # p
    BY <1>3
  <2>2. \A q \in Listed' : q \notin Listed => SetOf(p) = <<pair'[q].level, pair'[q].deg>>
    BY <1>1, <1>2, <1>3 DEF SetOf
  <2>3. \A q \in Listed : q \in Searched' <=> q \in Searched
    BY <1>0, <1>2, <1>3 DEF Searched, Listed
  <2>4. \A q \in Searched' : q \in Listed
    BY <2>2 DEF Searched
  <2>5. \A q \in Searched : q \in Listed
    BY DEF Searched
  <2>6. QED
    BY <2>3, <2>4, <2>5
<1>5. \A q \in Pairs : Handled(q) => Handled(q)'
  BY <1>0, <1>1, <1>2 DEF Handled
<1>6. \A q \in Pairs : pair[q].level # 1 => (Handled(q)' <=> Handled(q))
  BY <1>0, <1>1, <1>2 DEF Handled
<1>7. Forward
  BY <1>1, <1>2, <1>3, <1>4, <1>5 DEF Forward
<1>8. ListsTyped'
  <2>1. next_gen' \subseteq Pairs'
    BY <1>2 DEF TypeOK
  <2>2. QED
    BY <1>2, <1>3, <2>1 DEF TypeOK, ListsTyped
<1>9. PairInv'
  <2>1. top'[0] >= 0 /\ \A q \in Pairs' : pair'[q].deg <= top'[pair'[q].level]
    BY <1>2 DEF PairInv
  <2>2. next_gen' = {q \in Pairs' : pair'[q].type = "GEN"}
    BY <1>2 DEF PairInv
  <2>3. \A q \in next_new_pair' \cup next_pair' :
          q \in Listed' /\ <<pair'[q].level, pair'[q].deg>> \in is_sorted'
    BY <1>2, <1>3 DEF PairInv, IsSorted, Listed
  <2>4. ASSUME NEW q \in Pairs' PROVE
       /\ pair'[q].level = 1 => pair'[q].type \in {"GEN", "REMOVED", "MINIMAL", "NOT_NEEDED"}
       /\ pair'[q].level > 1 => pair'[q].type \notin {"GEN", "REMOVED"}
       /\ pair'[q].level > 1 /\ <<pair'[q].level, pair'[q].deg>> \notin is_sorted' => pair'[q].type = "S_PAIR"
       /\ pair'[q].level > 1 /\ q \in next_pair' => pair'[q].type \in {"S_PAIR", "NOT_NEEDED"}
       /\ pair'[q].type = "S_PAIR" /\ <<pair'[q].level, pair'[q].deg>> \in is_sorted' => q \in next_pair'
    <3>1. CASE q = p
      BY <1>1, <1>2, <3>1
    <3>2. CASE q # p
      BY <1>2, <3>2 DEF PairInv, IsSorted
    <3>3. QED
      BY <3>1, <3>2
  <2>5. QED
    BY <2>1, <2>2, <2>3, <2>4 DEF PairInv, IsSorted
<1>10. QED
  BY <1>1, <1>2, <1>3, <1>4, <1>6, <1>7, <1>8, <1>9

\* The greatest degree of a level grows to that of the pairs inserted.
LEMMA InsertedTop ==
  ASSUME TypeOK, NEW ps \in Seq(PairRec), NEW level \in Levels, Inserted(ps, level)
  PROVE  /\ top' \in [0 .. LengthLimit + 1 -> -1 .. MaxDegree]
         /\ \A l \in 0 .. LengthLimit + 1 : top'[l] >= top[l]
         /\ \A i \in DOMAIN ps : ps[i].deg <= top'[level]
<1> DEFINE R == {top[level]} \cup {ps[i].deg : i \in DOMAIN ps}
           good(x) == x >= top[level] /\ \A i \in DOMAIN ps : x >= ps[i].deg
           T == {x \in -1 .. MaxDegree : good(x)}
<1>1. top \in [0 .. LengthLimit + 1 -> -1 .. MaxDegree] /\ level \in 0 .. LengthLimit + 1
      /\ MaxDegree \in Nat /\ top[level] \in -1 .. MaxDegree
  BY ResolutionAssumption DEF TypeOK, Levels
<1>2. \A i \in DOMAIN ps : ps[i].deg \in 0 .. MaxDegree
  <2>1. \A i \in DOMAIN ps : ps[i] \in PairRec
    BY LenProperties, ElementOfSeq
  <2>2. QED
    BY <2>1 DEF PairRec, Degrees
<1>3. R \subseteq -1 .. MaxDegree
  BY <1>1, <1>2
<1>4. \E m \in R : good(m)
  <2>1. MaxDegree \in T
    BY <1>1, <1>2
  <2>2. T \in SUBSET Int /\ T # {} /\ \A x \in T : x >= -1
    BY <1>1, <2>1
  <2>3. PICK m \in T : \A x \in T : m <= x
    <3> HIDE DEF T
    <3>1. QED
      BY <2>2, LeastOf
  <2>4. m \in R
    <3>1. SUFFICES ASSUME m \notin R PROVE FALSE
      OBVIOUS
    <3>2. m \in -1 .. MaxDegree /\ good(m)
      BY <2>3
    <3>3. m # top[level] /\ \A i \in DOMAIN ps : m # ps[i].deg
      BY <3>1
    <3>4. m - 1 \in -1 .. MaxDegree /\ good(m - 1)
      BY <1>1, <1>2, <3>2, <3>3
    <3>5. m - 1 \in T
      BY <3>4
    <3>6. m <= m - 1
      BY <2>3, <3>5
    <3>7. QED
      BY <3>2, <3>6
  <2>5. QED
    BY <2>3, <2>4
<1>5. top' = [top EXCEPT ![level] = CHOOSE d \in R : good(d)]
  BY <1>1 DEF Inserted
<1> DEFINE m == CHOOSE d \in R : good(d)
<1>6. m \in R /\ good(m)
  BY <1>4
<1> HIDE DEF R, m
<1>7. m \in -1 .. MaxDegree
  BY <1>3, <1>6
<1>8. top' = [top EXCEPT ![level] = m]
  BY <1>5 DEF m
<1>9. top' \in [0 .. LengthLimit + 1 -> -1 .. MaxDegree]
  BY <1>1, <1>7, <1>8
<1>10. \A l \in 0 .. LengthLimit + 1 : top'[l] = IF l = level THEN m ELSE top[l]
  BY <1>1, <1>8
<1>11. \A l \in 0 .. LengthLimit + 1 : top'[l] >= top[l]
  BY <1>1, <1>6, <1>10
<1>12. \A i \in DOMAIN ps : ps[i].deg <= top'[level]
  BY <1>1, <1>2, <1>6, <1>7, <1>10
<1>13. QED
  BY <1>9, <1>11, <1>12

\* A degree set is sorted, and new_pairs is called with a pair p of it; no degree set that the
\* new pairs can come to is sorted.
PairsMade(p, l, d) ==
  /\ p \in InSet(next_new_pair \cup Sorting(l, d), l, d)
  /\ is_sorted' = NowSorted(l, d)
  /\ next_new_pair' = (next_new_pair \cup Sorting(l, d)) \ {p}
  /\ next_pair' = next_pair \cup Sorting(l, d)
  /\ NewPairs(p) /\ UNCHANGED next_gen

\* new_pairs appends S-pairs of the level above, none of them in a degree set sorted before.
LEMMA PairsMadeKeeps ==
  ASSUME TypeOK, PairInv, NEW l \in Levels, NEW d \in Nat, NEW p, PairsMade(p, l, d),
         n_level = l + 1, n_level \in Levels,
         \A k \in Degrees : <<n_level, k>> \in is_sorted => k < d
  PROVE  /\ ListsTyped' /\ PairInv' /\ Forward
         /\ \A q \in Pairs : pair'[q] = pair[q]
         /\ \E n \in Nat : /\ npairs' = npairs + n /\ nleft' = nleft + n
                           /\ Pairs' = 1 .. Len(pair) + n
         /\ \A q \in Pairs' \ Pairs : /\ pair'[q].level = n_level /\ pair'[q].deg >= d
                                      /\ pair'[q].type = "S_PAIR" /\ ~Handled(q)'
         /\ Listed' \ Listed = Pairs' \ Pairs
         /\ Searched' \subseteq Searched \cup {p}
         /\ \A q \in Pairs : Handled(q)' => Handled(q) \/ pair[q].level = 1
<1> DEFINE ps(n, ds) == [i \in 1 .. n |-> [level |-> n_level, deg |-> ds[i], type |-> "S_PAIR"]]
<1>1. PICK NS, NN, NP : /\ NS = NowSorted(l, d) /\ NN = next_new_pair \cup Sorting(l, d)
                        /\ NP = next_pair \cup Sorting(l, d)
  OBVIOUS
<1>2. /\ is_sorted' = NS /\ next_new_pair' = NN \ {p} /\ next_pair' = NP /\ next_gen' = next_gen
      /\ p \in NN /\ pair[p].level = l /\ pair[p].deg = d
  BY <1>1 DEF PairsMade, InSet
<1>3. /\ is_sorted \subseteq NS /\ NS \subseteq Levels \X Degrees
      /\ \A x \in NS \ is_sorted : x = <<l, d>>
      /\ \A q \in NN \cup NP : q \in Listed /\ SetOf(q) \in NS
  BY <1>1, SortFacts
<1>4. /\ \A q \in Pairs : pair[q].level > 1 /\ SetOf(q) \notin NS => pair[q].type = "S_PAIR"
      /\ \A q \in NP : pair[q].level > 1 => pair[q].type \in {"S_PAIR", "NOT_NEEDED"}
      /\ \A q \in Pairs : pair[q].type = "S_PAIR" /\ SetOf(q) \in NS => q \in NP
      /\ \A q \in Listed : q \in Searched <=> SetOf(q) \in NS /\ q \notin NN
      /\ \A q \in Listed : Handled(q) <=> SetOf(q) \in NS /\ q \notin NP
      /\ \A q \in Pairs : Handled(q) => SetOf(q) \in NS /\ q \notin NP
  BY <1>1, SortedPairs
<1>5. /\ MaxNewPairs \in Nat /\ n_level \in Nat /\ l \in Nat /\ MaxDegree \in Nat /\ n_level > 1
      /\ Degrees = 0 .. MaxDegree /\ pair \in Seq(PairRec) /\ Len(pair) \in Nat /\ Pairs = 1 .. Len(pair)
  BY ResolutionAssumption, PairFacts DEF Levels, Degrees
<1>6. d + l + 1 - n_level = d
  BY <1>5
<1>7a. PICK n \in 0 .. MaxNewPairs : \E ds \in [1 .. n -> d .. MaxDegree] :
        /\ Inserted(ps(n, ds), n_level)
        /\ npairs' = npairs + n /\ nleft' = nleft + n
  BY <1>2, <1>6 DEF PairsMade, NewPairs
<1>7. PICK ds \in [1 .. n -> d .. MaxDegree] :
        /\ Inserted(ps(n, ds), n_level)
        /\ npairs' = npairs + n /\ nleft' = nleft + n
  BY <1>7a
<1>8. ps(n, ds) \in Seq(PairRec) /\ Len(ps(n, ds)) = n /\ DOMAIN ps(n, ds) = 1 .. n
  <2>1. n \in Nat /\ \A i \in 1 .. n : ds[i] \in Degrees
    BY <1>5, <1>7
  <2>2. ps(n, ds) \in [1 .. n -> PairRec]
    BY <2>1 DEF PairRec, Types
  <2>3. QED
    BY <2>1, <2>2, IsASeq, LenProperties
<1>9. \A i \in 1 .. n : /\ ps(n, ds)[i].level = n_level /\ ps(n, ds)[i].deg = ds[i]
                        /\ ps(n, ds)[i].type = "S_PAIR"
  OBVIOUS
<1> DEFINE new == ps(n, ds)
<1> HIDE DEF ps, new
<1>10. new \in Seq(PairRec) /\ Len(new) = n /\ DOMAIN new = 1 .. n /\ Inserted(new, n_level)
  BY <1>7, <1>8 DEF new
<1>11. \A i \in 1 .. n : /\ new[i].level = n_level /\ new[i].deg \in d .. MaxDegree
                         /\ new[i].type = "S_PAIR"
  BY <1>7, <1>9 DEF new
<1>12. pair' = pair \o new
  BY <1>10 DEF Inserted
<1>13. /\ pair' \in Seq(PairRec) /\ Len(pair') = Len(pair) + n
       /\ Pairs' = 1 .. Len(pair) + n
       /\ \A q \in Pairs : pair'[q] = pair[q]
       /\ \A q \in Pairs' \ Pairs : q - Len(pair) \in 1 .. n /\ pair'[q] = new[q - Len(pair)]
  <2> DEFINE u == pair'
  <2>1. u = pair \o new
    BY <1>12
  <2>a. pair \in Seq(PairRec) /\ new \in Seq(PairRec)
    BY <1>5, <1>10
  <2> HIDE DEF u
  <2>2. /\ u \in Seq(PairRec) /\ Len(u) = Len(pair) + Len(new)
        /\ DOMAIN u = 1 .. Len(pair) + Len(new)
        /\ \A q \in DOMAIN pair : u[q] = pair[q]
        /\ \A q \in DOMAIN u \ DOMAIN pair : q - Len(pair) \in 1 .. Len(new) /\ u[q] = new[q - Len(pair)]
    BY ONLY <2>1, <2>a, Added
  <2>3. QED
    BY <1>10, <2>2 DEF u, Pairs
<1>14. \A q \in Pairs' \ Pairs : /\ pair'[q].level = n_level /\ pair'[q].deg \in d .. MaxDegree
                                 /\ pair'[q].type = "S_PAIR"
  <2>1. TAKE q \in Pairs' \ Pairs
  <2>2. PICK i \in 1 .. n : pair'[q] = new[i]
    BY <1>13
  <2>3. QED
    BY <1>11, <2>2
<1>15. Pairs \subseteq Pairs' /\ n \in Nat /\ Len(pair') \in Nat /\ Pairs' = 1 .. Len(pair')
  BY <1>5, <1>7, <1>13
<1>16. Listed \subseteq Listed' /\ Listed' \ Listed = Pairs' \ Pairs
  BY <1>13, <1>14, <1>15 DEF Listed
<1>17. \A q \in Pairs' \ Pairs : <<pair'[q].level, pair'[q].deg>> \notin NS
  <2>1. SUFFICES ASSUME NEW q \in Pairs' \ Pairs, <<pair'[q].level, pair'[q].deg>> \in NS PROVE FALSE
    OBVIOUS
  <2>2. pair'[q].level = n_level /\ pair'[q].deg \in Degrees /\ pair'[q].deg >= d /\ n_level # l
    BY <1>5, <1>14
  <2>3. <<pair'[q].level, pair'[q].deg>> # <<l, d>>
    BY <2>2
  <2>4. <<n_level, pair'[q].deg>> \in is_sorted
    BY <1>3, <2>1, <2>2, <2>3
  <2>5. pair'[q].deg < d /\ pair'[q].deg \in Nat
    BY <1>5, <2>2, <2>4
  <2>6. QED
    BY <2>2, <2>5
<1>18. Searched' \subseteq Searched \cup {p} /\ Searched \subseteq Searched'
  <2>1. \A q \in Listed : q \in Searched' <=> SetOf(q) \in NS /\ q \notin NN \ {p}
    BY <1>2, <1>13, <1>16 DEF Searched, SetOf, Listed
  <2>2. \A q \in Searched' : q \in Listed' /\ <<pair'[q].level, pair'[q].deg>> \in NS
    BY <1>2 DEF Searched
  <2>3. \A q \in Searched' : q \in Listed
    BY <1>16, <1>17, <2>2
  <2>4. \A q \in Searched : q \in Listed
    BY DEF Searched
  <2>5. QED
    BY <1>4, <2>1, <2>3, <2>4
<1>19. \A q \in Pairs : Handled(q)' <=> pair[q].type # "GEN" /\ SetOf(q) \in NS /\ q \notin NP
  BY <1>2, <1>13, <1>15 DEF Handled, SetOf
<1>20. \A q \in Pairs : Handled(q) => Handled(q)'
  BY <1>4, <1>19 DEF Handled
<1>21. \A q \in Pairs : Handled(q)' => Handled(q) \/ pair[q].level = 1
  <2>1. SUFFICES ASSUME NEW q \in Pairs, Handled(q)', pair[q].level # 1 PROVE Handled(q)
    OBVIOUS
  <2>2. pair[q].level \in Levels
    BY PairFacts
  <2>3. pair[q].level > 1
    BY <1>5, <2>1, <2>2 DEF Levels
  <2>4. q \in Listed
    BY <2>3 DEF PairInv, Listed
  <2>5. QED
    BY <1>4, <1>19, <2>1, <2>4
<1>22. \A q \in Pairs' \ Pairs : ~Handled(q)'
  BY <1>2, <1>17 DEF Handled
<1>23. Forward
  BY <1>2, <1>3, <1>13, <1>14, <1>15, <1>16, <1>18, <1>20 DEF Forward
<1>24. /\ top' \in [0 .. LengthLimit + 1 -> -1 .. MaxDegree]
       /\ \A k \in 0 .. LengthLimit + 1 : top'[k] >= top[k]
       /\ \A i \in 1 .. n : new[i].deg <= top'[n_level]
  BY <1>10, InsertedTop
<1>25. ListsTyped'
  <2>1. next_gen \subseteq Pairs
    BY DEF TypeOK
  <2>2. QED
    BY <1>2, <1>3, <1>13, <1>15, <1>16, <1>24, <2>1 DEF ListsTyped
<1>26. PairInv'
  <2>1. top'[0] >= 0 /\ \A q \in Pairs' : pair'[q].deg <= top'[pair'[q].level]
    <3>1. top'[0] >= 0
      <4>1. 0 \in 0 .. LengthLimit + 1 /\ top[0] \in Int /\ top'[0] \in Int
        BY <1>24, ResolutionAssumption DEF TypeOK
      <4>2. QED
        BY <1>24, <4>1 DEF PairInv
    <3>2. ASSUME NEW q \in Pairs PROVE pair'[q].deg <= top'[pair'[q].level]
      <4>1. pair[q].level \in 0 .. LengthLimit + 1 /\ pair[q].deg \in Nat
        BY <1>5, PairFacts DEF Levels
      <4>2. pair[q].deg <= top[pair[q].level] /\ top[pair[q].level] \in Int
        BY <4>1 DEF PairInv, TypeOK
      <4>3. top'[pair[q].level] >= top[pair[q].level] /\ top'[pair[q].level] \in Int
        BY <1>24, <4>1
      <4>4. pair[q].deg <= top'[pair[q].level]
        BY <4>1, <4>2, <4>3
      <4>5. QED
        BY <1>13, <4>4
    <3>3. \A q \in Pairs' \ Pairs : pair'[q].deg <= top'[pair'[q].level]
      <4>1. TAKE q \in Pairs' \ Pairs
      <4>2. PICK i \in 1 .. n : pair'[q] = new[i]
        BY <1>13
      <4>3. pair'[q].level = n_level /\ new[i].deg <= top'[n_level]
        BY <1>11, <1>24, <4>2
      <4>4. QED
        BY <4>2, <4>3
    <3>4. QED
      BY <3>1, <3>2, <3>3
  <2>2. next_gen' = {q \in Pairs' : pair'[q].type = "GEN"}
    BY <1>2, <1>13, <1>14, <1>15 DEF PairInv
  <2>3. \A q \in next_new_pair' \cup next_pair' :
          q \in Listed' /\ <<pair'[q].level, pair'[q].deg>> \in is_sorted'
    BY <1>2, <1>3, <1>13, <1>16 DEF SetOf, Listed
  <2>4. ASSUME NEW q \in Pairs' PROVE
       /\ pair'[q].level = 1 => pair'[q].type \in {"GEN", "REMOVED", "MINIMAL", "NOT_NEEDED"}
       /\ pair'[q].level > 1 => pair'[q].type \notin {"GEN", "REMOVED"}
       /\ pair'[q].level > 1 /\ <<pair'[q].level, pair'[q].deg>> \notin is_sorted' => pair'[q].type = "S_PAIR"
       /\ pair'[q].level > 1 /\ q \in next_pair' => pair'[q].type \in {"S_PAIR", "NOT_NEEDED"}
       /\ pair'[q].type = "S_PAIR" /\ <<pair'[q].level, pair'[q].deg>> \in is_sorted' => q \in next_pair'
    <3>1. CASE q \notin Pairs
      BY <1>2, <1>5, <1>14, <1>17, <3>1
    <3>2. CASE q \in Pairs
      BY <1>2, <1>4, <1>13, <3>2 DEF PairInv, SetOf
    <3>3. QED
      BY <3>1, <3>2
  <2>5. QED
    BY <2>1, <2>2, <2>3, <2>4 DEF PairInv, IsSorted
<1>27. \E k \in Nat : npairs' = npairs + k /\ nleft' = nleft + k /\ Pairs' = 1 .. Len(pair) + k
  BY <1>7, <1>13, <1>15
<1>28. \A q \in Pairs' \ Pairs : pair'[q].deg >= d
  BY <1>14
<1>29. QED
  BY <1>13, <1>14, <1>15, <1>16, <1>18, <1>21, <1>22, <1>23, <1>25, <1>26, <1>27, <1>28

\* A degree set is sorted, and handle_pair is called with a pair p of it.
PairReduced(p, l, d) ==
  /\ p \in InSet(next_pair \cup Sorting(l, d), l, d)
  /\ is_sorted' = NowSorted(l, d)
  /\ next_new_pair' = next_new_pair \cup Sorting(l, d)
  /\ next_pair' = (next_pair \cup Sorting(l, d)) \ {p}
  /\ Skip(p) \/ Minimal(p) \/ FillsInNew(p) \/ \E q \in Pairs : FillsIn(p, q)
  /\ UNCHANGED next_gen

\* Two pairs change their types.
LEMMA FillsInEffect ==
  ASSUME TypeOK, NEW p \in Pairs, NEW q \in Pairs, p # q, FillsIn(p, q)
  PROVE  /\ pair' \in Seq(PairRec) /\ Pairs' = Pairs
         /\ \A r \in Pairs : /\ pair'[r].level = pair[r].level /\ pair'[r].deg = pair[r].deg
                             /\ pair'[r].type = IF r = p THEN "NOT_MINIMAL"
                                                ELSE IF r = q THEN "NOT_NEEDED" ELSE pair[r].type
<1> DEFINE u == [pair EXCEPT ![p].type = "NOT_MINIMAL"]
           v == [u EXCEPT ![q].type = "NOT_NEEDED"]
<1>1. pair \in Seq(PairRec) /\ p \in DOMAIN pair /\ q \in DOMAIN pair /\ Pairs = DOMAIN pair
  BY PairFacts DEF Pairs
<1>2. "NOT_MINIMAL" \in Types /\ "NOT_NEEDED" \in Types
  BY DEF Types
<1>3. /\ u \in Seq(PairRec) /\ DOMAIN u = DOMAIN pair
      /\ \A r \in DOMAIN pair : u[r].level = pair[r].level /\ u[r].deg = pair[r].deg
      /\ \A r \in DOMAIN pair : u[r].type = IF r = p THEN "NOT_MINIMAL" ELSE pair[r].type
  <2>1. u = [pair EXCEPT ![p].type = "NOT_MINIMAL"]
    OBVIOUS
  <2>2. pair \in Seq(PairRec) /\ p \in DOMAIN pair /\ "NOT_MINIMAL" \in Types
    BY <1>1, <1>2
  <2> HIDE DEF u
  <2>3. QED
    BY ONLY <2>1, <2>2, Retyped
<1>4. pair' = v
  BY DEF FillsIn
<1>5. /\ v \in Seq(PairRec) /\ DOMAIN v = DOMAIN u
      /\ \A r \in DOMAIN u : v[r].level = u[r].level /\ v[r].deg = u[r].deg
      /\ \A r \in DOMAIN u : v[r].type = IF r = q THEN "NOT_NEEDED" ELSE u[r].type
  <2>1. v = [u EXCEPT ![q].type = "NOT_NEEDED"]
    OBVIOUS
  <2> HIDE DEF u, v
  <2>2. u \in Seq(PairRec) /\ q \in DOMAIN u /\ "NOT_NEEDED" \in Types
    BY <1>1, <1>2, <1>3
  <2>3. QED
    BY ONLY <2>1, <2>2, Retyped
<1> HIDE DEF u, v
<1>6. QED
  BY <1>1, <1>3, <1>4, <1>5 DEF Pairs

\* A pair of level 2 is filled in by a new element of level 1.
LEMMA FillsInNewEffect ==
  ASSUME TypeOK, NEW p \in Pairs, FillsInNew(p)
  PROVE  /\ pair' \in Seq(PairRec) /\ Len(pair) + 1 \notin Pairs /\ Pairs' = Pairs \cup {Len(pair) + 1}
         /\ \A r \in Pairs : /\ pair'[r].level = pair[r].level /\ pair'[r].deg = pair[r].deg
                             /\ pair'[r].type = IF r = p THEN "NOT_MINIMAL" ELSE pair[r].type
         /\ pair'[Len(pair) + 1] = [level |-> 1, deg |-> pair[p].deg + 1, type |-> "NOT_NEEDED"]
         /\ n_level = 2 /\ top' \in [0 .. LengthLimit + 1 -> -1 .. MaxDegree]
         /\ \A k \in 0 .. LengthLimit + 1 : top'[k] >= top[k]
         /\ pair[p].deg + 1 <= top'[1]
<1> DEFINE u == [pair EXCEPT ![p].type = "NOT_MINIMAL"]
           new == [level |-> 1, deg |-> pair[p].deg + 1, type |-> "NOT_NEEDED"]
<1>1. /\ pair \in Seq(PairRec) /\ p \in DOMAIN pair /\ Pairs = DOMAIN pair /\ Len(pair) \in Nat
      /\ Pairs = 1 .. Len(pair) /\ pair[p].deg \in Degrees
  BY PairFacts DEF Pairs
<1>2. "NOT_MINIMAL" \in Types /\ "NOT_NEEDED" \in Types
  BY DEF Types
<1>3. /\ u \in Seq(PairRec) /\ DOMAIN u = DOMAIN pair /\ Len(u) = Len(pair)
      /\ \A r \in DOMAIN pair : u[r].level = pair[r].level /\ u[r].deg = pair[r].deg
      /\ \A r \in DOMAIN pair : u[r].type = IF r = p THEN "NOT_MINIMAL" ELSE pair[r].type
  <2>1. u = [pair EXCEPT ![p].type = "NOT_MINIMAL"]
    OBVIOUS
  <2>2. pair \in Seq(PairRec) /\ p \in DOMAIN pair
    BY <1>1
  <2> HIDE DEF u
  <2>3. /\ u \in Seq(PairRec) /\ DOMAIN u = DOMAIN pair
        /\ \A r \in DOMAIN pair : u[r].level = pair[r].level /\ u[r].deg = pair[r].deg
        /\ \A r \in DOMAIN pair : u[r].type = IF r = p THEN "NOT_MINIMAL" ELSE pair[r].type
    BY ONLY <1>2, <2>1, <2>2, Retyped
  <2>4. Len(u) = Len(pair)
    BY ONLY <1>2, <2>1, <2>2, Retyped
  <2>5. QED
    BY <2>3, <2>4
<1>4. pair' = Append(u, new) /\ pair[p].deg < MaxDegree /\ n_level = 2
      /\ top' = [top EXCEPT ![1] = IF @ > pair[p].deg THEN @ ELSE pair[p].deg + 1]
  BY DEF FillsInNew
<1>5. MaxDegree \in Nat /\ LengthLimit \in Nat /\ LengthLimit >= 1
  BY ResolutionAssumption
<1>6. pair[p].deg + 1 \in Degrees /\ pair[p].deg \in Nat
  BY <1>1, <1>4, <1>5 DEF Degrees
<1>7. new \in PairRec
  BY <1>2, <1>5, <1>6 DEF PairRec, Levels
<1> HIDE DEF u
<1>8. /\ pair' \in Seq(PairRec) /\ Len(pair') = Len(pair) + 1
      /\ \A r \in 1 .. Len(pair) : pair'[r] = u[r]
      /\ pair'[Len(pair) + 1] = new
  <2> DEFINE w == pair'
  <2>1. w = Append(u, new) /\ u \in Seq(PairRec) /\ new \in PairRec
    BY <1>3, <1>4, <1>7
  <2> HIDE DEF new, w
  <2>2. /\ w \in Seq(PairRec) /\ Len(w) = Len(u) + 1
        /\ \A r \in 1 .. Len(u) : w[r] = u[r]
        /\ w[Len(u) + 1] = new
    BY ONLY <2>1, AppendProperties
  <2>3. QED
    BY <1>3, <2>2 DEF w
<1>9. Pairs' = 1 .. Len(pair) + 1
  BY <1>8, LenProperties DEF Pairs
<1>10. Pairs' = Pairs \cup {Len(pair) + 1} /\ Len(pair) + 1 \notin Pairs
  BY <1>1, <1>9
<1>11. \A r \in Pairs : /\ pair'[r].level = pair[r].level /\ pair'[r].deg = pair[r].deg
                        /\ pair'[r].type = IF r = p THEN "NOT_MINIMAL" ELSE pair[r].type
  BY <1>1, <1>3, <1>8
<1>12. /\ top' \in [0 .. LengthLimit + 1 -> -1 .. MaxDegree]
       /\ \A k \in 0 .. LengthLimit + 1 : top'[k] >= top[k]
       /\ pair[p].deg + 1 <= top'[1]
  <2>1. top \in [0 .. LengthLimit + 1 -> -1 .. MaxDegree] /\ 1 \in 0 .. LengthLimit + 1
    BY <1>5 DEF TypeOK
  <2>2. top[1] \in Int /\ pair[p].deg + 1 \in 0 .. MaxDegree
    BY <1>5, <1>6, <2>1 DEF Degrees
  <2>3. PICK t : /\ t = IF top[1] > pair[p].deg THEN top[1] ELSE pair[p].deg + 1
                 /\ top' = [top EXCEPT ![1] = t]
    BY <1>4
  <2>4. t \in -1 .. MaxDegree /\ t >= top[1] /\ pair[p].deg + 1 <= t
    <3>1. top[1] \in -1 .. MaxDegree /\ pair[p].deg \in Int
      BY <1>6, <2>1
    <3>2. pair[p].deg + 1 \in -1 .. MaxDegree
      BY <1>5, <2>2
    <3>3. QED
      BY ONLY <2>3, <3>1, <3>2
  <2>5. /\ top' \in [0 .. LengthLimit + 1 -> -1 .. MaxDegree] /\ top'[1] = t
        /\ \A k \in 0 .. LengthLimit + 1 : k # 1 => top'[k] = top[k]
    BY ONLY <2>1, <2>3, <2>4
  <2>6. \A k \in 0 .. LengthLimit + 1 : top[k] \in Int
    BY ONLY <2>1, <1>5
  <2>7. QED
    BY ONLY <2>4, <2>5, <2>6
<1>13. QED
  BY <1>4, <1>8, <1>10, <1>11, <1>12

\* What handle_pair does to the pairs, in any of its ways.
LEMMA ReducedEffect ==
  ASSUME TypeOK, PairInv, NEW l \in Levels, NEW d \in Nat, NEW p, PairReduced(p, l, d), n_level = l, l > 1
  PROVE  /\ p \in Listed /\ p \in Pairs /\ pair[p].level = l /\ pair[p].deg = d
         /\ pair' \in Seq(PairRec) /\ Pairs \subseteq Pairs'
         /\ \A q \in Pairs : pair'[q].level = pair[q].level /\ pair'[q].deg = pair[q].deg
         /\ pair[p].type \in {"S_PAIR", "NOT_NEEDED"}
         /\ pair'[p].type \in {"NOT_NEEDED", "MINIMAL", "NOT_MINIMAL"}
         /\ \A q \in Pairs : \/ q = p \/ pair'[q].type = pair[q].type
                             \/ /\ q \in Searched /\ pair[q].level = n_level - 1 /\ n_level > 2
                                /\ pair[q].type = "S_PAIR" /\ pair'[q].type = "NOT_NEEDED"
         /\ \A q \in Pairs' \ Pairs : /\ pair'[q].level = 1 /\ pair'[q].deg = d + 1
                                      /\ pair'[q].type = "NOT_NEEDED" /\ n_level = 2
                                      /\ pair'[q].deg <= top'[1]
         /\ top' \in [0 .. LengthLimit + 1 -> -1 .. MaxDegree]
         /\ \A k \in 0 .. LengthLimit + 1 : top'[k] >= top[k]
<1>1. /\ p \in next_pair \cup Sorting(l, d) /\ p \in Pairs
      /\ pair[p].level = l /\ pair[p].deg = d /\ p \in Listed
  <2>1. p \in next_pair \cup Sorting(l, d) /\ pair[p].level = l /\ pair[p].deg = d
    BY DEF PairReduced, InSet
  <2>2. p \in Listed
    BY <2>1, SortFacts
  <2>3. QED
    BY <2>1, <2>2 DEF Listed
<1>2. /\ pair \in Seq(PairRec) /\ top \in [0 .. LengthLimit + 1 -> -1 .. MaxDegree]
      /\ Pairs = DOMAIN pair /\ l \in Int
  BY PairFacts, NumberFacts DEF TypeOK, Pairs
<1>3. pair[p].type \in {"S_PAIR", "NOT_NEEDED"}
  BY <1>1, SortedPairs
<1>4. CASE Skip(p)
  <2>1. pair' = pair /\ top' = top /\ pair[p].type = "NOT_NEEDED" /\ Pairs' = Pairs
    BY <1>4 DEF Skip, NotNeeded, Pairs
  <2>2. \A k \in 0 .. LengthLimit + 1 : top'[k] >= top[k]
    BY <1>2, <2>1
  <2>3. QED
    BY <1>1, <1>2, <1>3, <2>1, <2>2
<1>5. CASE Minimal(p)
  <2>1. pair' = [pair EXCEPT ![p].type = "MINIMAL"] /\ top' = top
    BY <1>5 DEF Minimal
  <2> DEFINE u == pair'
  <2>2. u = [pair EXCEPT ![p].type = "MINIMAL"] /\ pair \in Seq(PairRec) /\ p \in DOMAIN pair
        /\ "MINIMAL" \in Types
    BY <1>1, <1>2, <2>1 DEF Types
  <2> HIDE DEF u
  <2>3. /\ u \in Seq(PairRec) /\ DOMAIN u = DOMAIN pair
        /\ \A q \in DOMAIN pair : u[q].level = pair[q].level /\ u[q].deg = pair[q].deg
        /\ \A q \in DOMAIN pair : u[q].type = IF q = p THEN "MINIMAL" ELSE pair[q].type
    BY ONLY <2>2, Retyped
  <2>4. /\ pair' \in Seq(PairRec) /\ Pairs' = Pairs
        /\ \A q \in Pairs : pair'[q].level = pair[q].level /\ pair'[q].deg = pair[q].deg
        /\ \A q \in Pairs : pair'[q].type = IF q = p THEN "MINIMAL" ELSE pair[q].type
    BY <1>2, <2>3 DEF Pairs, u
  <2>5. \A k \in 0 .. LengthLimit + 1 : top'[k] >= top[k]
    BY <1>2, <2>1
  <2>6. QED
    BY <1>1, <1>2, <1>3, <2>1, <2>4, <2>5
<1>6. CASE FillsInNew(p)
  <2>1. /\ pair' \in Seq(PairRec) /\ Pairs' = Pairs \cup {Len(pair) + 1}
        /\ \A r \in Pairs : /\ pair'[r].level = pair[r].level /\ pair'[r].deg = pair[r].deg
                            /\ pair'[r].type = IF r = p THEN "NOT_MINIMAL" ELSE pair[r].type
        /\ pair'[Len(pair) + 1] = [level |-> 1, deg |-> pair[p].deg + 1, type |-> "NOT_NEEDED"]
        /\ n_level = 2 /\ top' \in [0 .. LengthLimit + 1 -> -1 .. MaxDegree]
        /\ \A k \in 0 .. LengthLimit + 1 : top'[k] >= top[k]
        /\ pair[p].deg + 1 <= top'[1]
    BY <1>1, <1>6, FillsInNewEffect
  <2>2. \A q \in Pairs' \ Pairs : /\ pair'[q].level = 1 /\ pair'[q].deg = d + 1
                                  /\ pair'[q].type = "NOT_NEEDED" /\ n_level = 2
                                  /\ pair'[q].deg <= top'[1]
    <3>1. TAKE q \in Pairs' \ Pairs
    <3>2. q = Len(pair) + 1
      BY <2>1
    <3>3. pair'[q] = [level |-> 1, deg |-> d + 1, type |-> "NOT_NEEDED"]
      BY <1>1, <2>1, <3>2
    <3>4. QED
      BY <1>1, <2>1, <3>3
  <2>3. QED
    BY <1>1, <1>3, <2>1, <2>2
<1>7. ASSUME NEW q \in Pairs, FillsIn(p, q)
      PROVE  /\ pair' \in Seq(PairRec) /\ Pairs' = Pairs /\ top' = top
             /\ \A r \in Pairs : pair'[r].level = pair[r].level /\ pair'[r].deg = pair[r].deg
             /\ pair'[p].type = "NOT_MINIMAL"
             /\ \A r \in Pairs : \/ r = p \/ pair'[r].type = pair[r].type
                                 \/ /\ r \in Searched /\ pair[r].level = n_level - 1 /\ n_level > 2
                                    /\ pair[r].type = "S_PAIR" /\ pair'[r].type = "NOT_NEEDED"
  <2>1. /\ q \in Searched /\ pair[q].level = n_level - 1 /\ pair[q].type = "S_PAIR" /\ n_level > 2
        /\ top' = top
    BY <1>7 DEF FillsIn
  <2>2. p # q
    BY <1>1, <1>2, <2>1
  <2>3. /\ pair' \in Seq(PairRec) /\ Pairs' = Pairs
        /\ \A r \in Pairs : /\ pair'[r].level = pair[r].level /\ pair'[r].deg = pair[r].deg
                            /\ pair'[r].type = IF r = p THEN "NOT_MINIMAL"
                                               ELSE IF r = q THEN "NOT_NEEDED" ELSE pair[r].type
    BY <1>1, <1>7, <2>2, FillsInEffect
  <2>4. QED
    BY <1>1, <2>1, <2>3
<1>8. CASE \E q \in Pairs : FillsIn(p, q)
  <2>1. PICK q \in Pairs : FillsIn(p, q)
    BY <1>8
  <2>2. top' = top /\ Pairs' = Pairs
    BY <1>7, <2>1
  <2>3. \A k \in 0 .. LengthLimit + 1 : top'[k] >= top[k]
    BY <1>2, <2>2
  <2>4. QED
    BY <1>1, <1>2, <1>3, <1>7, <2>1, <2>2, <2>3
<1>9. QED
  BY <1>4, <1>5, <1>6, <1>8 DEF PairReduced

\* What it fills in is new in level 1 only, one degree above.
LEMMA ReducedNew ==
  ASSUME TypeOK, PairInv, NEW l \in Levels, NEW d \in Nat, NEW p, PairReduced(p, l, d), n_level = l, l > 1
  PROVE  \A q \in Pairs' \ Pairs : pair'[q].level = 1 /\ pair'[q].deg = d + 1 /\ n_level = 2
<1>1. \A q \in Pairs' \ Pairs : /\ pair'[q].level = 1 /\ pair'[q].deg = d + 1
                                 /\ pair'[q].type = "NOT_NEEDED" /\ n_level = 2
                                 /\ pair'[q].deg <= top'[1]
  BY ReducedEffect
<1>2. QED
  BY <1>1

\* handle_pair handles its pair and no other of level 2 or above, and lists no pair but new ones.
LEMMA PairReducedKeeps ==
  ASSUME TypeOK, PairInv, NEW l \in Levels, NEW d \in Nat, NEW p, PairReduced(p, l, d), n_level = l, l > 1,
         n_level = 2 => <<1, d + 1>> \notin is_sorted
  PROVE  /\ ListsTyped' /\ PairInv' /\ Forward
         /\ Listed' \ Listed = Pairs' \ Pairs /\ Searched' = Searched
         /\ \A q \in Pairs : pair[q].level > 1 => (Handled(q)' <=> Handled(q) \/ q = p)
         /\ ~Handled(p)
<1>1. PICK NS, NN, NP : /\ NS = NowSorted(l, d) /\ NN = next_new_pair \cup Sorting(l, d)
                        /\ NP = next_pair \cup Sorting(l, d)
  OBVIOUS
<1>2. /\ is_sorted' = NS /\ next_new_pair' = NN /\ next_pair' = NP \ {p} /\ next_gen' = next_gen
      /\ p \in NP
  BY <1>1 DEF PairReduced, InSet
<1>3. /\ is_sorted \subseteq NS /\ NS \subseteq Levels \X Degrees
      /\ \A x \in NS \ is_sorted : x = <<l, d>>
      /\ \A q \in NN \cup NP : q \in Listed /\ SetOf(q) \in NS
  BY <1>1, SortFacts
<1>4. /\ \A q \in Pairs : pair[q].level > 1 /\ SetOf(q) \notin NS => pair[q].type = "S_PAIR"
      /\ \A q \in NP : pair[q].level > 1 => pair[q].type \in {"S_PAIR", "NOT_NEEDED"}
      /\ \A q \in Pairs : pair[q].type = "S_PAIR" /\ SetOf(q) \in NS => q \in NP
      /\ \A q \in Listed : q \in Searched <=> SetOf(q) \in NS /\ q \notin NN
      /\ \A q \in Listed : Handled(q) <=> SetOf(q) \in NS /\ q \notin NP
      /\ \A q \in Pairs : Handled(q) => SetOf(q) \in NS /\ q \notin NP
  BY <1>1, SortedPairs
<1>5. /\ p \in Listed /\ p \in Pairs /\ pair[p].level = l /\ pair[p].deg = d
      /\ pair' \in Seq(PairRec) /\ Pairs \subseteq Pairs'
      /\ \A q \in Pairs : pair'[q].level = pair[q].level /\ pair'[q].deg = pair[q].deg
      /\ pair[p].type \in {"S_PAIR", "NOT_NEEDED"}
      /\ pair'[p].type \in {"NOT_NEEDED", "MINIMAL", "NOT_MINIMAL"}
      /\ \A q \in Pairs : \/ q = p \/ pair'[q].type = pair[q].type
                          \/ /\ q \in Searched /\ pair[q].level = n_level - 1 /\ n_level > 2
                             /\ pair[q].type = "S_PAIR" /\ pair'[q].type = "NOT_NEEDED"
      /\ \A q \in Pairs' \ Pairs : /\ pair'[q].level = 1 /\ pair'[q].deg = d + 1
                                   /\ pair'[q].type = "NOT_NEEDED" /\ n_level = 2
                                   /\ pair'[q].deg <= top'[1]
      /\ top' \in [0 .. LengthLimit + 1 -> -1 .. MaxDegree]
      /\ \A k \in 0 .. LengthLimit + 1 : top'[k] >= top[k]
  BY ReducedEffect
<1>6. Listed \subseteq Listed' /\ Listed' \ Listed = Pairs' \ Pairs
  <2>1. \A q \in Listed : q \in Listed'
    BY <1>5 DEF Listed
  <2>2. \A q \in Pairs' \ Pairs : q \in Listed' /\ q \notin Listed
    BY <1>5 DEF Listed
  <2>3. \A q \in Listed' \ Listed : q \in Pairs' \ Pairs
    <3>1. SUFFICES ASSUME NEW q \in Listed', q \in Pairs, q \notin Listed PROVE FALSE
      BY DEF Listed
    <3>2. q # p /\ pair[q].type # "S_PAIR"
      BY <1>5, <3>1 DEF Listed
    <3>3. pair'[q].type = pair[q].type
      BY <1>5, <3>1, <3>2
    <3>4. QED
      BY <3>1, <3>3 DEF Listed
  <2>4. QED
    BY <2>1, <2>2, <2>3
<1>7. \A q \in Pairs' \ Pairs : <<pair'[q].level, pair'[q].deg>> \notin NS
  <2>1. SUFFICES ASSUME NEW q \in Pairs' \ Pairs, <<pair'[q].level, pair'[q].deg>> \in NS PROVE FALSE
    OBVIOUS
  <2>2. <<1, d + 1>> \in NS /\ <<1, d + 1>> \notin is_sorted
    BY <1>5, <2>1
  <2>3. <<1, d + 1>> = <<l, d>>
    BY <1>3, <2>2
  <2>4. QED
    BY <2>3
<1>8. Searched' = Searched
  <2>1. \A q \in Listed : q \in Searched' <=> SetOf(q) \in NS /\ q \notin NN
    BY <1>2, <1>5, <1>6 DEF Searched, SetOf, Listed
  <2>2. \A q \in Searched' : q \in Listed' /\ <<pair'[q].level, pair'[q].deg>> \in NS
    BY <1>2 DEF Searched
  <2>3. \A q \in Searched' : q \in Listed
    BY <1>6, <1>7, <2>2
  <2>4. \A q \in Searched : q \in Listed
    BY DEF Searched
  <2>5. QED
    BY <1>4, <2>1, <2>3, <2>4
<1>9. \A q \in Pairs : pair'[q].type = "GEN" <=> pair[q].type = "GEN"
  BY <1>5
<1>10. \A q \in Pairs : Handled(q)' <=> pair[q].type # "GEN" /\ SetOf(q) \in NS /\ q \notin NP \ {p}
  BY <1>2, <1>5, <1>9 DEF Handled, SetOf
<1>11. \A q \in Pairs : Handled(q) => Handled(q)'
  <2>1. \A q \in Pairs : Handled(q) => pair[q].type # "GEN"
    BY DEF Handled
  <2>2. QED
    BY <1>4, <1>10, <2>1
<1>12. \A q \in Pairs : pair[q].level > 1 => (Handled(q)' <=> Handled(q) \/ q = p)
  <2>1. SUFFICES ASSUME NEW q \in Pairs, pair[q].level > 1 PROVE Handled(q)' <=> Handled(q) \/ q = p
    OBVIOUS
  <2>2. q \in Listed /\ pair[q].type # "GEN"
    BY <2>1 DEF PairInv, Listed
  <2>3. SetOf(p) \in NS
    BY <1>2, <1>3
  <2>4. QED
    BY <1>4, <1>10, <2>2, <2>3
<1>13. ~Handled(p)
  BY <1>2, <1>4, <1>5
<1>14. Forward
  BY <1>2, <1>3, <1>5, <1>6, <1>8, <1>9, <1>11 DEF Forward
<1>15. ListsTyped'
  <2>1. next_gen \subseteq Pairs
    BY DEF TypeOK
  <2>2. QED
    BY <1>2, <1>3, <1>5, <1>6, <2>1 DEF ListsTyped
<1>16. PairInv'
  <2>1. top'[0] >= 0 /\ \A q \in Pairs' : pair'[q].deg <= top'[pair'[q].level]
    <3>1. top'[0] >= 0
      <4>1. 0 \in 0 .. LengthLimit + 1 /\ top[0] \in Int /\ top'[0] \in Int
        BY <1>5, ResolutionAssumption DEF TypeOK
      <4>2. QED
        BY <1>5, <4>1 DEF PairInv
    <3>2. ASSUME NEW q \in Pairs PROVE pair'[q].deg <= top'[pair'[q].level]
      <4>1. pair[q].level \in 0 .. LengthLimit + 1 /\ pair[q].deg \in Int
        BY PairFacts, NumberFacts DEF Levels
      <4>2. pair[q].deg <= top[pair[q].level] /\ top[pair[q].level] \in Int
        BY <4>1 DEF PairInv, TypeOK
      <4>3. top'[pair[q].level] >= top[pair[q].level] /\ top'[pair[q].level] \in Int
        BY <1>5, <4>1
      <4>4. pair[q].deg <= top'[pair[q].level]
        BY <4>1, <4>2, <4>3
      <4>5. QED
        BY <1>5, <4>4
    <3>3. \A q \in Pairs' \ Pairs : pair'[q].deg <= top'[pair'[q].level]
      BY <1>5
    <3>4. QED
      BY <3>1, <3>2, <3>3
  <2>2. next_gen' = {q \in Pairs' : pair'[q].type = "GEN"}
    <3>1. next_gen = {q \in Pairs : pair[q].type = "GEN"}
      BY DEF PairInv
    <3>2. \A q \in Pairs' \ Pairs : pair'[q].type # "GEN"
      BY <1>5
    <3>3. QED
      BY <1>2, <1>5, <1>9, <3>1, <3>2
  <2>3. \A q \in next_new_pair' \cup next_pair' :
          q \in Listed' /\ <<pair'[q].level, pair'[q].deg>> \in is_sorted'
    BY <1>2, <1>3, <1>5, <1>6 DEF SetOf, Listed
  <2>4. ASSUME NEW q \in Pairs' PROVE
       /\ pair'[q].level = 1 => pair'[q].type \in {"GEN", "REMOVED", "MINIMAL", "NOT_NEEDED"}
       /\ pair'[q].level > 1 => pair'[q].type \notin {"GEN", "REMOVED"}
       /\ pair'[q].level > 1 /\ <<pair'[q].level, pair'[q].deg>> \notin is_sorted' => pair'[q].type = "S_PAIR"
       /\ pair'[q].level > 1 /\ q \in next_pair' => pair'[q].type \in {"S_PAIR", "NOT_NEEDED"}
       /\ pair'[q].type = "S_PAIR" /\ <<pair'[q].level, pair'[q].deg>> \in is_sorted' => q \in next_pair'
    <3>1. CASE q \notin Pairs
      BY <1>5, <3>1
    <3>2. CASE q = p
      <4>1. SetOf(p) \in NS
        BY <1>2, <1>3
      <4>2. QED
        BY <1>2, <1>5, <3>2, <4>1 DEF SetOf
    <3>3. CASE q \in Pairs /\ q # p /\ pair'[q].type = pair[q].type
      <4>1. pair'[q].level = pair[q].level /\ pair'[q].deg = pair[q].deg /\ (q \in next_pair' <=> q \in NP)
        BY <1>2, <1>5, <3>3
      <4>2. /\ pair[q].level = 1 => pair[q].type \in {"GEN", "REMOVED", "MINIMAL", "NOT_NEEDED"}
            /\ pair[q].level > 1 => pair[q].type \notin {"GEN", "REMOVED"}
        BY <3>3 DEF PairInv
      <4>3. /\ pair[q].level > 1 /\ <<pair[q].level, pair[q].deg>> \notin NS => pair[q].type = "S_PAIR"
            /\ pair[q].level > 1 /\ q \in NP => pair[q].type \in {"S_PAIR", "NOT_NEEDED"}
            /\ pair[q].type = "S_PAIR" /\ <<pair[q].level, pair[q].deg>> \in NS => q \in NP
        BY <1>4, <3>3 DEF SetOf
      <4>4. QED
        BY <1>2, <3>3, <4>1, <4>2, <4>3
    <3>4. CASE q \in Pairs /\ q # p /\ q \in Searched /\ pair[q].level = n_level - 1 /\ n_level > 2
               /\ pair'[q].type = "NOT_NEEDED"
      <4>1. SetOf(q) \in NS
        <5>1. q \in Listed
          BY <3>4 DEF Searched
        <5>2. QED
          BY <1>4, <3>4, <5>1
      <4>2. n_level - 1 > 1
        BY <3>4, NumberFacts
      <4>3. QED
        BY <1>2, <1>5, <3>4, <4>1, <4>2 DEF SetOf
    <3>5. QED
      BY <1>5, <3>1, <3>2, <3>3, <3>4
  <2>5. QED
    BY <2>1, <2>2, <2>3, <2>4 DEF PairInv, IsSorted
<1>17. QED
  BY <1>6, <1>8, <1>12, <1>13, <1>14, <1>15, <1>16

-----------------------------------------------------------------------------
(* The claims, the frame and the order together.                            *)

Ordered ==
  \A p \in Searched, q \in Listed :
    pair[q].level = pair[p].level /\ pair[q].deg < pair[p].deg => q \in Searched

Core == TypeOK /\ PositionInv /\ PairInv /\ Claims /\ Ordered

\* Within a level pairs are searched degree after degree.
LEMMA OrderKept ==
  ASSUME TypeOK, TypeOK', Ordered, Forward, Unclaimed,
         \A p \in Searched' \ Searched : p \in Listed /\ SearchedThrough(pair[p].level, pair[p].deg - 1)
  PROVE  Ordered'
<1>1. SUFFICES ASSUME NEW p \in Searched', NEW q \in Listed',
                      pair'[q].level = pair'[p].level, pair'[q].deg < pair'[p].deg
               PROVE  q \in Searched'
  BY DEF Ordered
<1>2. p \in Listed' /\ <<pair'[p].level, pair'[p].deg>> \in is_sorted'
  BY DEF Searched
<1>3. Degrees \subseteq Nat
  BY NumberFacts
<1>4. /\ pair'[p].deg \in Degrees /\ pair'[q].deg \in Degrees
      /\ pair'[p].deg \in Nat /\ pair'[q].deg \in Nat
  <2>1. p \in Pairs' /\ q \in Pairs'
    BY <1>2 DEF Listed
  <2>2. pair'[p].deg \in Degrees /\ pair'[q].deg \in Degrees
    BY <2>1, TypedNext DEF PairsTyped
  <2>3. QED
    BY <1>3, <2>2
<1>5. q \in Listed
  <2>1. SUFFICES ASSUME q \notin Listed PROVE FALSE
    OBVIOUS
  <2>2. <<pair'[q].level, pair'[p].deg>> \in is_sorted'
    BY <1>1, <1>2
  <2>3. pair'[p].deg < pair'[q].deg
    BY <1>4, <2>1, <2>2 DEF Unclaimed
  <2>4. QED
    BY <1>1, <1>3, <1>4, <2>3
<1>6. p \in Listed
  BY DEF Searched
<1>7. p \in Pairs /\ q \in Pairs
  BY <1>5, <1>6 DEF Listed
<1>8. pair[q].level = pair[p].level /\ pair[q].deg < pair[p].deg
  BY <1>1, <1>7 DEF Forward
<1>9. q \in Searched
  <2>1. CASE p \in Searched
    BY <1>5, <1>8, <2>1 DEF Ordered
  <2>2. CASE p \notin Searched
    <3>1. SearchedThrough(pair[p].level, pair[p].deg - 1)
      BY <2>2
    <3>2. pair[q].deg <= pair[p].deg - 1
      <4>1. pair[p].deg \in Nat /\ pair[q].deg \in Nat
        BY <1>3, <1>7, TypedPairs DEF PairsTyped
      <4>2. QED
        BY <1>8, <4>1
    <3>3. QED
      BY <1>5, <1>8, <3>1, <3>2 DEF SearchedThrough
  <2>3. QED
    BY <2>1, <2>2
<1>10. QED
  BY <1>9 DEF Forward

\* The types of the lists and of the position make the type invariant.
LEMMA TypesAgain ==
  ASSUME TypeOK, ListsTyped', n_level' \in 2 .. LengthLimit + 2, n_degree' \in 0 .. MaxDegree + 1
  PROVE  TypeOK'
BY DEF TypeOK, ListsTyped, PairRec, Types

\* A step that stays where it is, or returns.
LEMMA StayCore ==
  ASSUME Core, ListsTyped', PairInv', Forward, Unclaimed, SortsRight,
         UNCHANGED <<n_level, n_degree, length_limit>>, pc' \in {pc, "idle"},
         pc' # "idle" => status' = "COMPUTING", npairs' \in Nat,
         \A p \in Searched' \ Searched : p \in Listed /\ SearchedThrough(pair[p].level, pair[p].deg - 1)
  PROVE  Core'
<1>1. n_level' = n_level /\ n_degree' = n_degree /\ length_limit' = length_limit
  OBVIOUS
<1>2. TypeOK /\ PositionInv /\ PairInv /\ Claims /\ Ordered
  BY DEF Core
<1>3. TypeOK'
  <2>1. n_level \in 2 .. LengthLimit + 2 /\ n_degree \in 0 .. MaxDegree + 1
    BY <1>2 DEF TypeOK
  <2>2. QED
    BY <1>1, <1>2, <2>1, TypesAgain
<1>4. Claims'
  BY <1>2, <1>3, StayKeeps
<1>5. Ordered'
  BY <1>2, <1>3, OrderKept
<1>6. PositionInv'
  BY <1>1, <1>2 DEF PositionInv, InLoop
<1>7. QED
  BY <1>3, <1>4, <1>5, <1>6 DEF Core

\* What a step that lists nothing and goes to another place in the same degree has to claim there.
Arrives ==
  /\ pc' \notin {"idle", "gens0"} => GensThrough(n_degree)'
  /\ n_level' > 2 \/ pc' = "pairs" => GensThrough(n_degree + 1)'
  /\ n_level' = n_level + 1 => SearchedThrough(n_level - 2, n_degree + 1)' /\ HandledThrough(n_level - 1, n_degree)'
  /\ pc' = "reductions" => SearchedThrough(n_level - 1, n_degree + 1)'
  /\ pc' = "pairsBelowNext" => SearchedThrough(n_level - 1, n_degree)'
  /\ InLoop' => SearchedThrough(1, n_degree)'
  /\ pc' \in {"gens", "pairs"} => HandledThrough(2, n_degree)'

\* The levels below the next one.
LEMMA LevelsBelow ==
  ASSUME NEW l \in Int, NEW next \in Int, NEW n \in Int, next \in {n, n + 1}
  PROVE  /\ l < next => l < n \/ (next = n + 1 /\ l = next - 1)
         /\ l < next - 1 => l < n - 1 \/ (next = n + 1 /\ l = next - 2)
OBVIOUS

\* The same for the limit of the levels.
LEMMA LimitBelow ==
  ASSUME NEW l \in Int, NEW next \in Int, NEW n \in Int, next <= n, l <= next + 1
  PROVE  l <= n + 1
OBVIOUS

\* It keeps all it can, if it arrives where it may.
LEMMA QuietCore ==
  ASSUME Core, ListsTyped', PairInv', Forward, Listed' = Listed, Searched' \subseteq Searched, SortsRight,
         n_degree' = n_degree, n_level' \in {n_level, n_level + 1}, n_level' <= LengthLimit + 2,
         length_limit' <= length_limit, PositionInv', Arrives
  PROVE  Core'
<1>1. TypeOK /\ PositionInv /\ PairInv /\ Claims /\ Ordered
  BY DEF Core
<1>2. /\ n_level \in Int /\ n_level >= 2 /\ n_degree \in Nat /\ LengthLimit \in Nat
      /\ Levels \subseteq Nat /\ Degrees \subseteq Nat /\ MaxDegree \in Nat
      /\ length_limit \in Int /\ length_limit' \in Int
  BY <1>1, NumberFacts DEF PositionInv
<1>a. /\ length_limit' <= length_limit /\ (n_level' = n_level \/ n_level' = n_level + 1)
      /\ n_level' \in Int /\ n_level \in Int /\ length_limit \in Int /\ length_limit' \in Int
  BY <1>2
<1>3. TypeOK'
  <2>1. n_level' \in 2 .. LengthLimit + 2 /\ n_degree' \in 0 .. MaxDegree + 1
    BY <1>1, <1>2 DEF TypeOK
  <2>2. QED
    BY <1>1, <2>1, TypesAgain
<1>4. /\ \A d \in Int : GensThrough(d) => GensThrough(d)'
      /\ \A l, d \in Int : SearchedThrough(l, d) => SearchedThrough(l, d)'
      /\ \A l, d \in Int : HandledThrough(l, d) => HandledThrough(l, d)'
  BY <1>1, QuietKeeps
<1>5. SortedInv' /\ (is_sorted' # {} => GensThrough(0)')
  <2>1. n_degree' = n_degree /\ n_level' >= n_level
    BY <1>2
  <2>2. QED
    BY <1>1, <1>3, <2>1, QuietSorted
<1>6. n_degree \in Int /\ n_degree + 1 \in Int /\ n_degree - 1 \in Int
  BY <1>2
<1>7. GensInv'
  <2>1. n_degree > 0 => GensThrough(n_degree)'
    BY <1>1, <1>4, <1>6 DEF Claims, GensInv
  <2>2. QED
    BY <1>5, <2>1 DEF GensInv, Arrives
<1>8. SearchedInv'
  <2>1. SUFFICES ASSUME NEW l \in Levels, l = 1 \/ l <= length_limit'
                 PROVE  /\ l < n_level' - 1 \/ (l = n_level' - 1 /\ pc' = "reductions")
                             => SearchedThrough(l, n_degree + 1)'
                        /\ (\/ n_degree > 0 \/ (l = n_level' - 1 /\ pc' = "pairsBelowNext")
                            \/ (l = 1 /\ InLoop'))
                             => SearchedThrough(l, n_degree)'
    BY DEF SearchedInv
  <2>2. l \in Int /\ (l = 1 \/ l <= length_limit)
    BY <1>2, <2>1
  <2>3. /\ l < n_level - 1 => SearchedThrough(l, n_degree + 1)'
        /\ n_degree > 0 => SearchedThrough(l, n_degree)'
    BY <1>1, <1>4, <1>6, <2>2 DEF Claims, SearchedInv
  <2>4. ASSUME l < n_level' - 1 PROVE SearchedThrough(l, n_degree + 1)'
    <3>1. l < n_level - 1 \/ (n_level' = n_level + 1 /\ l = n_level' - 2)
      BY <1>a, <2>2, <2>4, LevelsBelow
    <3>2. n_level' = n_level + 1 => SearchedThrough(n_level - 2, n_degree + 1)'
      BY DEF Arrives
    <3>3. QED
      BY <2>3, <3>1, <3>2
  <2>5. ASSUME l = n_level' - 1, pc' = "reductions" PROVE SearchedThrough(l, n_degree + 1)'
    BY <2>5 DEF Arrives
  <2>6. ASSUME l = n_level' - 1, pc' = "pairsBelowNext" PROVE SearchedThrough(l, n_degree)'
    BY <2>6 DEF Arrives
  <2>7. ASSUME l = 1, InLoop' PROVE SearchedThrough(l, n_degree)'
    BY <2>7 DEF Arrives
  <2>8. QED
    BY <2>3, <2>4, <2>5, <2>6, <2>7
<1>9. HandledInv'
  <2>1. SUFFICES ASSUME NEW l \in Levels, l = 2 \/ (l > 2 /\ l <= length_limit' + 1)
                 PROVE  /\ HandledThrough(l, n_degree - 1)'
                        /\ l < n_level' => HandledThrough(l, n_degree)'
                        /\ l = 2 /\ (pc' \in {"gens", "pairs"} \/ <<1, n_degree + 1>> \in is_sorted')
                             => HandledThrough(2, n_degree)'
    BY DEF HandledInv, IsSorted
  <2>2. l \in Int /\ (l = 2 \/ (l > 2 /\ l <= length_limit + 1))
    <3>1. l \in Int
      BY <1>2
    <3>2. QED
      BY <1>a, <2>1, <3>1, LimitBelow
  <2>3. /\ HandledThrough(l, n_degree - 1)
        /\ l < n_level => HandledThrough(l, n_degree)
        /\ l = 2 /\ <<1, n_degree + 1>> \in is_sorted => HandledThrough(2, n_degree)
    BY <1>1, <2>2 DEF Claims, HandledInv, IsSorted
  <2>4. /\ HandledThrough(l, n_degree - 1)'
        /\ l < n_level => HandledThrough(l, n_degree)'
        /\ l = 2 /\ <<1, n_degree + 1>> \in is_sorted => HandledThrough(2, n_degree)'
    BY <1>4, <1>6, <2>2, <2>3
  <2>5. l < n_level' => HandledThrough(l, n_degree)'
    <3>1. SUFFICES ASSUME l < n_level' PROVE HandledThrough(l, n_degree)'
      OBVIOUS
    <3>2. l < n_level \/ (n_level' = n_level + 1 /\ l = n_level' - 1)
      BY <1>a, <2>2, <3>1, LevelsBelow
    <3>3. n_level' = n_level + 1 => HandledThrough(n_level - 1, n_degree)'
      BY DEF Arrives
    <3>4. QED
      BY <2>4, <3>2, <3>3
  <2>6. pc' \in {"gens", "pairs"} => HandledThrough(2, n_degree)'
    BY DEF Arrives
  <2>7. <<1, n_degree + 1>> \in is_sorted' \ is_sorted => HandledThrough(2, n_degree)'
    <3>1. SUFFICES ASSUME <<1, n_degree + 1>> \in is_sorted' \ is_sorted PROVE HandledThrough(2, n_degree)'
      OBVIOUS
    <3>2. 1 \in Levels /\ n_degree + 1 \in Degrees
      BY <1>3, <3>1 DEF TypeOK
    <3>3. Sortable(1, n_degree + 1)
      BY <3>1, <3>2 DEF SortsRight
    <3>4. HandledThrough(2, n_degree)
      BY <3>3 DEF Sortable
    <3>5. QED
      BY <1>4, <1>6, <3>4
  <2>8. QED
    BY <2>4, <2>5, <2>6, <2>7
<1>10. Ordered'
  <2>1. \A p \in Listed, q \in Listed : p \in Pairs /\ q \in Pairs
    BY DEF Listed
  <2>2. \A p \in Searched' : p \in Searched /\ p \in Listed
    BY DEF Searched
  <2>3. \A p \in Listed : pair'[p].level = pair[p].level /\ pair'[p].deg = pair[p].deg
    BY <2>1 DEF Forward
  <2>4. \A p \in Searched : p \in Searched'
    BY DEF Forward
  <2>5. QED
    BY <1>1, <2>2, <2>3, <2>4 DEF Ordered
<1>11. QED
  BY <1>1, <1>3, <1>5, <1>7, <1>8, <1>9, <1>10 DEF Core, Claims

\* A step that leaves the lists alone goes forward, and sorts nothing.
LEMMA UnchangedLists ==
  ASSUME TypeOK, PairInv, UNCHANGED lists
  PROVE  /\ ListsTyped' /\ PairInv' /\ Forward /\ SortsRight /\ Pairs' = Pairs
         /\ Listed' = Listed /\ Searched' = Searched
<1>1. /\ pair' = pair /\ top' = top /\ is_sorted' = is_sorted /\ next_gen' = next_gen
      /\ next_new_pair' = next_new_pair /\ next_pair' = next_pair
  BY DEF lists
<1>2. Pairs' = Pairs
  BY <1>1 DEF Pairs
<1>3. Listed' = Listed
  BY <1>1, <1>2 DEF Listed
<1>4. Searched' = Searched
  BY <1>1, <1>3 DEF Searched
<1>5. ListsTyped'
  BY <1>1, <1>2, <1>3 DEF ListsTyped, TypeOK, PairRec, Types
<1>6. PairInv'
  BY <1>1, <1>2, <1>3 DEF PairInv, IsSorted
<1>7. Forward
  BY <1>1, <1>2, <1>3, <1>4 DEF Forward, Handled
<1>8. SortsRight
  BY <1>1 DEF SortsRight
<1>9. QED
  BY <1>2, <1>3, <1>4, <1>5, <1>6, <1>7, <1>8

-----------------------------------------------------------------------------
(* When the loops of gens, pairs and reductions have nothing left.          *)

\* gens has come to its end in a degree: the generators are handled through it.
LEMMA GensDone ==
  ASSUME TypeOK, PairInv, NEW d \in Nat, d = 0 \/ GensThrough(d - 1), InSet(next_gen, 1, d) = {}
  PROVE  GensThrough(d)
<1>1. SUFFICES ASSUME NEW p \in Pairs, pair[p].type = "GEN" PROVE pair[p].deg > d
  BY DEF GensThrough
<1>2. pair[p].level \in Nat /\ pair[p].level >= 1 /\ pair[p].deg \in Nat
  BY PairFacts, NumberFacts DEF Levels
<1>3. pair[p].level = 1 /\ p \in next_gen
  BY <1>1, <1>2 DEF PairInv
<1>4. pair[p].deg # d
  BY <1>3 DEF InSet
<1>5. d = 0 \/ pair[p].deg > d - 1
  BY <1>1 DEF GensThrough
<1>6. QED
  BY <1>2, <1>4, <1>5

\* pairs has come to its end in a level and degree: new_pairs was called through it.
LEMMA SearchedDone ==
  ASSUME TypeOK, PairInv, NEW l \in Levels, NEW d \in Nat, d = 0 \/ SearchedThrough(l, d - 1),
         InSet(next_new_pair \cup Sorting(l, d), l, d) = {}
  PROVE  SearchedThrough(l, d)
<1>1. SUFFICES ASSUME NEW p \in Listed, pair[p].level = l, pair[p].deg <= d PROVE p \in Searched
  BY DEF SearchedThrough
<1>2. pair[p].deg \in Nat
  BY PairFacts, NumberFacts DEF Listed
<1>3. CASE pair[p].deg = d
  <2>1. p \notin next_new_pair \cup Sorting(l, d)
    BY <1>1, <1>3 DEF InSet
  <2>2. SetOf(p) \in is_sorted
    BY <1>1, <1>3, <2>1, SortFacts DEF SetOf
  <2>3. QED
    BY <2>1, <2>2 DEF Searched, SetOf
<1>4. CASE pair[p].deg # d
  <2>1. d # 0 /\ pair[p].deg <= d - 1
    BY <1>1, <1>2, <1>4
  <2>2. QED
    BY <1>1, <2>1 DEF SearchedThrough
<1>5. QED
  BY <1>3, <1>4

\* reductions has come to its end in a level and degree: handle_pair was called through it.
LEMMA HandledDone ==
  ASSUME TypeOK, PairInv, NEW l \in Levels, l > 1, NEW d \in Nat, HandledThrough(l, d - 1),
         InSet(next_pair \cup Sorting(l, d), l, d) = {}
  PROVE  HandledThrough(l, d)
<1>1. SUFFICES ASSUME NEW p \in Pairs, pair[p].level = l, pair[p].deg <= d PROVE Handled(p)
  BY DEF HandledThrough
<1>2. pair[p].deg \in Nat
  BY PairFacts, NumberFacts
<1>3. CASE pair[p].deg = d
  <2>1. p \notin next_pair \cup Sorting(l, d)
    BY <1>1, <1>3 DEF InSet
  <2>2. p \in Listed /\ pair[p].type # "GEN"
    BY <1>1 DEF PairInv, Listed
  <2>3. SetOf(p) \in is_sorted
    BY <1>1, <1>3, <2>1, <2>2, SortFacts DEF SetOf
  <2>4. QED
    BY <2>1, <2>2, <2>3 DEF Handled, SetOf
<1>4. CASE pair[p].deg # d
  <2>1. pair[p].deg <= d - 1
    BY <1>1, <1>2, <1>4
  <2>2. QED
    BY <1>1, <2>1 DEF HandledThrough
<1>5. QED
  BY <1>3, <1>4

\* What is left where a loop has something to do.
LEMMA GenLeft ==
  ASSUME TypeOK, PairInv, NEW d \in Nat, NEW p \in InSet(next_gen, 1, d)
  PROVE  \A k \in Int : GensThrough(k) => k < d
<1>1. p \in Pairs /\ pair[p].type = "GEN" /\ pair[p].deg = d
  BY DEF InSet, PairInv
<1>2. SUFFICES ASSUME NEW k \in Int, GensThrough(k) PROVE k < d
  OBVIOUS
<1>3. d > k
  BY <1>1, <1>2 DEF GensThrough
<1>4. QED
  BY <1>3

\* While new_pairs still has a pair to be called with, nobody claims that it was.
LEMMA PairLeft ==
  ASSUME TypeOK, PairInv, NEW l \in Levels, NEW d \in Nat,
         NEW p \in InSet(next_new_pair \cup Sorting(l, d), l, d)
  PROVE  p \in Listed /\ \A k \in Int : SearchedThrough(l, k) => k < d
<1>1. pair[p].level = l /\ pair[p].deg = d /\ p \in next_new_pair \cup Sorting(l, d)
  BY DEF InSet
<1>2. p \in Listed /\ p \notin Searched
  BY <1>1, SortFacts, SortedPairs
<1>3. SUFFICES ASSUME NEW k \in Int, SearchedThrough(l, k) PROVE k < d
  BY <1>2
<1>4. ~(d <= k)
  BY <1>1, <1>2, <1>3 DEF SearchedThrough
<1>5. QED
  BY <1>4

\* While handle_pair still has a pair to be called with, nobody claims that it was.
LEMMA ReductionLeft ==
  ASSUME TypeOK, PairInv, NEW l \in Levels, l > 1, NEW d \in Nat,
         NEW p \in InSet(next_pair \cup Sorting(l, d), l, d)
  PROVE  \A k \in Int : HandledThrough(l, k) => k < d
<1>1. pair[p].level = l /\ pair[p].deg = d /\ p \in next_pair \cup Sorting(l, d)
  BY DEF InSet
<1>2. p \in Listed /\ ~Handled(p)
  BY <1>1, SortFacts, SortedPairs
<1>3. SUFFICES ASSUME NEW k \in Int, HandledThrough(l, k) PROVE k < d
  OBVIOUS
<1>4. p \in Pairs
  BY <1>2 DEF Listed
<1>5. ~(d <= k)
  BY <1>1, <1>2, <1>3, <1>4 DEF HandledThrough
<1>6. QED
  BY <1>5

-----------------------------------------------------------------------------
(* Every degree set is sorted where start_computation may sort it.          *)

\* What is claimed through a degree is claimed through a lower one: of the generators,
LEMMA GensLess ==
  ASSUME TypeOK, NEW d \in Int, GensThrough(d), NEW k \in Int, k <= d
  PROVE  GensThrough(k)
<1>1. \A p \in Pairs : pair[p].deg \in Int
  BY PairFacts, NumberFacts
<1>2. QED
  BY <1>1 DEF GensThrough

\* of the pairs and of the reductions.
LEMMA SearchedLess ==
  ASSUME TypeOK, NEW l \in Int, NEW d \in Int, SearchedThrough(l, d), NEW k \in Int, k <= d
  PROVE  SearchedThrough(l, k)
<1>1. \A p \in Listed : pair[p].deg \in Int
  BY PairFacts, NumberFacts DEF Listed
<1>2. QED
  BY <1>1 DEF SearchedThrough

\* There is nothing of a negative degree.
LEMMA NoneBefore ==
  ASSUME TypeOK, NEW l
  PROVE  SearchedThrough(l, -1) /\ HandledThrough(l, -1)
<1>1. \A p \in Pairs : pair[p].deg \in Nat
  BY PairFacts, NumberFacts
<1>2. \A p \in Pairs : ~(pair[p].deg <= -1)
  BY <1>1
<1>3. QED
  BY <1>2 DEF SearchedThrough, HandledThrough, Listed

\* The first call sorts level 1 in degree 0,
LEMMA FirstSortable ==
  ASSUME Core, GensThrough(0)
  PROVE  Sortable(1, 0)
<1>1. TypeOK /\ n_level \in Int /\ n_level >= 2 /\ n_degree \in Nat
  BY NumberFacts DEF Core
<1>2. SearchedThrough(1, -1)
  BY <1>1, NoneBefore
<1>3. 0 - 1 = -1
  OBVIOUS
<1>4. QED
  BY <1>1, <1>2, <1>3 DEF Sortable

\* reductions sorts level 2 in the degree that is computed,
LEMMA TwoSortable ==
  ASSUME Core, pc = "reductions2"
  PROVE  Sortable(2, n_degree) /\ n_level = 2
<1>1. TypeOK /\ n_degree \in Nat /\ 1 \in Levels
  BY NumberFacts DEF Core
<1>2. n_level = 2
  BY DEF Core, PositionInv
<1>3. GensThrough(n_degree)
  BY DEF Core, Claims, GensInv
<1>4. GensThrough(0)
  BY <1>1, <1>3, GensLess
<1>5. SearchedThrough(1, n_degree)
  BY <1>1 DEF Core, Claims, SearchedInv, InLoop
<1>6. 2 - 1 = 1
  OBVIOUS
<1>7. QED
  BY <1>1, <1>2, <1>4, <1>5, <1>6 DEF Sortable

\* gens and pairs sort level 1 in the degree above it,
LEMMA OneSortable ==
  ASSUME Core, pc \in {"gens", "pairs"}, GensThrough(n_degree + 1)
  PROVE  Sortable(1, n_degree + 1) /\ SearchedThrough(1, n_degree) /\ n_level = 2
<1>1. TypeOK /\ n_degree \in Nat /\ 1 \in Levels /\ 2 \in Levels
  BY NumberFacts DEF Core
<1>2. n_level = 2
  BY DEF Core, PositionInv
<1>3. GensThrough(0)
  BY <1>1, GensLess
<1>4. SearchedThrough(1, n_degree)
  BY <1>1 DEF Core, Claims, SearchedInv, InLoop
<1>5. HandledThrough(2, n_degree)
  BY <1>1 DEF Core, Claims, HandledInv
<1>6. n_degree + 1 - 1 = n_degree
  BY <1>1
<1>7. QED
  BY <1>1, <1>2, <1>3, <1>4, <1>5, <1>6 DEF Sortable

\* The place in the loop over the levels.
LEMMA LevelFacts ==
  ASSUME Core, pc \in {"level", "pairsBelow", "pairsBelowNext", "reductions"}
  PROVE  /\ n_level \in Int /\ n_level > 2 /\ n_degree \in Nat /\ n_degree <= MaxDegree
         /\ GensThrough(0) /\ GensThrough(n_degree) /\ GensThrough(n_degree + 1)
         /\ pc # "level" =>
              /\ n_level - 1 \in Levels /\ n_level \in Levels /\ n_level <= length_limit + 1
              /\ SearchedThrough(n_level - 2, n_degree + 1) /\ SearchedThrough(n_level - 2, n_degree)
         /\ SearchedThrough(1, n_degree) /\ HandledThrough(2, n_degree)
<1>1. /\ TypeOK /\ n_degree \in Nat /\ n_level \in Int /\ 1 \in Levels /\ 2 \in Levels
      /\ LengthLimit \in Nat /\ n_level <= LengthLimit + 2
  BY NumberFacts DEF Core
<1>2. n_level > 2 /\ n_degree <= MaxDegree /\ length_limit \in 0 .. LengthLimit
  BY DEF Core, PositionInv, InLoop
<1>3. GensThrough(n_degree) /\ GensThrough(n_degree + 1)
  BY <1>2 DEF Core, Claims, GensInv
<1>4. GensThrough(0)
  BY <1>1, <1>3, GensLess
<1>5. SearchedThrough(1, n_degree)
  BY <1>1 DEF Core, Claims, SearchedInv, InLoop
<1>6. HandledThrough(2, n_degree)
  BY <1>1, <1>2 DEF Core, Claims, HandledInv
<1>7. ASSUME pc # "level"
      PROVE  /\ n_level - 1 \in Levels /\ n_level \in Levels /\ n_level <= length_limit + 1
             /\ SearchedThrough(n_level - 2, n_degree + 1) /\ SearchedThrough(n_level - 2, n_degree)
  <2>1. n_level <= length_limit + 1
    BY <1>7 DEF Core, PositionInv
  <2>2. n_level - 1 \in Levels /\ n_level \in Levels /\ n_level - 2 \in Levels
    BY <1>1, <1>2, <2>1 DEF Levels
  <2>3. n_level - 2 <= length_limit /\ n_level - 2 < n_level - 1
    BY <1>1, <1>2, <2>1
  <2>4. SearchedThrough(n_level - 2, n_degree + 1)
    BY <2>2, <2>3 DEF Core, Claims, SearchedInv
  <2>5. SearchedThrough(n_level - 2, n_degree)
    BY <1>1, <2>4, SearchedLess
  <2>6. QED
    BY <2>1, <2>2, <2>4, <2>5
<1>8. QED
  BY <1>1, <1>2, <1>3, <1>4, <1>5, <1>6, <1>7

\* and the loop over the higher levels sorts the level below, in both degrees, and its own.
LEMMA BelowSortable ==
  ASSUME Core
  PROVE  /\ pc = "pairsBelow" => Sortable(n_level - 1, n_degree)
         /\ pc = "pairsBelowNext" =>
              Sortable(n_level - 1, n_degree + 1) /\ SearchedThrough(n_level - 1, n_degree)
         /\ pc = "reductions" => Sortable(n_level, n_degree) /\ HandledThrough(n_level, n_degree - 1)
<1>1. SUFFICES ASSUME pc \in {"pairsBelow", "pairsBelowNext", "reductions"}
               PROVE  /\ pc = "pairsBelow" => Sortable(n_level - 1, n_degree)
                      /\ pc = "pairsBelowNext" =>
                           Sortable(n_level - 1, n_degree + 1) /\ SearchedThrough(n_level - 1, n_degree)
                      /\ pc = "reductions" => Sortable(n_level, n_degree) /\ HandledThrough(n_level, n_degree - 1)
  OBVIOUS
<1>2. /\ n_level \in Int /\ n_level > 2 /\ n_degree \in Nat /\ GensThrough(0)
      /\ n_level - 1 \in Levels /\ n_level \in Levels /\ n_level <= length_limit + 1
      /\ SearchedThrough(n_level - 2, n_degree + 1) /\ SearchedThrough(n_level - 2, n_degree)
  BY <1>1, LevelFacts
<1>3. length_limit \in Int /\ n_level - 1 <= length_limit /\ n_level - 1 - 1 = n_level - 2
  BY <1>2, ResolutionAssumption DEF Core, PositionInv
<1>4. pc = "pairsBelow" => Sortable(n_level - 1, n_degree)
  BY <1>2, <1>3 DEF Sortable
<1>5. pc = "pairsBelowNext" => Sortable(n_level - 1, n_degree + 1) /\ SearchedThrough(n_level - 1, n_degree)
  <2>1. pc = "pairsBelowNext" => SearchedThrough(n_level - 1, n_degree)
    BY <1>2, <1>3 DEF Core, Claims, SearchedInv
  <2>2. QED
    BY <1>2, <1>3, <2>1 DEF Sortable
<1>6. pc = "reductions" => Sortable(n_level, n_degree) /\ HandledThrough(n_level, n_degree - 1)
  <2>1. ASSUME pc = "reductions" PROVE SearchedThrough(n_level - 1, n_degree)
    <3>1. SearchedThrough(n_level - 1, n_degree + 1)
      BY <1>2, <1>3, <2>1 DEF Core, Claims, SearchedInv
    <3>2. TypeOK /\ n_level - 1 \in Int /\ n_degree + 1 \in Int /\ n_degree \in Int /\ n_degree <= n_degree + 1
      BY <1>2 DEF Core
    <3>3. QED
      BY <3>1, <3>2, SearchedLess
  <2>2. HandledThrough(n_level, n_degree - 1)
    BY <1>2 DEF Core, Claims, HandledInv
  <2>3. QED
    BY <1>2, <2>1, <2>2 DEF Sortable
<1>7. QED
  BY <1>4, <1>5, <1>6

-----------------------------------------------------------------------------
(* The kinds of steps.                                                      *)

\* A step leaves the lists as they are,
Quiet == UNCHANGED lists /\ nleft' = nleft /\ (status' # "DONE" \/ (length_limit' = length_limit /\ n_degree > hidegree))

\* or sorts a degree set and does nothing else,
Sorts == status' # "DONE" /\ nleft' = nleft /\ \E l \in Levels, d \in Nat : SortOnly(l, d)

\* or handles a generator,
HandlesGen ==
  /\ status' # "DONE" /\ nleft' = nleft - 1 + (npairs' - npairs) /\ npairs' = npairs
  /\ \E p \in next_gen, type \in {"MINIMAL", "REMOVED"} :
       /\ pair[p].level = 1 /\ SetOf(p) \notin is_sorted
       /\ pair' = [pair EXCEPT ![p].type = type] /\ next_gen' = next_gen \ {p}
       /\ UNCHANGED <<top, is_sorted, next_new_pair, next_pair>>

\* or makes the new pairs of a pair,
MakesPairs ==
  /\ status' # "DONE" /\ n_level \in Levels
  /\ \E l \in Levels, d \in Nat : \E p :
       /\ PairsMade(p, l, d) /\ n_level = l + 1
       /\ \A k \in Degrees : <<n_level, k>> \in is_sorted => k < d

\* or reduces a pair.
Reduces ==
  /\ status' # "DONE" /\ nleft' = nleft - 1 + (npairs' - npairs) /\ npairs' = npairs
  /\ n_level \in Levels /\ pc \in {"reductions2", "reductions"}
  /\ n_level = 2 => <<1, n_degree + 1>> \notin is_sorted
  /\ \E p : PairReduced(p, n_level, n_degree)

Kind == Quiet \/ Sorts \/ HandlesGen \/ MakesPairs \/ Reduces

-----------------------------------------------------------------------------
(* Each action keeps the core, and is of a kind.                            *)

\* Only what may be sorted is sorted.
LEMMA SortsOne ==
  ASSUME TypeOK, PairInv, NEW l \in Levels, NEW d \in Nat, is_sorted' = NowSorted(l, d), Sortable(l, d)
  PROVE  SortsRight
<1>1. SUFFICES ASSUME NEW k \in Levels, NEW e \in Degrees, <<k, e>> \in is_sorted' \ is_sorted
               PROVE  Sortable(k, e)
  BY DEF SortsRight
<1>2. <<k, e>> = <<l, d>>
  BY <1>1, SortFacts
<1>3. QED
  BY <1>2

\* After a generator or a pair was handled.
LEMMA Afterwards ==
  ASSUME Core, pc # "idle", AfterHandling
  PROVE  /\ pc' \in {pc, "idle"} /\ (pc' # "idle" => status' = "COMPUTING") /\ status' # "DONE"
         /\ nleft' = nleft - 1 + (npairs' - npairs)
<1>1. status = "COMPUTING"
  BY DEF Core, PositionInv
<1>2. QED
  BY <1>1 DEF AfterHandling, Return

\* A generator is handled.
LEMMA GenHandledCore ==
  ASSUME Core, NEW d \in Nat, NEW p \in InSet(next_gen, 1, d), NEW type \in {"MINIMAL", "REMOVED"},
         pair' = [pair EXCEPT ![p].type = type], next_gen' = next_gen \ {p},
         UNCHANGED <<top, is_sorted, next_new_pair, next_pair>>,
         UNCHANGED <<n_level, n_degree, length_limit>>, npairs' = npairs, AfterHandling,
         (pc = "gens0" /\ d = 0) \/ (pc = "gens" /\ d = n_degree + 1)
  PROVE  Core' /\ HandlesGen
<1>1. /\ TypeOK /\ PositionInv /\ PairInv /\ Claims
      /\ n_level \in Int /\ n_level >= 2 /\ n_degree \in Nat /\ Degrees \subseteq Nat /\ Levels \subseteq Nat
      /\ 1 \in Levels /\ 2 \in Levels
  BY NumberFacts DEF Core
<1>2. p \in next_gen /\ p \in Pairs /\ pair[p].level = 1 /\ pair[p].deg = d /\ d \in Degrees
  BY <1>1, PairFacts DEF InSet, TypeOK
<1>3. \A k \in Int : GensThrough(k) => k < d
  BY <1>1, GenLeft
<1>4. SetOf(p) \notin is_sorted
  <2>1. SUFFICES ASSUME IsSorted(1, d) PROVE FALSE
    BY <1>2 DEF SetOf, IsSorted
  <2>2. GensThrough(d)
    BY <1>1, <1>2, <2>1 DEF Claims, SortedInv
  <2>3. QED
    BY <1>1, <1>3, <2>2
<1>5. /\ ListsTyped' /\ PairInv' /\ Forward /\ Listed' \ Listed \subseteq {p} /\ Searched' = Searched
      /\ pair'[p].level = 1 /\ pair'[p].deg = d
  BY <1>1, <1>2, <1>4, GenHandledKeeps
<1>6. n_level = 2 /\ n_degree <= d /\ (pc = "gens0" => n_degree = 0 /\ is_sorted = {})
  <2>1. CASE pc = "gens"
    BY <1>1, <2>1 DEF PositionInv
  <2>2. CASE pc = "gens0" /\ d = 0
    <3>1. is_sorted = {}
      <4>1. is_sorted # {} => GensThrough(0)
        BY <1>1 DEF Claims, GensInv
      <4>2. QED
        BY <1>3, <2>2, <4>1
    <3>2. n_degree = 0
      <4>1. n_degree > 0 => GensThrough(n_degree)
        BY <1>1 DEF Claims, GensInv
      <4>2. QED
        BY <1>1, <1>3, <2>2, <4>1
    <3>3. n_level = 2
      <4>1. n_level > 2 => GensThrough(n_degree + 1)
        BY <1>1 DEF Claims, GensInv
      <4>2. QED
        BY <1>1, <1>3, <2>2, <3>2, <4>1
    <3>4. QED
      BY <2>2, <3>1, <3>2, <3>3
  <2>3. QED
    BY <2>1, <2>2
<1>7. is_sorted' = is_sorted
  OBVIOUS
<1>8. Unclaimed
  <2>1. ASSUME NEW k \in Degrees, <<1, k>> \in is_sorted \/ <<2, k>> \in is_sorted PROVE k < d
    <3>1. k \in Nat
      BY <1>1
    <3>2. CASE <<1, k>> \in is_sorted
      <4>1. GensThrough(k)
        BY <1>1, <3>2 DEF Claims, SortedInv, IsSorted
      <4>2. QED
        BY <1>3, <3>1, <4>1
    <3>3. CASE <<2, k>> \in is_sorted
      <4>1. k <= n_degree
        BY <1>1, <1>6, <3>3 DEF Claims, SortedInv, IsSorted
      <4>2. d = n_degree + 1
        BY <1>6, <3>3
      <4>3. QED
        BY <1>1, <3>1, <4>1, <4>2
    <3>4. QED
      BY <2>1, <3>2, <3>3
  <2>2. n_degree > 0 \/ InLoop \/ pc \in {"gens", "pairs"} => d > n_degree
    BY <1>1, <1>6 DEF InLoop
  <2>3. 1 + 1 = 2 /\ 1 # 2
    OBVIOUS
  <2>4. QED
    BY <1>1, <1>5, <1>6, <1>7, <2>1, <2>2, <2>3 DEF Unclaimed
<1>9. SortsRight
  BY <1>7 DEF SortsRight
<1>10. pc' \in {pc, "idle"} /\ (pc' # "idle" => status' = "COMPUTING")
  BY Afterwards
<1>11. npairs' \in Nat
  BY <1>1 DEF PositionInv
<1>12. Core'
  BY <1>5, <1>8, <1>9, <1>10, <1>11, StayCore
<1>13. HandlesGen
  <2>1. status' # "DONE" /\ nleft' = nleft - 1 + (npairs' - npairs)
    BY Afterwards
  <2>2. QED
    BY <1>2, <1>4, <2>1 DEF HandlesGen
<1>14. QED
  BY <1>12, <1>13

\* The loop of gens is done.
LEMMA GensOver ==
  ASSUME Core, NEW d \in Nat, NEW next, Gens(d, next), InSet(next_gen, 1, d) = {}
  PROVE  SortOnly(1, d) /\ pc' = next /\ npairs' = npairs /\ status' = status /\ nleft' = nleft
BY DEF Gens, SortOnly, counts

\* gens in degree 0, at the start;
LEMMA GensFirstCore ==
  ASSUME Core, GensFirst
  PROVE  Core' /\ Kind
<1>1. /\ pc = "gens0" /\ Gens(0, "pairs0") /\ n_level' = n_level /\ n_degree' = n_degree
      /\ length_limit' = length_limit
  BY DEF GensFirst, At
<1>2. /\ TypeOK /\ PositionInv /\ PairInv /\ Claims /\ n_level \in Int /\ n_degree \in Nat
      /\ 0 \in Nat /\ 1 \in Levels /\ n_level <= LengthLimit + 2 /\ LengthLimit \in Nat
  BY NumberFacts DEF Core
<1>3. CASE InSet(next_gen, 1, 0) # {}
  <2>1. PICK p \in InSet(next_gen, 1, 0), type \in {"MINIMAL", "REMOVED"} :
          /\ pair' = [pair EXCEPT ![p].type = type] /\ next_gen' = next_gen \ {p}
          /\ UNCHANGED <<top, is_sorted, next_new_pair, next_pair>> /\ npairs' = npairs /\ AfterHandling
    BY <1>1, <1>3 DEF Gens
  <2>2. QED
    BY <1>1, <1>2, <2>1, GenHandledCore DEF Kind
<1>4. CASE InSet(next_gen, 1, 0) = {}
  <2>1. SortOnly(1, 0) /\ pc' = "pairs0" /\ npairs' = npairs /\ status' = status /\ nleft' = nleft
    BY <1>1, <1>2, <1>4, GensOver
  <2>2. ListsTyped' /\ PairInv' /\ Forward /\ Listed' = Listed /\ Searched' \subseteq Searched
    <3>1. /\ ListsTyped' /\ PairInv' /\ Forward /\ Listed' = Listed
          /\ \A p \in Listed : p \in Searched' <=> p \in Searched
      BY <1>2, <2>1, SortOnlyKeeps
    <3>2. \A p \in Searched' : p \in Listed'
      BY DEF Searched
    <3>3. QED
      BY <3>1, <3>2
  <2>3. GensThrough(0)
    BY <1>2, <1>4, GensDone
  <2>4. SortsRight
    <3>1. Sortable(1, 0)
      BY <2>3, FirstSortable
    <3>2. is_sorted' = NowSorted(1, 0)
      BY <2>1 DEF SortOnly
    <3>3. QED
      BY <1>2, <3>1, <3>2, SortsOne
  <2>5. GensThrough(n_degree) /\ (n_level > 2 => GensThrough(n_degree + 1))
    BY <1>2, <2>3 DEF Claims, GensInv
  <2>6. \A d \in Int : GensThrough(d) => GensThrough(d)'
    BY <1>2, <2>2, QuietKeeps
  <2>7. Arrives
    BY <1>1, <1>2, <2>1, <2>5, <2>6 DEF Arrives, InLoop
  <2>8. PositionInv'
    BY <1>1, <1>2, <2>1 DEF PositionInv, InLoop
  <2>9. length_limit' <= length_limit
    BY <1>1, <1>2, ResolutionAssumption DEF PositionInv
  <2>10. Kind
    <3>1. status' # "DONE"
      BY <1>1, <1>2, <2>1 DEF PositionInv
    <3>2. QED
      BY <1>2, <2>1, <3>1 DEF Kind, Sorts
  <2>11. QED
    BY <1>1, <1>2, <2>2, <2>4, <2>7, <2>8, <2>9, <2>10, QuietCore
<1>5. QED
  BY <1>3, <1>4

\* gens in the degree above, in the loop;
LEMMA GensNextCore ==
  ASSUME Core, GensNext
  PROVE  Core' /\ Kind
<1>1. /\ pc = "gens" /\ Gens(n_degree + 1, "pairs") /\ n_level' = n_level /\ n_degree' = n_degree
      /\ length_limit' = length_limit
  BY DEF GensNext, At
<1>2. /\ TypeOK /\ PositionInv /\ PairInv /\ Claims /\ n_level \in Int /\ n_degree \in Nat
      /\ n_degree + 1 \in Nat /\ 1 \in Levels /\ 2 \in Levels
      /\ n_level <= LengthLimit + 2 /\ LengthLimit \in Nat /\ n_level = 2
  <2>1. TypeOK /\ PositionInv /\ PairInv /\ Claims
    BY DEF Core
  <2>2. n_level = 2
    BY <1>1, <2>1 DEF PositionInv
  <2>3. QED
    BY <2>1, <2>2, NumberFacts
<1>3. CASE InSet(next_gen, 1, n_degree + 1) # {}
  <2>1. PICK p \in InSet(next_gen, 1, n_degree + 1), type \in {"MINIMAL", "REMOVED"} :
          /\ pair' = [pair EXCEPT ![p].type = type] /\ next_gen' = next_gen \ {p}
          /\ UNCHANGED <<top, is_sorted, next_new_pair, next_pair>> /\ npairs' = npairs /\ AfterHandling
    BY <1>1, <1>3 DEF Gens
  <2>2. QED
    BY <1>1, <1>2, <2>1, GenHandledCore DEF Kind
<1>4. CASE InSet(next_gen, 1, n_degree + 1) = {}
  <2>1. SortOnly(1, n_degree + 1) /\ pc' = "pairs" /\ npairs' = npairs /\ status' = status
        /\ nleft' = nleft
    BY <1>1, <1>2, <1>4, GensOver
  <2>2. ListsTyped' /\ PairInv' /\ Forward /\ Listed' = Listed /\ Searched' \subseteq Searched
    <3>1. /\ ListsTyped' /\ PairInv' /\ Forward /\ Listed' = Listed
          /\ \A p \in Listed : p \in Searched' <=> p \in Searched
      BY <1>2, <2>1, SortOnlyKeeps
    <3>2. \A p \in Searched' : p \in Listed'
      BY DEF Searched
    <3>3. QED
      BY <3>1, <3>2
  <2>3. GensThrough(n_degree) /\ HandledThrough(2, n_degree)
    BY <1>1, <1>2 DEF Claims, GensInv, HandledInv
  <2>4. GensThrough(n_degree + 1)
    <3>1. n_degree + 1 - 1 = n_degree
      BY <1>2
    <3>2. QED
      BY <1>2, <1>4, <2>3, <3>1, GensDone
  <2>5. Sortable(1, n_degree + 1) /\ SearchedThrough(1, n_degree)
    BY <1>1, <2>4, OneSortable
  <2>6. SortsRight
    <3>1. is_sorted' = NowSorted(1, n_degree + 1)
      BY <2>1 DEF SortOnly
    <3>2. QED
      BY <1>2, <2>5, <3>1, SortsOne
  <2>7. /\ \A d \in Int : GensThrough(d) => GensThrough(d)'
        /\ \A l, d \in Int : SearchedThrough(l, d) => SearchedThrough(l, d)'
        /\ \A l, d \in Int : HandledThrough(l, d) => HandledThrough(l, d)'
    BY <1>2, <2>2, QuietKeeps
  <2>8. Arrives
    BY <1>1, <1>2, <2>1, <2>3, <2>4, <2>5, <2>7 DEF Arrives, InLoop
  <2>9. PositionInv'
    BY <1>1, <1>2, <2>1 DEF PositionInv, InLoop
  <2>10. length_limit' <= length_limit
    BY <1>1, <1>2, ResolutionAssumption DEF PositionInv
  <2>11. Kind
    <3>1. status' # "DONE"
      BY <1>1, <1>2, <2>1 DEF PositionInv
    <3>2. QED
      BY <1>2, <2>1, <3>1 DEF Kind, Sorts
  <2>12. QED
    BY <1>1, <1>2, <2>2, <2>6, <2>8, <2>9, <2>10, <2>11, QuietCore
<1>5. QED
  BY <1>3, <1>4

\* A degree set is sorted, where it may be, and nothing else happens to the lists.
LEMMA SortQuiet ==
  ASSUME Core, NEW l \in Levels, NEW d \in Nat, SortOnly(l, d), Sortable(l, d)
  PROVE  /\ ListsTyped' /\ PairInv' /\ Forward /\ Listed' = Listed /\ Searched' \subseteq Searched
         /\ SortsRight
         /\ \A k \in Int : GensThrough(k) => GensThrough(k)'
         /\ \A j, k \in Int : SearchedThrough(j, k) => SearchedThrough(j, k)'
         /\ \A j, k \in Int : HandledThrough(j, k) => HandledThrough(j, k)'
<1>1. TypeOK /\ PairInv /\ is_sorted' = NowSorted(l, d)
  BY DEF Core, SortOnly
<1>2. /\ ListsTyped' /\ PairInv' /\ Forward /\ Listed' = Listed
      /\ \A p \in Listed : p \in Searched' <=> p \in Searched
  BY <1>1, SortOnlyKeeps
<1>3. \A p \in Searched' : p \in Listed'
  BY DEF Searched
<1>4. Searched' \subseteq Searched
  BY <1>2, <1>3
<1>5. SortsRight
  BY <1>1, SortsOne
<1>6. /\ \A k \in Int : GensThrough(k) => GensThrough(k)'
      /\ \A j, k \in Int : SearchedThrough(j, k) => SearchedThrough(j, k)'
      /\ \A j, k \in Int : HandledThrough(j, k) => HandledThrough(j, k)'
  BY <1>1, <1>2, QuietKeeps
<1>7. QED
  BY <1>2, <1>4, <1>5, <1>6

\* What is sorted of the next two levels when new_pairs has something left.
LEMMA AheadOfPairs ==
  ASSUME Core, NEW l \in Levels, NEW d \in Nat, d <= n_degree + 1, n_level = l + 1,
         n_level \in Levels, l = 1 \/ l <= length_limit,
         NEW p \in InSet(next_new_pair \cup Sorting(l, d), l, d)
  PROVE  /\ n_degree <= d /\ (n_degree > 0 => d = n_degree + 1)
         /\ \A k \in Degrees : IsSorted(n_level, k) \/ IsSorted(n_level + 1, k) => k < d
         /\ IsSorted(1, n_degree + 1) /\ l = 1 => d > n_degree
<1>1. /\ TypeOK /\ PairInv /\ Claims
      /\ n_level \in Int /\ n_degree \in Nat /\ Degrees \subseteq Nat /\ l \in Int /\ l >= 1
      /\ LengthLimit \in Nat /\ Levels = 1 .. LengthLimit + 1
  BY NumberFacts DEF Core, Levels
<1>2. \A k \in Int : SearchedThrough(l, k) => k < d
  BY <1>1, PairLeft
<1>3. n_degree > 0 => SearchedThrough(l, n_degree)
  BY <1>1 DEF Claims, SearchedInv
<1>4. n_degree <= d /\ (n_degree > 0 => d = n_degree + 1)
  BY <1>1, <1>2, <1>3
<1>5. ASSUME NEW k \in Degrees, IsSorted(n_level, k) PROVE k < d
  <2>1. n_level > 1 /\ n_level - 1 = l /\ k \in Int
    BY <1>1
  <2>2. SearchedThrough(l, k)
    BY <1>1, <1>5, <2>1 DEF Claims, SortedInv
  <2>3. QED
    BY <1>2, <2>1, <2>2
<1>6. ASSUME NEW k \in Degrees, IsSorted(n_level + 1, k) PROVE k < d
  <2>1. n_level + 1 \in Levels
    BY <1>6 DEF Core, TypeOK, IsSorted
  <2>2. n_level + 1 >= n_level /\ n_level + 1 > n_level /\ k \in Int
    BY <1>1
  <2>3. k <= n_degree /\ n_degree > 0
    BY <1>1, <1>6, <2>1, <2>2 DEF Claims, SortedInv
  <2>4. QED
    BY <1>1, <1>4, <2>2, <2>3
<1>7. ASSUME IsSorted(1, n_degree + 1), l = 1 PROVE d > n_degree
  <2>1. 1 \in Levels /\ n_degree + 1 \in Degrees
    BY <1>7 DEF Core, TypeOK, IsSorted
  <2>2. SearchedThrough(1, n_degree + 1 - 1)
    BY <1>1, <1>7, <2>1 DEF Claims, SortedInv
  <2>3. n_degree + 1 - 1 = n_degree
    BY <1>1
  <2>4. QED
    BY <1>1, <1>2, <1>7, <2>2, <2>3
<1>8. QED
  BY <1>4, <1>5, <1>6, <1>7

\* new_pairs is called.
LEMMA PairsMadeCore ==
  ASSUME Core, NEW l \in Levels, NEW d \in Nat, NEW p, PairsMade(p, l, d), n_level = l + 1,
         n_level \in Levels, UNCHANGED <<n_level, n_degree, length_limit>>, pc' \in {pc, "idle"},
         pc' # "idle" => status' = "COMPUTING", Sortable(l, d), SearchedThrough(l, d - 1),
         l = 1 \/ l <= length_limit, pc # "gens", pc = "pairs" => d = n_degree + 1, status' # "DONE"
  PROVE  Core' /\ MakesPairs
<1>1. /\ TypeOK /\ PositionInv /\ PairInv /\ Claims
      /\ n_level \in Int /\ n_level >= 2 /\ n_degree \in Nat /\ Degrees \subseteq Nat /\ l \in Int
      /\ npairs \in Nat /\ d <= n_degree + 1
  BY NumberFacts DEF Core, PositionInv, Sortable
<1>2. /\ p \in InSet(next_new_pair \cup Sorting(l, d), l, d) /\ is_sorted' = NowSorted(l, d)
      /\ pair[p].level = l /\ pair[p].deg = d
  BY DEF PairsMade, InSet
<1>3. /\ n_degree <= d /\ (n_degree > 0 => d = n_degree + 1)
      /\ \A k \in Degrees : IsSorted(n_level, k) \/ IsSorted(n_level + 1, k) => k < d
      /\ IsSorted(1, n_degree + 1) /\ l = 1 => d > n_degree
  BY <1>1, <1>2, AheadOfPairs
<1>4. \A k \in Degrees : <<n_level, k>> \in is_sorted => k < d
  BY <1>3 DEF IsSorted
<1>5. /\ ListsTyped' /\ PairInv' /\ Forward
      /\ \E n \in Nat : npairs' = npairs + n /\ nleft' = nleft + n /\ Pairs' = 1 .. Len(pair) + n
      /\ \A q \in Pairs' \ Pairs : /\ pair'[q].level = n_level /\ pair'[q].deg >= d
                                   /\ pair'[q].type = "S_PAIR" /\ ~Handled(q)'
      /\ Listed' \ Listed = Pairs' \ Pairs
      /\ Searched' \subseteq Searched \cup {p}
  BY <1>1, <1>4, PairsMadeKeeps
<1>6. \A x \in is_sorted' \ is_sorted : x = <<l, d>>
  BY <1>1, <1>2, SortFacts
<1>7. Unclaimed
  <2>1. SUFFICES ASSUME NEW q \in Listed' \ Listed
                 PROVE  /\ \A k \in Degrees :
                             <<pair'[q].level, k>> \in is_sorted' \/ <<pair'[q].level + 1, k>> \in is_sorted'
                               => k < pair'[q].deg
                        /\ pair'[q].level >= n_level \/ (pair'[q].level = 1 /\ n_level = 2)
                        /\ pair'[q].deg >= n_degree
                        /\ (\/ n_degree > 0 \/ (pair'[q].level = 1 /\ InLoop) \/ pc \in {"gens", "pairs"}
                            \/ (pair'[q].level = 2 /\ <<1, n_degree + 1>> \in is_sorted'))
                             => pair'[q].deg > n_degree
    BY DEF Unclaimed
  <2>2. pair'[q].level = n_level /\ pair'[q].deg >= d
    BY <1>5
  <2>3. pair'[q].deg \in Int
    <3>1. n_level' \in 2 .. LengthLimit + 2 /\ n_degree' \in 0 .. MaxDegree + 1
      BY <1>1 DEF TypeOK
    <3>2. TypeOK'
      BY <1>1, <1>5, <3>1, TypesAgain
    <3>3. q \in Pairs'
      BY <1>5
    <3>4. PairsTyped'
      BY <3>2, TypedNext
    <3>5. pair'[q].deg \in Degrees
      BY <3>3, <3>4 DEF PairsTyped
    <3>6. Degrees \subseteq Int
      BY <1>1
    <3>7. QED
      BY ONLY <3>5, <3>6
  <2>4. ASSUME NEW k \in Degrees, <<n_level, k>> \in is_sorted' \/ <<n_level + 1, k>> \in is_sorted'
        PROVE  k < pair'[q].deg
    <3>1. <<n_level, k>> # <<l, d>> /\ <<n_level + 1, k>> # <<l, d>>
      BY <1>1
    <3>2. IsSorted(n_level, k) \/ IsSorted(n_level + 1, k)
      BY <1>6, <2>4, <3>1 DEF IsSorted
    <3>3. k < d /\ k \in Int
      BY <1>1, <1>3, <3>2
    <3>4. QED
      BY <2>2, <2>3, <3>3
  <2>5. pair'[q].deg >= n_degree
    BY <1>1, <1>3, <2>2, <2>3
  <2>6. (\/ n_degree > 0 \/ (pair'[q].level = 1 /\ InLoop) \/ pc \in {"gens", "pairs"}
         \/ (pair'[q].level = 2 /\ <<1, n_degree + 1>> \in is_sorted')) => d > n_degree
    <3>1. n_degree > 0 => d > n_degree
      BY <1>1, <1>3
    <3>2. pair'[q].level # 1
      BY <1>1, <2>2
    <3>3. pc \in {"gens", "pairs"} => d > n_degree
      BY <1>1
    <3>4. ASSUME pair'[q].level = 2, <<1, n_degree + 1>> \in is_sorted' PROVE d > n_degree
      <4>1. l = 1
        BY <1>1, <2>2, <3>4
      <4>2. CASE <<1, n_degree + 1>> \in is_sorted
        BY <1>3, <4>1, <4>2 DEF IsSorted
      <4>3. CASE <<1, n_degree + 1>> \notin is_sorted
        <5>1. d = n_degree + 1
          BY <1>6, <3>4, <4>3
        <5>2. QED
          BY <1>1, <5>1
      <4>4. QED
        BY <4>2, <4>3
    <3>5. QED
      BY <3>1, <3>2, <3>3, <3>4
  <2>7. d > n_degree => pair'[q].deg > n_degree
    BY <1>1, <2>2, <2>3
  <2>8. pair'[q].level >= n_level
    BY <1>1, <2>2
  <2>9. QED
    BY <2>2, <2>4, <2>5, <2>6, <2>7, <2>8
<1>8. SortsRight
  BY <1>1, <1>2, SortsOne
<1>9. npairs' \in Nat
  BY <1>1, <1>5
<1>10. \A q \in Searched' \ Searched : q \in Listed /\ SearchedThrough(pair[q].level, pair[q].deg - 1)
  <2>1. p \in Listed
    BY <1>1, <1>2, PairLeft
  <2>2. QED
    BY <1>2, <1>5, <2>1
<1>11. Core'
  BY <1>5, <1>7, <1>8, <1>9, <1>10, StayCore
<1>12. MakesPairs
  BY <1>4 DEF MakesPairs
<1>13. QED
  BY <1>11, <1>12

\* pairs calls new_pairs, or is done.
LEMMA PairsEither ==
  ASSUME Core, pc # "idle", NEW l, NEW d, NEW next, PairsOf(l, d, next)
  PROVE  \/ \E p : /\ PairsMade(p, l, d) /\ pc' \in {pc, "idle"}
                   /\ (pc' # "idle" => status' = "COMPUTING") /\ status' # "DONE"
         \/ /\ InSet(next_new_pair \cup Sorting(l, d), l, d) = {}
            /\ SortOnly(l, d) /\ pc' = next /\ status' = status /\ npairs' = npairs /\ nleft' = nleft
<1>1. status = "COMPUTING"
  BY DEF Core, PositionInv
<1>2. CASE InSet(next_new_pair \cup Sorting(l, d), l, d) # {}
  <2>1. PICK p \in InSet(next_new_pair \cup Sorting(l, d), l, d) :
          /\ next_new_pair' = (next_new_pair \cup Sorting(l, d)) \ {p} /\ NewPairs(p)
          /\ IF interruptedFlag THEN Return("INTERRUPTED") ELSE UNCHANGED <<status, pc>>
    BY <1>2 DEF PairsOf
  <2>2. PairsMade(p, l, d)
    BY <2>1 DEF PairsOf, PairsMade
  <2>3. pc' \in {pc, "idle"} /\ (pc' # "idle" => status' = "COMPUTING") /\ status' # "DONE"
    BY <1>1, <2>1 DEF Return
  <2>4. QED
    BY <2>2, <2>3
<1>3. CASE InSet(next_new_pair \cup Sorting(l, d), l, d) = {}
  BY <1>3 DEF PairsOf, SortOnly
<1>4. QED
  BY <1>2, <1>3

\* A step that only sorts a degree set and goes on.
LEMMA SortCore ==
  ASSUME Core, NEW l \in Levels, NEW d \in Nat, SortOnly(l, d), Sortable(l, d),
         n_degree' = n_degree, length_limit' = length_limit,
         n_level' \in {n_level, n_level + 1}, n_level' <= LengthLimit + 2, PositionInv', Arrives
  PROVE  Core'
<1>1. /\ ListsTyped' /\ PairInv' /\ Forward /\ Listed' = Listed /\ Searched' \subseteq Searched /\ SortsRight
  BY SortQuiet
<1>2. length_limit' <= length_limit
  BY ResolutionAssumption DEF Core, PositionInv
<1>3. QED
  BY <1>1, <1>2, QuietCore

\* A step that only sorts is of that kind.
LEMMA SortKind ==
  ASSUME Core, pc # "idle", NEW l \in Levels, NEW d \in Nat, SortOnly(l, d), status' = status, nleft' = nleft
  PROVE  Kind
<1>1. status' # "DONE"
  BY DEF Core, PositionInv
<1>2. QED
  BY <1>1 DEF Kind, Sorts

\* pairs of level 1 in degree 0, at the start;
LEMMA PairsFirstCore ==
  ASSUME Core, PairsFirst
  PROVE  Core' /\ Kind
<1>1. /\ pc = "pairs0" /\ PairsOf(1, 0, "head") /\ n_level' = n_level /\ n_degree' = n_degree
      /\ length_limit' = length_limit
  BY DEF PairsFirst, At
<1>2. /\ TypeOK /\ PositionInv /\ PairInv /\ Claims /\ n_level \in Int /\ n_level >= 2 /\ n_degree \in Nat
      /\ 0 \in Nat /\ 1 \in Levels /\ 2 \in Levels /\ n_level <= LengthLimit + 2 /\ 0 - 1 = -1
  BY NumberFacts DEF Core
<1>3. GensThrough(n_degree) /\ (n_level > 2 => GensThrough(n_degree + 1)) /\ GensThrough(0)
  <2>1. GensThrough(n_degree) /\ (n_level > 2 => GensThrough(n_degree + 1))
    BY <1>1, <1>2 DEF Claims, GensInv
  <2>2. QED
    BY <1>2, <2>1, GensLess
<1>4. Sortable(1, 0) /\ SearchedThrough(1, 0 - 1)
  BY <1>2, <1>3, FirstSortable, NoneBefore
<1>5. ASSUME NEW p, PairsMade(p, 1, 0), pc' \in {pc, "idle"}, pc' # "idle" => status' = "COMPUTING", status' # "DONE"
      PROVE  Core' /\ Kind
  <2>1. p \in InSet(next_new_pair \cup Sorting(1, 0), 1, 0)
    BY <1>5 DEF PairsMade
  <2>2. \A k \in Int : SearchedThrough(1, k) => k < 0
    BY <1>2, <2>1, PairLeft
  <2>3. n_level = 2
    <3>1. n_level > 2 => SearchedThrough(1, n_degree + 1)
      BY <1>2 DEF Claims, SearchedInv
    <3>2. ~(n_level > 2)
      BY <1>2, <2>2, <3>1
    <3>3. QED
      BY <1>2, <3>2
  <2>4. n_level = 1 + 1 /\ n_level \in Levels /\ pc # "gens" /\ pc # "pairs"
    BY <1>1, <1>2, <2>3
  <2>5. QED
    BY <1>1, <1>2, <1>4, <1>5, <2>4, PairsMadeCore DEF Kind
<1>6. ASSUME InSet(next_new_pair \cup Sorting(1, 0), 1, 0) = {}, SortOnly(1, 0), pc' = "head",
             status' = status, npairs' = npairs, nleft' = nleft
      PROVE  Core' /\ Kind
  <2>1. SearchedThrough(1, 0)
    BY <1>2, <1>6, SearchedDone
  <2>2. SearchedThrough(1, n_degree)
    <3>1. n_degree > 0 => SearchedThrough(1, n_degree)
      BY <1>2 DEF Claims, SearchedInv
    <3>2. n_degree > 0 \/ n_degree = 0
      BY <1>2
    <3>3. QED
      BY <2>1, <3>1, <3>2
  <2>3. /\ \A k \in Int : GensThrough(k) => GensThrough(k)'
        /\ \A j, k \in Int : SearchedThrough(j, k) => SearchedThrough(j, k)'
    BY <1>2, <1>4, <1>6, SortQuiet
  <2>4. Arrives
    BY <1>1, <1>2, <1>3, <1>6, <2>2, <2>3 DEF Arrives
  <2>5. PositionInv'
    BY <1>1, <1>2, <1>6 DEF PositionInv, InLoop
  <2>6. QED
    BY <1>1, <1>2, <1>4, <1>6, <2>4, <2>5, SortCore, SortKind
<1>7. QED
  BY <1>1, <1>5, <1>6, PairsEither

\* pairs of level 1 in the degree above;
LEMMA PairsNextCore ==
  ASSUME Core, PairsNext
  PROVE  Core' /\ Kind
<1>1. /\ pc = "pairs" /\ PairsOf(1, n_degree + 1, "level") /\ n_degree' = n_degree
      /\ length_limit' = length_limit /\ n_level' = IF pc' = "level" THEN 3 ELSE n_level
  BY DEF PairsNext, At
<1>2. TypeOK /\ PositionInv /\ PairInv /\ Claims
  BY DEF Core
<1>3. GensThrough(n_degree + 1) /\ GensThrough(n_degree)
  BY <1>1, <1>2 DEF Claims, GensInv
<1>4. Sortable(1, n_degree + 1) /\ SearchedThrough(1, n_degree) /\ n_level = 2
  BY <1>1, <1>3, OneSortable
<1>5. /\ n_degree \in Nat /\ n_degree + 1 \in Nat /\ n_degree + 1 - 1 = n_degree
      /\ 1 \in Levels /\ 2 \in Levels /\ LengthLimit \in Nat /\ LengthLimit >= 1
  BY <1>2, NumberFacts
<1>6. ASSUME NEW p, PairsMade(p, 1, n_degree + 1), pc' \in {pc, "idle"}, pc' # "idle" => status' = "COMPUTING", status' # "DONE"
      PROVE  Core' /\ Kind
  <2>1. n_level' = n_level /\ n_level = 1 + 1 /\ n_level \in Levels /\ pc # "gens"
    BY <1>1, <1>4, <1>5, <1>6
  <2>2. SearchedThrough(1, n_degree + 1 - 1)
    BY <1>4, <1>5
  <2>3. QED
    BY <1>1, <1>4, <1>5, <1>6, <2>1, <2>2, PairsMadeCore DEF Kind
<1>7. ASSUME InSet(next_new_pair \cup Sorting(1, n_degree + 1), 1, n_degree + 1) = {},
             SortOnly(1, n_degree + 1), pc' = "level", status' = status, npairs' = npairs, nleft' = nleft
      PROVE  Core' /\ Kind
  <2>1. SearchedThrough(1, n_degree + 1)
    BY <1>2, <1>4, <1>5, <1>7, SearchedDone
  <2>2. HandledThrough(2, n_degree)
    BY <1>1, <1>2, <1>5 DEF Claims, HandledInv
  <2>3. /\ \A k \in Int : GensThrough(k) => GensThrough(k)'
        /\ \A j, k \in Int : SearchedThrough(j, k) => SearchedThrough(j, k)'
        /\ \A j, k \in Int : HandledThrough(j, k) => HandledThrough(j, k)'
    BY <1>4, <1>5, <1>7, SortQuiet
  <2>4. n_level' = 3 /\ n_level' - 2 = 1 /\ n_level' - 1 = 2 /\ n_degree + 1 \in Int /\ n_degree \in Int
    BY <1>1, <1>5, <1>7
  <2>5. Arrives
    BY <1>1, <1>3, <1>4, <1>7, <2>1, <2>2, <2>3, <2>4 DEF Arrives
  <2>6. PositionInv'
    <3>1. n_degree' <= MaxDegree /\ n_level' > 2
      BY <1>1, <1>2, <2>4 DEF PositionInv, InLoop
    <3>2. QED
      BY <1>1, <1>2, <1>7, <3>1 DEF PositionInv, InLoop
  <2>7. n_level' \in {n_level, n_level + 1} /\ n_level' <= LengthLimit + 2
    BY <1>4, <1>5, <2>4
  <2>8. QED
    BY <1>1, <1>4, <1>5, <1>7, <2>5, <2>6, <2>7, SortCore, SortKind
<1>8. QED
  BY <1>1, <1>6, <1>7, PairsEither

\* pairs of the level below, in the degree;
LEMMA PairsBelowCore ==
  ASSUME Core, PairsBelow
  PROVE  Core' /\ Kind
<1>1. /\ pc = "pairsBelow" /\ PairsOf(n_level - 1, n_degree, "pairsBelowNext") /\ n_level' = n_level
      /\ n_degree' = n_degree /\ length_limit' = length_limit
  BY DEF PairsBelow, At
<1>2. TypeOK /\ PositionInv /\ PairInv /\ Claims
  BY DEF Core
<1>3. /\ n_level \in Int /\ n_level > 2 /\ n_degree \in Nat
      /\ GensThrough(n_degree) /\ GensThrough(n_degree + 1)
      /\ n_level - 1 \in Levels /\ n_level \in Levels /\ n_level <= length_limit + 1
      /\ SearchedThrough(1, n_degree)
  BY <1>1, LevelFacts
<1>4. /\ Sortable(n_level - 1, n_degree) /\ length_limit \in Int /\ n_level - 1 <= length_limit
      /\ n_level = n_level - 1 + 1 /\ n_level <= LengthLimit + 2
  BY <1>1, <1>2, <1>3, BelowSortable, NumberFacts, ResolutionAssumption DEF PositionInv
<1>5. n_degree = 0 \/ SearchedThrough(n_level - 1, n_degree)
  BY <1>2, <1>3, <1>4 DEF Claims, SearchedInv
<1>6. SearchedThrough(n_level - 1, n_degree - 1)
  <2>1. CASE n_degree = 0
    <3>1. n_degree - 1 = -1
      BY <2>1
    <3>2. QED
      BY <1>2, <3>1, NoneBefore
  <2>2. CASE SearchedThrough(n_level - 1, n_degree)
    BY <1>2, <1>3, <2>2, SearchedLess
  <2>3. QED
    BY <1>5, <2>1, <2>2
<1>7. ASSUME NEW p, PairsMade(p, n_level - 1, n_degree), pc' \in {pc, "idle"},
             pc' # "idle" => status' = "COMPUTING", status' # "DONE"
      PROVE  Core' /\ Kind
  <2>1. pc # "gens" /\ pc # "pairs"
    BY <1>1
  <2>2. QED
    BY <1>1, <1>3, <1>4, <1>6, <1>7, <2>1, PairsMadeCore DEF Kind
<1>8. ASSUME InSet(next_new_pair \cup Sorting(n_level - 1, n_degree), n_level - 1, n_degree) = {},
             SortOnly(n_level - 1, n_degree), pc' = "pairsBelowNext", status' = status, npairs' = npairs, nleft' = nleft
      PROVE  Core' /\ Kind
  <2>1. SearchedThrough(n_level - 1, n_degree)
    BY <1>2, <1>3, <1>6, <1>8, SearchedDone
  <2>2. /\ \A k \in Int : GensThrough(k) => GensThrough(k)'
        /\ \A j, k \in Int : SearchedThrough(j, k) => SearchedThrough(j, k)'
    BY <1>3, <1>4, <1>8, SortQuiet
  <2>3. n_level - 1 \in Int /\ n_degree \in Int /\ n_degree + 1 \in Int /\ n_level # n_level + 1
    BY <1>3
  <2>4. Arrives
    BY <1>1, <1>3, <1>8, <2>1, <2>2, <2>3 DEF Arrives
  <2>5. PositionInv'
    BY <1>1, <1>2, <1>3, <1>8 DEF PositionInv, InLoop
  <2>6. QED
    BY <1>1, <1>3, <1>4, <1>8, <2>4, <2>5, SortCore, SortKind
<1>9. QED
  BY <1>1, <1>7, <1>8, PairsEither

\* pairs of the level below, in the degree above;
LEMMA PairsBelowNextCore ==
  ASSUME Core, PairsBelowNext
  PROVE  Core' /\ Kind
<1>1. /\ pc = "pairsBelowNext" /\ PairsOf(n_level - 1, n_degree + 1, "reductions") /\ n_level' = n_level
      /\ n_degree' = n_degree /\ length_limit' = length_limit
  BY DEF PairsBelowNext, At
<1>2. TypeOK /\ PositionInv /\ PairInv /\ Claims
  BY DEF Core
<1>3. /\ n_level \in Int /\ n_level > 2 /\ n_degree \in Nat /\ n_degree + 1 \in Nat
      /\ n_degree + 1 - 1 = n_degree
      /\ GensThrough(n_degree) /\ GensThrough(n_degree + 1)
      /\ n_level - 1 \in Levels /\ n_level \in Levels /\ n_level <= length_limit + 1
      /\ SearchedThrough(1, n_degree)
  BY <1>1, LevelFacts
<1>4. /\ Sortable(n_level - 1, n_degree + 1) /\ SearchedThrough(n_level - 1, n_degree)
      /\ length_limit \in Int /\ n_level - 1 <= length_limit
      /\ n_level = n_level - 1 + 1 /\ n_level <= LengthLimit + 2
  BY <1>1, <1>2, <1>3, BelowSortable, NumberFacts, ResolutionAssumption DEF PositionInv
<1>7. ASSUME NEW p, PairsMade(p, n_level - 1, n_degree + 1), pc' \in {pc, "idle"},
             pc' # "idle" => status' = "COMPUTING", status' # "DONE"
      PROVE  Core' /\ Kind
  <2>1. pc # "gens" /\ pc # "pairs" /\ SearchedThrough(n_level - 1, n_degree + 1 - 1)
    BY <1>1, <1>3, <1>4
  <2>2. QED
    BY <1>1, <1>3, <1>4, <1>7, <2>1, PairsMadeCore DEF Kind
<1>8. ASSUME InSet(next_new_pair \cup Sorting(n_level - 1, n_degree + 1), n_level - 1, n_degree + 1) = {},
             SortOnly(n_level - 1, n_degree + 1), pc' = "reductions", status' = status, npairs' = npairs, nleft' = nleft
      PROVE  Core' /\ Kind
  <2>1. SearchedThrough(n_level - 1, n_degree + 1)
    BY <1>2, <1>3, <1>4, <1>8, SearchedDone
  <2>2. /\ \A k \in Int : GensThrough(k) => GensThrough(k)'
        /\ \A j, k \in Int : SearchedThrough(j, k) => SearchedThrough(j, k)'
    BY <1>3, <1>4, <1>8, SortQuiet
  <2>3. n_level - 1 \in Int /\ n_degree \in Int /\ n_degree + 1 \in Int /\ n_level # n_level + 1
    BY <1>3
  <2>4. Arrives
    BY <1>1, <1>3, <1>8, <2>1, <2>2, <2>3 DEF Arrives
  <2>5. PositionInv'
    BY <1>1, <1>2, <1>3, <1>8 DEF PositionInv, InLoop
  <2>6. QED
    BY <1>1, <1>3, <1>4, <1>8, <2>4, <2>5, SortCore, SortKind
<1>9. QED
  BY <1>1, <1>7, <1>8, PairsEither

\* handle_pair is called.
LEMMA PairReducedCore ==
  ASSUME Core, NEW l \in Levels, NEW p, PairReduced(p, l, n_degree), n_level = l,
         UNCHANGED <<n_level, n_degree, length_limit>>, npairs' = npairs, AfterHandling,
         pc \in {"reductions2", "reductions"}, Sortable(l, n_degree)
  PROVE  Core' /\ Reduces
<1>1. /\ TypeOK /\ PositionInv /\ PairInv /\ Claims
      /\ n_level \in Int /\ n_level >= 2 /\ n_degree \in Nat /\ Degrees \subseteq Nat /\ l \in Int
      /\ 1 \in Levels /\ 2 \in Levels /\ l > 1
  BY NumberFacts DEF Core
<1>2. /\ p \in InSet(next_pair \cup Sorting(l, n_degree), l, n_degree)
      /\ is_sorted' = NowSorted(l, n_degree) /\ pc # "idle"
  BY DEF PairReduced
<1>3. n_level = 2 => <<1, n_degree + 1>> \notin is_sorted
  <2>1. SUFFICES ASSUME l = 2, IsSorted(1, n_degree + 1) PROVE FALSE
    BY DEF IsSorted
  <2>2. HandledThrough(l, n_degree)
    BY <1>1, <2>1 DEF Claims, HandledInv
  <2>3. n_degree < n_degree
    BY <1>1, <1>2, <2>2, ReductionLeft
  <2>4. QED
    BY <1>1, <2>3
<1>4. /\ ListsTyped' /\ PairInv' /\ Forward
      /\ Listed' \ Listed = Pairs' \ Pairs /\ Searched' = Searched
  BY <1>1, <1>3, PairReducedKeeps
<1>5. \A q \in Pairs' \ Pairs : pair'[q].level = 1 /\ pair'[q].deg = n_degree + 1 /\ n_level = 2
  BY <1>1, ReducedNew
<1>6. \A x \in is_sorted' \ is_sorted : x = <<l, n_degree>>
  BY <1>1, <1>2, SortFacts
<1>7. ASSUME n_level = 2, NEW k \in Degrees, <<1, k>> \in is_sorted' \/ <<2, k>> \in is_sorted'
      PROVE  k < n_degree + 1
  <2>1. k \in Nat
    BY <1>1
  <2>2. CASE <<1, k>> \in is_sorted'
    <3>1. IsSorted(1, k)
      BY <1>6, <1>7, <2>2 DEF IsSorted
    <3>2. k <= n_degree + 1
      BY <1>1, <3>1 DEF Claims, SortedInv
    <3>3. k # n_degree + 1
      BY <1>3, <1>7, <3>1 DEF IsSorted
    <3>4. QED
      BY <1>1, <2>1, <3>2, <3>3
  <2>3. CASE <<2, k>> \in is_sorted
    <3>1. IsSorted(2, k) /\ 2 >= n_level
      BY <1>7, <2>3 DEF IsSorted
    <3>2. k <= n_degree
      BY <1>1, <3>1 DEF Claims, SortedInv
    <3>3. QED
      BY <1>1, <2>1, <3>2
  <2>4. CASE <<2, k>> \in is_sorted' \ is_sorted
    <3>1. k = n_degree
      BY <1>6, <2>4
    <3>2. QED
      BY <1>1, <3>1
  <2>5. QED
    BY <1>7, <2>2, <2>3, <2>4
<1>8. Unclaimed
  <2>1. n_degree + 1 > n_degree /\ n_degree + 1 >= n_degree /\ 1 + 1 = 2
    BY <1>1
  <2>2. QED
    BY <1>4, <1>5, <1>7, <2>1 DEF Unclaimed
<1>9. SortsRight
  BY <1>1, <1>2, SortsOne
<1>10. pc' \in {pc, "idle"} /\ (pc' # "idle" => status' = "COMPUTING")
  BY <1>2, Afterwards
<1>11. npairs' \in Nat
  BY <1>1 DEF PositionInv
<1>12. Core'
  BY <1>4, <1>8, <1>9, <1>10, <1>11, StayCore
<1>13. Reduces
  <2>1. status' # "DONE" /\ nleft' = nleft - 1 + (npairs' - npairs)
    BY <1>2, Afterwards
  <2>2. QED
    BY <1>3, <2>1 DEF Reduces
<1>14. QED
  BY <1>12, <1>13

\* reductions calls handle_pair, or is done.
LEMMA ReductionsEither ==
  ASSUME NEW l, NEW d, NEW next, Reductions(l, d, next)
  PROVE  /\ npairs' = npairs
         /\ \/ \E p : PairReduced(p, l, d) /\ AfterHandling
            \/ /\ InSet(next_pair \cup Sorting(l, d), l, d) = {}
               /\ SortOnly(l, d) /\ pc' = next /\ status' = status /\ nleft' = nleft
<1>1. CASE InSet(next_pair \cup Sorting(l, d), l, d) # {}
  <2>1. PICK p \in InSet(next_pair \cup Sorting(l, d), l, d) :
          /\ next_pair' = (next_pair \cup Sorting(l, d)) \ {p}
          /\ Skip(p) \/ Minimal(p) \/ FillsInNew(p) \/ \E q \in Pairs : FillsIn(p, q)
          /\ AfterHandling
    BY <1>1 DEF Reductions
  <2>2. PairReduced(p, l, d)
    BY <2>1 DEF Reductions, PairReduced
  <2>3. QED
    BY <2>1, <2>2 DEF Reductions
<1>2. CASE InSet(next_pair \cup Sorting(l, d), l, d) = {}
  BY <1>2 DEF Reductions, SortOnly
<1>3. QED
  BY <1>1, <1>2

\* reductions of level 2;
LEMMA ReductionsTwoCore ==
  ASSUME Core, ReductionsTwo
  PROVE  Core' /\ Kind
<1>1. /\ pc = "reductions2" /\ Reductions(2, n_degree, "gens") /\ n_level' = n_level
      /\ n_degree' = n_degree /\ length_limit' = length_limit
  BY DEF ReductionsTwo, At
<1>2. TypeOK /\ PositionInv /\ PairInv /\ Claims
  BY DEF Core
<1>3. Sortable(2, n_degree) /\ n_level = 2
  BY <1>1, TwoSortable
<1>4. /\ n_degree \in Nat /\ 1 \in Levels /\ 2 \in Levels /\ LengthLimit \in Nat /\ LengthLimit >= 1
      /\ n_level <= LengthLimit + 2
  BY <1>2, NumberFacts
<1>5. ASSUME NEW p, PairReduced(p, 2, n_degree), AfterHandling PROVE Core' /\ Kind
  <2>1. npairs' = npairs
    BY <1>1, ReductionsEither
  <2>2. QED
    BY <1>1, <1>3, <1>4, <1>5, <2>1, PairReducedCore DEF Kind
<1>6. ASSUME InSet(next_pair \cup Sorting(2, n_degree), 2, n_degree) = {},
             SortOnly(2, n_degree), pc' = "gens", status' = status, npairs' = npairs, nleft' = nleft
      PROVE  Core' /\ Kind
  <2>1. HandledThrough(2, n_degree)
    <3>1. HandledThrough(2, n_degree - 1)
      BY <1>2, <1>4 DEF Claims, HandledInv
    <3>2. QED
      BY <1>2, <1>4, <1>6, <3>1, HandledDone
  <2>2. GensThrough(n_degree) /\ SearchedThrough(1, n_degree)
    BY <1>1, <1>2, <1>4 DEF Claims, GensInv, SearchedInv, InLoop
  <2>3. /\ \A k \in Int : GensThrough(k) => GensThrough(k)'
        /\ \A j, k \in Int : SearchedThrough(j, k) => SearchedThrough(j, k)'
        /\ \A j, k \in Int : HandledThrough(j, k) => HandledThrough(j, k)'
    BY <1>3, <1>4, <1>6, SortQuiet
  <2>4. n_level' = 2 /\ n_level' # n_level + 1 /\ n_degree \in Int
    BY <1>1, <1>3, <1>4
  <2>5. Arrives
    BY <1>1, <1>3, <1>6, <2>1, <2>2, <2>3, <2>4 DEF Arrives
  <2>6. PositionInv'
    BY <1>1, <1>2, <1>3, <1>6 DEF PositionInv, InLoop
  <2>7. QED
    BY <1>1, <1>3, <1>4, <1>6, <2>5, <2>6, SortCore, SortKind
<1>7. QED
  BY <1>1, <1>5, <1>6, ReductionsEither

\* reductions of a level above;
LEMMA ReductionsAboveCore ==
  ASSUME Core, ReductionsAbove
  PROVE  Core' /\ Kind
<1>1. /\ pc = "reductions" /\ Reductions(n_level, n_degree, "level")
      /\ n_level' = IF pc' = "level" THEN n_level + 1 ELSE n_level
      /\ n_degree' = n_degree /\ length_limit' = length_limit
  BY DEF ReductionsAbove, At
<1>2. TypeOK /\ PositionInv /\ PairInv /\ Claims
  BY DEF Core
<1>3. /\ n_level \in Int /\ n_level > 2 /\ n_degree \in Nat /\ n_degree <= MaxDegree
      /\ GensThrough(n_degree) /\ GensThrough(n_degree + 1)
      /\ n_level - 1 \in Levels /\ n_level \in Levels /\ n_level <= length_limit + 1
      /\ SearchedThrough(1, n_degree)
  BY <1>1, LevelFacts
<1>4. Sortable(n_level, n_degree) /\ HandledThrough(n_level, n_degree - 1)
  BY <1>1, BelowSortable
<1>5. /\ length_limit \in Int /\ length_limit <= LengthLimit /\ LengthLimit \in Nat
      /\ n_level - 1 <= length_limit /\ n_level + 1 <= LengthLimit + 2
  BY <1>2, <1>3, ResolutionAssumption DEF PositionInv
<1>6. ASSUME NEW p, PairReduced(p, n_level, n_degree), AfterHandling PROVE Core' /\ Kind
  <2>1. npairs' = npairs
    BY <1>1, ReductionsEither
  <2>2. pc' # "level"
    <3>1. pc' \in {pc, "idle"}
      BY <1>1, <1>6, Afterwards
    <3>2. QED
      BY <1>1, <3>1
  <2>3. n_level' = n_level
    BY <1>1, <2>2
  <2>4. QED
    BY <1>1, <1>3, <1>4, <1>6, <2>1, <2>3, PairReducedCore DEF Kind
<1>7. ASSUME InSet(next_pair \cup Sorting(n_level, n_degree), n_level, n_degree) = {},
             SortOnly(n_level, n_degree), pc' = "level", status' = status, npairs' = npairs, nleft' = nleft
      PROVE  Core' /\ Kind
  <2>1. HandledThrough(n_level, n_degree)
    <3>1. n_level > 1
      BY <1>3
    <3>2. QED
      BY <1>2, <1>3, <1>4, <1>7, <3>1, HandledDone
  <2>2. SearchedThrough(n_level - 1, n_degree + 1)
    BY <1>1, <1>2, <1>3, <1>5 DEF Claims, SearchedInv
  <2>3. /\ \A k \in Int : GensThrough(k) => GensThrough(k)'
        /\ \A j, k \in Int : SearchedThrough(j, k) => SearchedThrough(j, k)'
        /\ \A j, k \in Int : HandledThrough(j, k) => HandledThrough(j, k)'
    BY <1>3, <1>4, <1>7, SortQuiet
  <2>4. /\ n_level' = n_level + 1 /\ n_level' - 2 = n_level - 1 /\ n_level' - 1 = n_level
        /\ n_level - 1 \in Int /\ n_degree \in Int /\ n_degree + 1 \in Int
    BY <1>1, <1>3, <1>7
  <2>5. Arrives
    BY <1>1, <1>3, <1>7, <2>1, <2>2, <2>3, <2>4 DEF Arrives
  <2>6. PositionInv'
    <3>1. n_level' > 2
      BY <1>3, <2>4
    <3>2. QED
      BY <1>1, <1>2, <1>3, <1>7, <3>1 DEF PositionInv, InLoop
  <2>7. n_level' \in {n_level, n_level + 1} /\ n_level' <= LengthLimit + 2
    BY <1>5, <2>4
  <2>8. QED
    BY <1>1, <1>3, <1>4, <1>7, <2>5, <2>6, <2>7, SortCore, SortKind
<1>8. QED
  BY <1>1, <1>6, <1>7, ReductionsEither

\* start_computation is called, with a length limit of its own;
LEMMA CallCore ==
  ASSUME Core, Call
  PROVE  Core' /\ Kind
<1>1. /\ pc = "idle" /\ n_level' = n_level /\ n_degree' = n_degree /\ UNCHANGED lists /\ npairs' = npairs
      /\ \E s \in StopConditions :
           IF s.length_limit # NoLimit /\ s.length_limit > length_limit
             THEN UNCHANGED <<status, pc, length_limit>>
             ELSE /\ status' = "COMPUTING" /\ pc' = "gens0"
                  /\ length_limit' = IF s.length_limit = NoLimit THEN length_limit ELSE s.length_limit
  BY DEF Call, counts
<1>2. /\ TypeOK /\ PositionInv /\ PairInv /\ Claims /\ n_level \in Int /\ n_degree \in Nat
      /\ n_level <= LengthLimit + 2 /\ LengthLimit \in Nat /\ length_limit \in 0 .. LengthLimit
  BY NumberFacts DEF Core, PositionInv
<1>3. /\ ListsTyped' /\ PairInv' /\ Forward /\ SortsRight /\ Listed' = Listed /\ Searched' = Searched
  BY <1>1, <1>2, UnchangedLists
<1>4. length_limit' \in 0 .. LengthLimit /\ length_limit' <= length_limit
  <2>1. PICK s \in StopConditions :
           IF s.length_limit # NoLimit /\ s.length_limit > length_limit
             THEN length_limit' = length_limit
             ELSE length_limit' = IF s.length_limit = NoLimit THEN length_limit ELSE s.length_limit
    BY <1>1
  <2>2. s.length_limit \in Nat \cup {NoLimit}
    BY ResolutionAssumption
  <2>3. CASE length_limit' = length_limit
    BY <1>2, <2>3
  <2>4. CASE s.length_limit # NoLimit /\ ~(s.length_limit > length_limit) /\ length_limit' = s.length_limit
    BY <1>2, <2>2, <2>4
  <2>5. QED
    BY <2>1, <2>3, <2>4
<1>5. pc' \in {"idle", "gens0"} /\ (pc' # "idle" => status' = "COMPUTING")
  BY <1>1
<1>6. n_level > 2 => GensThrough(n_degree + 1)'
  <2>1. n_level > 2 => GensThrough(n_degree + 1)
    BY <1>2 DEF Claims, GensInv
  <2>2. \A k \in Int : GensThrough(k) => GensThrough(k)'
    BY <1>2, <1>3, QuietKeeps
  <2>3. n_degree + 1 \in Int
    BY <1>2
  <2>4. QED
    BY <1>1, <2>1, <2>2, <2>3
<1>7. Arrives
  BY <1>1, <1>2, <1>5, <1>6 DEF Arrives, InLoop
<1>8. PositionInv'
  BY <1>1, <1>2, <1>4, <1>5 DEF PositionInv, InLoop
<1>9. Kind
  <2>1. status' # "DONE" /\ nleft' = nleft
    BY DEF Call, counts
  <2>2. QED
    BY <1>1, <2>1 DEF Kind, Quiet
<1>10. QED
  BY <1>1, <1>2, <1>3, <1>4, <1>7, <1>8, <1>9, QuietCore

\* A step that leaves the lists alone and stays where it is, or returns.
LEMMA IdleCore ==
  ASSUME Core, UNCHANGED lists, UNCHANGED <<n_level, n_degree, length_limit>>, npairs' = npairs,
         pc' \in {pc, "idle"}, pc' # "idle" => status' = "COMPUTING"
  PROVE  Core'
<1>1. TypeOK /\ PairInv /\ npairs' \in Nat
  BY DEF Core, PositionInv
<1>2. /\ ListsTyped' /\ PairInv' /\ Forward /\ SortsRight /\ Listed' = Listed /\ Searched' = Searched
  BY <1>1, UnchangedLists
<1>3. Unclaimed
  BY <1>2 DEF Unclaimed
<1>4. QED
  BY <1>1, <1>2, <1>3, StayCore

\* an interrupt is asked for;
LEMMA InterruptCore ==
  ASSUME Core, Interrupt
  PROVE  Core' /\ Kind
<1>1. UNCHANGED <<lists, n_level, n_degree, length_limit, counts, status, pc>>
  BY DEF Interrupt
<1>2. pc' # "idle" => status' = "COMPUTING"
  BY <1>1 DEF Core, PositionInv
<1>3. status' # "DONE" /\ nleft' = nleft
  BY <1>1 DEF Core, PositionInv, Interrupt, counts
<1>4. QED
  BY <1>1, <1>2, <1>3, IdleCore DEF counts, Kind, Quiet

\* hidegree is a degree.
LEMMA HighDegree ==
  ASSUME TypeOK, PairInv
  PROVE  /\ hidegree \in Degrees
         /\ \A l \in 0 .. LengthLimit + 1 : top[l] <= hidegree
<1> DEFINE L == 0 .. LengthLimit + 1
           bound(d) == \A l \in L : top[l] <= d
           T == {d \in Degrees : bound(d)}
           good(d) == (\E l \in L : top[l] = d) /\ bound(d)
<1>1. /\ top \in [L -> -1 .. MaxDegree] /\ DOMAIN top = L /\ MaxDegree \in Nat /\ 0 \in L /\ top[0] >= 0
      /\ Degrees = 0 .. MaxDegree
  BY ResolutionAssumption DEF TypeOK, PairInv, Degrees
<1>2. MaxDegree \in T
  BY <1>1
<1>3. T \subseteq Degrees
  OBVIOUS
<1>4. PICK m \in T : \A x \in T : m <= x
  <2> HIDE DEF T
  <2>1. 0 \in Int /\ T \in SUBSET Int /\ T # {} /\ \A x \in T : x >= 0
    BY <1>1, <1>2, <1>3
  <2>2. \E m \in T : \A x \in T : m <= x
    BY ONLY <2>1, LeastOf
  <2>3. QED
    BY <2>2
<1>5. m \in Degrees /\ bound(m) /\ m \in Int /\ m >= 0
  BY <1>1
<1>6. \E l \in L : top[l] = m
  <2>1. SUFFICES ASSUME \A l \in L : top[l] # m PROVE FALSE
    OBVIOUS
  <2>2. \A l \in L : top[l] <= m - 1
    BY <1>1, <1>5, <2>1
  <2>3. top[0] <= m - 1
    BY <1>1, <2>2
  <2>4. m - 1 \in Degrees
    <3>1. top[0] \in Int
      BY <1>1
    <3>2. QED
      BY <1>1, <1>5, <2>3, <3>1
  <2>5. m - 1 \in T
    BY <2>2, <2>4
  <2>6. m <= m - 1
    BY <1>4, <2>5
  <2>7. QED
    BY <1>5, <2>6
<1>7. hidegree = CHOOSE d \in Degrees : good(d)
  BY <1>1 DEF hidegree
<1>8. \E d \in Degrees : good(d)
  BY <1>5, <1>6
<1>9. (CHOOSE d \in Degrees : good(d)) \in Degrees /\ good(CHOOSE d \in Degrees : good(d))
  <2> HIDE DEF good
  <2>1. QED
    BY <1>8
<1>10. QED
  BY <1>7, <1>9

\* the head of the loop over degrees;
LEMMA DegreeLoopCore ==
  ASSUME Core, DegreeLoop
  PROVE  Core' /\ Kind
<1>1. /\ pc = "head" /\ n_degree' = n_degree /\ length_limit' = length_limit /\ n_level' = n_level
      /\ UNCHANGED lists /\ npairs' = npairs /\ nleft' = nleft
      /\ IF n_degree > hidegree THEN Return("DONE")
         ELSE IF BeyondLimit(n_degree) THEN Return("DONE_DEGREE_LIMIT")
         ELSE pc' = (IF n_level = 2 THEN "reductions2" ELSE "level") /\ UNCHANGED status
  BY DEF DegreeLoop, At, counts
<1>2. /\ TypeOK /\ PositionInv /\ PairInv /\ Claims /\ n_level \in Int /\ n_level >= 2 /\ n_degree \in Nat
      /\ n_level <= LengthLimit + 2 /\ LengthLimit \in Nat /\ length_limit \in 0 .. LengthLimit
      /\ 1 \in Levels /\ n_level # n_level + 1
  BY NumberFacts DEF Core, PositionInv
<1>a. Kind
  <2>1. status' # "DONE" \/ n_degree > hidegree
    BY <1>1, <1>2 DEF PositionInv, Return
  <2>2. QED
    BY <1>1, <2>1 DEF Kind, Quiet
<1>3. CASE pc' = "idle"
  BY <1>1, <1>3, <1>a, IdleCore
<1>4. CASE /\ ~(n_degree > hidegree) /\ pc' = (IF n_level = 2 THEN "reductions2" ELSE "level")
           /\ status' = status
  <2>1. n_degree <= MaxDegree
    <3>1. hidegree \in 0 .. MaxDegree /\ MaxDegree \in Nat
      BY <1>2, HighDegree, ResolutionAssumption DEF Degrees
    <3>2. QED
      BY <1>2, <1>4, <3>1
  <2>2. /\ ListsTyped' /\ PairInv' /\ Forward /\ SortsRight /\ Listed' = Listed /\ Searched' = Searched
    BY <1>1, <1>2, UnchangedLists
  <2>3. /\ \A k \in Int : GensThrough(k) => GensThrough(k)'
        /\ \A j, k \in Int : SearchedThrough(j, k) => SearchedThrough(j, k)'
    BY <1>2, <2>2, QuietKeeps
  <2>4. /\ GensThrough(n_degree) /\ (n_level > 2 => GensThrough(n_degree + 1))
        /\ SearchedThrough(1, n_degree)
    BY <1>1, <1>2 DEF Claims, GensInv, SearchedInv, InLoop
  <2>5. n_degree \in Int /\ n_degree + 1 \in Int
    BY <1>2
  <2>6. pc' \in {"reductions2", "level"}
    BY <1>4
  <2>7. Arrives
    BY <1>1, <1>2, <2>3, <2>4, <2>5, <2>6 DEF Arrives
  <2>8. (pc' = "reductions2" => n_level = 2) /\ (pc' = "level" => n_level > 2)
    BY <1>2, <1>4
  <2>9. PositionInv'
    BY <1>1, <1>2, <1>4, <2>1, <2>6, <2>8 DEF PositionInv, InLoop
  <2>10. length_limit' <= length_limit
    BY <1>1, <1>2
  <2>11. QED
    BY <1>1, <1>2, <1>a, <2>2, <2>7, <2>9, <2>10, QuietCore
<1>5. QED
  BY <1>1, <1>3, <1>4 DEF Return

\* the head of the loop over levels.
LEMMA LevelCore ==
  ASSUME Core, Level
  PROVE  Core' /\ Kind
<1>1. /\ pc = "level" /\ UNCHANGED lists /\ npairs' = npairs /\ nleft' = nleft /\ length_limit' = length_limit
      /\ status' = status
      /\ IF n_level <= length_limit + 1
           THEN pc' = "pairsBelow" /\ UNCHANGED <<n_level, n_degree>>
           ELSE pc' = "head" /\ n_level' = 2 /\ n_degree' = n_degree + 1
  BY DEF Level, MoreLevels, counts
<1>2. /\ TypeOK /\ PositionInv /\ PairInv /\ Claims /\ Ordered /\ LengthLimit \in Nat /\ LengthLimit >= 1
      /\ n_level <= LengthLimit + 2 /\ length_limit \in 0 .. LengthLimit /\ 1 \in Levels
      /\ Levels \subseteq Nat /\ Degrees \subseteq Nat /\ MaxDegree \in Nat
  BY NumberFacts DEF Core, PositionInv
<1>3. /\ n_level \in Int /\ n_level > 2 /\ n_degree \in Nat /\ n_degree <= MaxDegree
      /\ GensThrough(n_degree) /\ GensThrough(n_degree + 1) /\ SearchedThrough(1, n_degree)
  BY <1>1, LevelFacts
<1>4. /\ ListsTyped' /\ PairInv' /\ Forward /\ SortsRight /\ Listed' = Listed /\ Searched' = Searched
  BY <1>1, <1>2, UnchangedLists
<1>5. /\ \A k \in Int : GensThrough(k) => GensThrough(k)'
      /\ \A j, k \in Int : SearchedThrough(j, k) => SearchedThrough(j, k)'
      /\ \A j, k \in Int : HandledThrough(j, k) => HandledThrough(j, k)'
  BY <1>2, <1>4, QuietKeeps
<1>a. Kind
  <2>1. status' # "DONE"
    BY <1>1, <1>2 DEF PositionInv
  <2>2. QED
    BY <1>1, <2>1 DEF Kind, Quiet
<1>6. CASE n_level <= length_limit + 1 /\ pc' = "pairsBelow" /\ n_level' = n_level /\ n_degree' = n_degree
  <2>1. n_degree \in Int /\ n_degree + 1 \in Int /\ n_level # n_level + 1
    BY <1>3
  <2>2. Arrives
    BY <1>3, <1>5, <1>6, <2>1 DEF Arrives
  <2>3. PositionInv'
    BY <1>1, <1>2, <1>3, <1>6 DEF PositionInv, InLoop
  <2>4. length_limit' <= length_limit
    BY <1>1, <1>2
  <2>5. QED
    BY <1>2, <1>4, <1>6, <1>a, <2>2, <2>3, <2>4, QuietCore
<1>7. CASE ~(n_level <= length_limit + 1) /\ pc' = "head" /\ n_level' = 2 /\ n_degree' = n_degree + 1
  <2>1. TypeOK'
    <3>1. n_level' \in 2 .. LengthLimit + 2 /\ n_degree' \in 0 .. MaxDegree + 1
      BY <1>2, <1>3, <1>7
    <3>2. QED
      BY <1>2, <1>4, <3>1, TypesAgain
  <2>2. PositionInv'
    BY <1>1, <1>2, <1>7 DEF PositionInv, InLoop
  <2>3. SortedInv' /\ (is_sorted' # {} => GensThrough(0)')
    BY <1>2, <1>4, <1>7, <2>1, QuietSorted
  <2>4. n_degree \in Int /\ n_degree + 1 \in Int /\ n_degree' \in Int
    BY <1>3, <1>7
  <2>5. GensInv'
    <3>1. GensThrough(n_degree)'
      BY <1>3, <1>5, <1>7, <2>4
    <3>2. QED
      BY <1>7, <2>3, <3>1 DEF GensInv
  <2>6. SearchedInv'
    <3>1. SUFFICES ASSUME NEW l \in Levels, l = 1 \/ l <= length_limit'
                   PROVE  /\ ~(l < n_level' - 1) /\ ~(l = n_level' - 1 /\ pc' = "reductions")
                          /\ SearchedThrough(l, n_degree)'
      BY DEF SearchedInv
    <3>2. l >= 1 /\ l \in Int
      BY <1>2 DEF Levels
    <3>3. l < n_level - 1
      BY <1>1, <1>2, <1>3, <1>7, <3>1, <3>2
    <3>4. SearchedThrough(l, n_degree + 1)
      BY <1>1, <1>2, <3>1, <3>3 DEF Claims, SearchedInv
    <3>5. SearchedThrough(l, n_degree)'
      BY <1>5, <1>7, <2>4, <3>2, <3>4
    <3>6. ~(l < n_level' - 1) /\ pc' # "reductions"
      BY <1>7, <3>2
    <3>7. QED
      BY <3>5, <3>6
  <2>7. HandledInv'
    <3>1. SUFFICES ASSUME NEW l \in Levels, l = 2 \/ (l > 2 /\ l <= length_limit' + 1)
                   PROVE  /\ HandledThrough(l, n_degree - 1)' /\ ~(l < n_level')
                          /\ ~(pc' \in {"gens", "pairs"}) /\ ~IsSorted(1, n_degree + 1)'
      BY DEF HandledInv
    <3>2. l \in Int /\ l >= 2
      BY <1>2, <3>1
    <3>3. l < n_level
      BY <1>1, <1>2, <1>3, <1>7, <3>1, <3>2
    <3>4. HandledThrough(l, n_degree)
      BY <1>1, <1>2, <3>1, <3>3 DEF Claims, HandledInv
    <3>5. HandledThrough(l, n_degree - 1)'
      <4>1. n_degree' - 1 = n_degree
        BY <1>3, <1>7
      <4>2. QED
        BY <1>5, <2>4, <3>2, <3>4, <4>1
    <3>6. ~IsSorted(1, n_degree + 1)'
      <4>1. SUFFICES ASSUME IsSorted(1, n_degree + 1)' PROVE FALSE
        OBVIOUS
      <4>2. <<1, n_degree + 2>> \in is_sorted
        <5>1. is_sorted' = is_sorted /\ n_degree' + 1 = n_degree + 2
          BY <1>1, <1>3, <1>7 DEF lists
        <5>2. QED
          BY <4>1, <5>1 DEF IsSorted
      <4>3. n_degree + 2 \in Degrees
        BY <1>2, <4>2 DEF TypeOK
      <4>4. n_degree + 2 <= n_degree + 1
        BY <1>2, <4>2, <4>3 DEF Claims, SortedInv, IsSorted
      <4>5. QED
        BY <1>3, <4>4
    <3>7. ~(l < n_level') /\ ~(pc' \in {"gens", "pairs"})
      BY <1>7, <3>2
    <3>8. QED
      BY <3>5, <3>6, <3>7
  <2>8. Ordered'
    <3>1. pair' = pair
      BY <1>1 DEF lists
    <3>2. QED
      BY <1>2, <1>4, <3>1 DEF Ordered
  <2>9. QED
    BY <1>4, <1>a, <2>1, <2>2, <2>3, <2>5, <2>6, <2>7, <2>8 DEF Core, Claims
<1>8. QED
  BY <1>1, <1>6, <1>7

\* Every step keeps the core.
LEMMA NextCore ==
  ASSUME Core, Next
  PROVE  Core' /\ Kind
BY CallCore, InterruptCore, GensFirstCore, PairsFirstCore, DegreeLoopCore, ReductionsTwoCore, GensNextCore,
   PairsNextCore, LevelCore, PairsBelowCore, PairsBelowNextCore, ReductionsAboveCore
   DEF Next, Compute

-----------------------------------------------------------------------------
(* The start.                                                               *)

\* What nleft counts.
GenSet  == {p \in Pairs : pair[p].type = "GEN"}
WaitSet == {p \in Pairs : pair[p].level >= 2 /\ ~Handled(p)}

\* At the start nothing is done.
LEMMA InitCore ==
  ASSUME Init
  PROVE  Core /\ CancelInPairs /\ NLeftTruthful /\ DoneMeansComplete
<1>1. PICK n \in 0 .. MaxGens : pair \in [1 .. n -> [level : {1}, deg : Degrees, type : {"GEN"}]]
  BY DEF Init
<1>2. n \in Nat /\ MaxDegree \in Nat /\ LengthLimit \in Nat /\ LengthLimit >= 1 /\ Degrees = 0 .. MaxDegree
      /\ Levels = 1 .. LengthLimit + 1
  BY ResolutionAssumption DEF Degrees, Levels
<1>3. Pairs = 1 .. n /\ \A p \in Pairs : /\ pair[p] \in PairRec /\ pair[p].level = 1 /\ pair[p].type = "GEN"
                                         /\ pair[p].deg \in Degrees
  BY <1>1, <1>2 DEF Pairs, PairRec, Types, Levels
<1>4. pair \in Seq(PairRec) /\ Len(pair) = n
  <2>1. pair \in [1 .. n -> PairRec]
    BY <1>1, <1>3 DEF Pairs
  <2>2. QED
    BY <1>2, <2>1, IsASeq, LenProperties
<1>5. Listed = {} /\ Searched = {}
  BY <1>3 DEF Listed, Searched
<1>6. /\ top \in [0 .. LengthLimit + 1 -> -1 .. MaxDegree] /\ top[0] >= 0
      /\ \A p \in Pairs : pair[p].deg <= top[1]
      /\ is_sorted = {} /\ next_gen = Pairs /\ next_new_pair = {} /\ next_pair = {}
      /\ n_level = 2 /\ n_degree = 0 /\ length_limit = LengthLimit
      /\ nleft = Len(pair) /\ npairs = Len(pair) /\ status = "NOT_STARTED" /\ pc = "idle"
  BY DEF Init
<1>7. TypeOK
  BY <1>2, <1>4, <1>6 DEF TypeOK, PairRec, Types
<1>8. PositionInv
  BY <1>2, <1>4, <1>6 DEF PositionInv, InLoop
<1>9. PairInv
  <2>1. top[0] >= 0 /\ \A p \in Pairs : pair[p].deg <= top[pair[p].level]
    BY <1>3, <1>6
  <2>2. next_gen = {p \in Pairs : pair[p].type = "GEN"}
    BY <1>3, <1>6
  <2>3. \A p \in Pairs :
       /\ pair[p].level = 1 => pair[p].type \in {"GEN", "REMOVED", "MINIMAL", "NOT_NEEDED"}
       /\ ~(pair[p].level > 1)
       /\ pair[p].type # "S_PAIR"
    BY <1>3
  <2>4. QED
    BY <1>6, <2>1, <2>2, <2>3 DEF PairInv
<1>10. Claims
  <2>1. SortedInv
    BY <1>6 DEF SortedInv, IsSorted
  <2>2. GensInv
    BY <1>6 DEF GensInv
  <2>3. SearchedInv
    <3>1. \A l \in Levels : ~(l < n_level - 1) /\ ~(n_degree > 0) /\ pc = "idle" /\ ~InLoop
      BY <1>2, <1>6 DEF InLoop
    <3>2. QED
      BY <3>1 DEF SearchedInv
  <2>4. HandledInv
    <3>1. \A l : HandledThrough(l, n_degree - 1)
      <4>1. n_degree - 1 = -1
        BY <1>6
      <4>2. QED
        BY <1>7, <4>1, NoneBefore
    <3>2. \A l \in Levels : l = 2 \/ (l > 2 /\ l <= length_limit + 1) => ~(l < n_level)
      BY <1>2, <1>6
    <3>3. pc \notin {"gens", "pairs"} /\ ~IsSorted(1, n_degree + 1)
      BY <1>6 DEF IsSorted
    <3>4. QED
      BY <3>1, <3>2, <3>3 DEF HandledInv
  <2>5. QED
    BY <2>1, <2>2, <2>3, <2>4 DEF Claims
<1>11. Ordered
  BY <1>5 DEF Ordered
<1>12. CancelInPairs
  <2>1. SUFFICES ASSUME NEW l \in 2 .. LengthLimit + 1, NEW d \in Degrees
                 PROVE  Cardinality({p \in InSet(Pairs, l, d) : pair[p].type = "NOT_MINIMAL"})
                        = Cardinality({q \in InSet(Pairs, l - 1, d + 1) : pair[q].type = "NOT_NEEDED"})
    BY DEF CancelInPairs
  <2>2. /\ {p \in InSet(Pairs, l, d) : pair[p].type = "NOT_MINIMAL"} = {}
        /\ {q \in InSet(Pairs, l - 1, d + 1) : pair[q].type = "NOT_NEEDED"} = {}
    BY <1>3 DEF InSet
  <2>3. QED
    BY <2>2
<1>13. NLeftTruthful
  <2>1. GenSet = 1 .. n
    BY <1>3 DEF GenSet
  <2>2. WaitSet = {}
    BY <1>3 DEF WaitSet
  <2>3. Cardinality(1 .. n) = n
    BY <1>2, FS_Interval
  <2>4. Cardinality({}) = 0
    BY FS_EmptySet
  <2>5. nleft = n
    BY <1>4, <1>6
  <2>6. nleft = Cardinality(GenSet) + Cardinality(WaitSet)
    BY <1>2, <2>1, <2>2, <2>3, <2>4, <2>5
  <2>7. QED
    BY <2>6 DEF NLeftTruthful, GenSet, WaitSet
<1>14. DoneMeansComplete
  BY <1>6 DEF DoneMeansComplete
<1>15. QED
  BY <1>7, <1>8, <1>9, <1>10, <1>11, <1>12, <1>13, <1>14 DEF Core

-----------------------------------------------------------------------------
(* What is left to be handled.                                              *)

\* Sets of pairs are finite.
LEMMA FinitePairs ==
  ASSUME TypeOK, NEW S \in SUBSET Pairs
  PROVE  IsFiniteSet(S) /\ Cardinality(S) \in Nat
<1>1. IsFiniteSet(1 .. Len(pair)) /\ Pairs = 1 .. Len(pair)
  BY PairFacts, FS_Interval
<1>2. IsFiniteSet(S)
  BY <1>1, FS_Subset
<1>3. QED
  BY <1>2, FS_CardinalityType

\* What nleft counts is finite, and so has a cardinality.
LEMMA CountedSets ==
  ASSUME TypeOK
  PROVE  /\ IsFiniteSet(GenSet) /\ Cardinality(GenSet) \in Nat
         /\ IsFiniteSet(WaitSet) /\ Cardinality(WaitSet) \in Nat
         /\ NLeftTruthful <=> nleft = Cardinality(GenSet) + Cardinality(WaitSet)
<1>1. GenSet \in SUBSET Pairs /\ WaitSet \in SUBSET Pairs
  BY DEF GenSet, WaitSet
<1>2. QED
  BY <1>1, FinitePairs DEF NLeftTruthful, GenSet, WaitSet

\* Above level 1 nothing is a generator, and everything is listed.
LEMMA AboveListed ==
  ASSUME TypeOK, PairInv, NEW p \in Pairs, pair[p].level >= 2
  PROVE  p \in Listed /\ pair[p].level > 1
<1>1. pair[p].level \in Nat
  BY PairFacts, NumberFacts
<1>2. pair[p].level > 1
  BY <1>1
<1>3. QED
  BY <1>2 DEF PairInv, Listed

\* Nothing changes, or a degree set is sorted.
LEMMA LeftSame ==
  ASSUME Core, TypeOK', NLeftTruthful, nleft' = nleft, Quiet \/ Sorts
  PROVE  NLeftTruthful'
<1>1. TypeOK /\ PairInv
  BY DEF Core
<1>2. /\ pair' = pair /\ Pairs' = Pairs
      /\ \A p \in Listed : Handled(p)' <=> Handled(p)
  <2>1. CASE Quiet
    BY <2>1 DEF Quiet, lists, Pairs, Handled
  <2>2. CASE Sorts
    <3>1. PICK l \in Levels, d \in Nat : SortOnly(l, d)
      BY <2>2 DEF Sorts
    <3>2. QED
      BY <1>1, <3>1, SortOnlyKeeps DEF SortOnly
  <2>3. QED
    BY <2>1, <2>2
<1>3. GenSet' = GenSet
  BY <1>2 DEF GenSet
<1>4. WaitSet' = WaitSet
  BY <1>1, <1>2, AboveListed DEF WaitSet
<1>5. nleft = Cardinality(GenSet) + Cardinality(WaitSet)
  BY <1>1, CountedSets
<1>6. nleft' = Cardinality(GenSet') + Cardinality(WaitSet')
  BY <1>3, <1>4, <1>5
<1>7. QED
  BY <1>6 DEF NLeftTruthful, GenSet, WaitSet

\* A generator is handled.
LEMMA LeftGen ==
  ASSUME Core, NLeftTruthful, HandlesGen
  PROVE  NLeftTruthful'
<1>1. TypeOK /\ PairInv /\ npairs \in Nat
  BY DEF Core, PositionInv
<1>2. PICK p \in next_gen, type \in {"MINIMAL", "REMOVED"} :
        /\ pair[p].level = 1 /\ SetOf(p) \notin is_sorted
        /\ pair' = [pair EXCEPT ![p].type = type] /\ next_gen' = next_gen \ {p}
        /\ UNCHANGED <<top, is_sorted, next_new_pair, next_pair>>
  BY DEF HandlesGen
<1>3. /\ Pairs' = Pairs /\ p \in Pairs
      /\ \A q \in Pairs : /\ pair'[q].level = pair[q].level /\ pair'[q].deg = pair[q].deg
                          /\ pair'[q].type = IF q = p THEN type ELSE pair[q].type
      /\ \A q \in Pairs : pair[q].level # 1 => (Handled(q)' <=> Handled(q))
  BY <1>1, <1>2, GenHandledKeeps, Zenon
<1>4. p \in GenSet
  BY <1>1, <1>2, <1>3 DEF PairInv, GenSet
<1>5. GenSet' = GenSet \ {p}
  BY <1>2, <1>3 DEF GenSet
<1>6. WaitSet' = WaitSet
  <2>1. \A q \in Pairs : pair[q].level >= 2 => pair[q].level # 1
    OBVIOUS
  <2>2. QED
    BY <1>3, <2>1 DEF WaitSet
<1>7. /\ IsFiniteSet(GenSet) /\ Cardinality(GenSet) \in Nat /\ Cardinality(WaitSet) \in Nat
      /\ nleft = Cardinality(GenSet) + Cardinality(WaitSet)
  BY <1>1, CountedSets
<1>8. Cardinality(GenSet') = Cardinality(GenSet) - 1
  BY <1>4, <1>5, <1>7, FS_RemoveElement
<1>9. nleft' = nleft - 1 + (npairs' - npairs) /\ npairs' = npairs
  BY DEF HandlesGen
<1>10. nleft' = Cardinality(GenSet') + Cardinality(WaitSet')
  BY <1>1, <1>6, <1>7, <1>8, <1>9
<1>11. QED
  BY <1>10 DEF NLeftTruthful, GenSet, WaitSet

\* New pairs are made.
LEMMA LeftMade ==
  ASSUME Core, NLeftTruthful, MakesPairs
  PROVE  NLeftTruthful'
<1>1. TypeOK /\ PairInv /\ n_level \in Int /\ n_level >= 2
  BY NumberFacts DEF Core
<1>2. PICK l \in Levels, d \in Nat : \E p :
         /\ PairsMade(p, l, d) /\ n_level = l + 1 /\ n_level \in Levels
         /\ \A k \in Degrees : <<n_level, k>> \in is_sorted => k < d
  BY DEF MakesPairs
<1>3. PICK p : /\ PairsMade(p, l, d) /\ n_level = l + 1 /\ n_level \in Levels
               /\ \A k \in Degrees : <<n_level, k>> \in is_sorted => k < d
  BY <1>2
<1>4. /\ Forward
      /\ \A q \in Pairs : pair'[q] = pair[q]
      /\ \E n \in Nat : npairs' = npairs + n /\ nleft' = nleft + n /\ Pairs' = 1 .. Len(pair) + n
      /\ \A q \in Pairs' \ Pairs : /\ pair'[q].level = n_level /\ pair'[q].deg >= d
                                   /\ pair'[q].type = "S_PAIR" /\ ~Handled(q)'
      /\ \A q \in Pairs : Handled(q)' => Handled(q) \/ pair[q].level = 1
  BY <1>1, <1>3, PairsMadeKeeps
<1>5. PICK n \in Nat : nleft' = nleft + n /\ Pairs' = 1 .. Len(pair) + n
  BY <1>4
<1>6. Pairs = 1 .. Len(pair) /\ Len(pair) \in Nat
  BY <1>1, PairFacts
<1> DEFINE New == Len(pair) + 1 .. Len(pair) + n
<1>7. Pairs' \ Pairs = New /\ Pairs \subseteq Pairs' /\ Pairs' = Pairs \cup New /\ Pairs \cap New = {}
  BY <1>5, <1>6
<1>8. IsFiniteSet(New) /\ Cardinality(New) = n
  <2>1. Len(pair) + 1 \in Int /\ Len(pair) + n \in Int
    BY <1>6
  <2>2. IsFiniteSet(New) /\ Cardinality(New) = IF Len(pair) + 1 > Len(pair) + n THEN 0
                                               ELSE (Len(pair) + n) - (Len(pair) + 1) + 1
    BY <2>1, FS_Interval
  <2>3. QED
    BY <1>6, <2>2
<1> HIDE DEF New
<1>9. GenSet' = GenSet
  <2>1. \A q \in New : pair'[q].type # "GEN"
    BY <1>4, <1>7
  <2>2. QED
    BY <1>4, <1>7, <2>1 DEF GenSet
<1>10. WaitSet' = WaitSet \cup New
  <2>1. \A q \in New : pair'[q].level >= 2 /\ ~Handled(q)'
    BY <1>1, <1>4, <1>7
  <2>2. ASSUME NEW q \in Pairs, pair[q].level >= 2 PROVE Handled(q)' <=> Handled(q)
    <3>1. pair[q].level # 1
      BY <2>2
    <3>2. QED
      BY <1>4, <3>1 DEF Forward
  <2>3. \A q \in Pairs : q \in WaitSet' <=> q \in WaitSet
    BY <1>4, <1>7, <2>2 DEF WaitSet
  <2>4. \A q \in New : q \in WaitSet'
    BY <1>7, <2>1 DEF WaitSet
  <2>5. WaitSet' \subseteq Pairs' /\ WaitSet \subseteq Pairs
    BY DEF WaitSet
  <2>6. QED
    BY <1>7, <2>3, <2>4, <2>5
<1>11. /\ IsFiniteSet(WaitSet) /\ Cardinality(GenSet) \in Nat /\ Cardinality(WaitSet) \in Nat
       /\ nleft = Cardinality(GenSet) + Cardinality(WaitSet)
  BY <1>1, CountedSets
<1>12. Cardinality(WaitSet') = Cardinality(WaitSet) + n
  <2>1. WaitSet \cap New = {}
    BY <1>7 DEF WaitSet
  <2>2. Cardinality(WaitSet \cup New) = Cardinality(WaitSet) + Cardinality(New) - Cardinality({})
    BY <1>8, <1>11, <2>1, FS_Union
  <2>3. Cardinality({}) = 0
    BY FS_EmptySet
  <2>4. QED
    BY <1>8, <1>10, <1>11, <2>2, <2>3
<1>13. nleft' = Cardinality(GenSet') + Cardinality(WaitSet')
  BY <1>5, <1>9, <1>11, <1>12
<1>14. QED
  BY <1>13 DEF NLeftTruthful, GenSet, WaitSet

\* What is known when a pair is reduced.
LEMMA ReducesFacts ==
  ASSUME Core, Reduces
  PROVE  \E p \in Pairs :
           /\ PairReduced(p, n_level, n_degree) /\ pair[p].level = n_level /\ pair[p].deg = n_degree
           /\ ListsTyped' /\ PairInv' /\ Forward /\ Pairs \subseteq Pairs'
           /\ Listed' \ Listed = Pairs' \ Pairs
           /\ \A q \in Pairs : pair[q].level > 1 => (Handled(q)' <=> Handled(q) \/ q = p)
           /\ ~Handled(p)
           /\ \A q \in Pairs : pair'[q].level = pair[q].level /\ pair'[q].deg = pair[q].deg
           /\ pair[p].type \in {"S_PAIR", "NOT_NEEDED"}
           /\ pair'[p].type \in {"NOT_NEEDED", "MINIMAL", "NOT_MINIMAL"}
           /\ \A q \in Pairs : \/ q = p \/ pair'[q].type = pair[q].type
                               \/ /\ q \in Searched /\ pair[q].level = n_level - 1 /\ n_level > 2
                                  /\ pair[q].type = "S_PAIR" /\ pair'[q].type = "NOT_NEEDED"
           /\ \A q \in Pairs' \ Pairs : /\ pair'[q].level = 1 /\ pair'[q].deg = n_degree + 1
                                        /\ pair'[q].type = "NOT_NEEDED" /\ n_level = 2
<1>1. TypeOK /\ PairInv /\ n_level \in Levels /\ n_level > 1 /\ n_degree \in Nat
  BY NumberFacts DEF Core, Reduces
<1>2. PICK p : PairReduced(p, n_level, n_degree)
  BY DEF Reduces
<1>3. n_level = 2 => <<1, n_degree + 1>> \notin is_sorted
  BY DEF Reduces
<1>4. /\ ListsTyped' /\ PairInv' /\ Forward
      /\ Listed' \ Listed = Pairs' \ Pairs
      /\ \A q \in Pairs : pair[q].level > 1 => (Handled(q)' <=> Handled(q) \/ q = p)
      /\ ~Handled(p)
  BY <1>1, <1>2, <1>3, PairReducedKeeps
<1>5. /\ p \in Pairs /\ pair[p].level = n_level /\ pair[p].deg = n_degree /\ Pairs \subseteq Pairs'
      /\ \A q \in Pairs : pair'[q].level = pair[q].level /\ pair'[q].deg = pair[q].deg
      /\ pair[p].type \in {"S_PAIR", "NOT_NEEDED"}
      /\ pair'[p].type \in {"NOT_NEEDED", "MINIMAL", "NOT_MINIMAL"}
      /\ \A q \in Pairs : \/ q = p \/ pair'[q].type = pair[q].type
                          \/ /\ q \in Searched /\ pair[q].level = n_level - 1 /\ n_level > 2
                             /\ pair[q].type = "S_PAIR" /\ pair'[q].type = "NOT_NEEDED"
      /\ \A q \in Pairs' \ Pairs : /\ pair'[q].level = 1 /\ pair'[q].deg = n_degree + 1
                                   /\ pair'[q].type = "NOT_NEEDED" /\ n_level = 2
  BY <1>1, <1>2, ReducedEffect
<1>6. QED
  BY <1>2, <1>4, <1>5

\* A pair is reduced.
LEMMA LeftReduced ==
  ASSUME Core, NLeftTruthful, Reduces
  PROVE  NLeftTruthful'
<1>1. TypeOK /\ PairInv /\ n_level \in Int /\ n_level >= 2 /\ npairs \in Nat
  BY NumberFacts DEF Core, PositionInv
<1>2. PICK p \in Pairs :
           /\ pair[p].level = n_level /\ Pairs \subseteq Pairs' /\ Forward
           /\ \A q \in Pairs : pair[q].level > 1 => (Handled(q)' <=> Handled(q) \/ q = p)
           /\ ~Handled(p)
           /\ \A q \in Pairs : pair'[q].level = pair[q].level
           /\ pair[p].type \in {"S_PAIR", "NOT_NEEDED"}
           /\ \A q \in Pairs : \/ q = p \/ pair'[q].type = pair[q].type \/ pair[q].type = "S_PAIR"
           /\ \A q \in Pairs' \ Pairs : pair'[q].level = 1 /\ pair'[q].type = "NOT_NEEDED"
  BY ReducesFacts
<1>3. GenSet' = GenSet
  <2>1. \A q \in GenSet : q \in Pairs /\ pair'[q].type = "GEN"
    BY <1>2 DEF GenSet
  <2>2. \A q \in GenSet' : q \in GenSet
    BY <1>2 DEF GenSet, Forward
  <2>3. QED
    BY <1>2, <2>1, <2>2 DEF GenSet
<1>4. WaitSet' = WaitSet \ {p} /\ p \in WaitSet
  <2>1. \A q \in Pairs' \ Pairs : ~(pair'[q].level >= 2)
    BY <1>2
  <2>2. \A q \in Pairs : pair[q].level >= 2 => pair[q].level > 1
    BY <1>1, AboveListed
  <2>3. \A q \in WaitSet' : q \in WaitSet \ {p}
    BY <1>2, <2>1, <2>2 DEF WaitSet
  <2>4. \A q \in WaitSet \ {p} : q \in WaitSet'
    BY <1>2, <2>2 DEF WaitSet
  <2>5. p \in WaitSet
    BY <1>1, <1>2 DEF WaitSet
  <2>6. QED
    BY <2>3, <2>4, <2>5
<1>5. /\ IsFiniteSet(WaitSet) /\ Cardinality(GenSet) \in Nat /\ Cardinality(WaitSet) \in Nat
      /\ nleft = Cardinality(GenSet) + Cardinality(WaitSet)
  BY <1>1, CountedSets
<1>6. Cardinality(WaitSet') = Cardinality(WaitSet) - 1
  BY <1>4, <1>5, FS_RemoveElement
<1>7. nleft' = nleft - 1 + (npairs' - npairs) /\ npairs' = npairs
  BY DEF Reduces
<1>8. nleft' = Cardinality(GenSet') + Cardinality(WaitSet')
  BY <1>1, <1>3, <1>5, <1>6, <1>7
<1>9. QED
  BY <1>8 DEF NLeftTruthful, GenSet, WaitSet

\* nleft counts what is left, after every kind of step.
LEMMA LeftKept ==
  ASSUME Core, Core', NLeftTruthful, Kind
  PROVE  NLeftTruthful'
<1>1. TypeOK'
  BY DEF Core
<1>2. CASE Quiet \/ Sorts
  BY <1>1, <1>2, LeftSame DEF Quiet, Sorts
<1>3. QED
  BY <1>2, LeftGen, LeftMade, LeftReduced DEF Kind

-----------------------------------------------------------------------------
(* What cancels.                                                            *)

\* What is not minimal in a degree set, and what was filled in.
NotMinimal(l, d) == {p \in InSet(Pairs, l, d) : pair[p].type = "NOT_MINIMAL"}
FilledIn(l, d)   == {p \in InSet(Pairs, l, d) : pair[p].type = "NOT_NEEDED"}

\* When nothing of either kind comes or goes.
LEMMA CancelSame ==
  ASSUME CancelInPairs, Pairs \subseteq Pairs',
         \A r \in Pairs : /\ pair'[r].level = pair[r].level /\ pair'[r].deg = pair[r].deg
                          /\ pair'[r].type = "NOT_MINIMAL" <=> pair[r].type = "NOT_MINIMAL"
                          /\ pair'[r].type = "NOT_NEEDED" <=> pair[r].type = "NOT_NEEDED",
         \A r \in Pairs' \ Pairs : pair'[r].type \notin {"NOT_MINIMAL", "NOT_NEEDED"}
  PROVE  CancelInPairs'
<1>1. SUFFICES ASSUME NEW l \in 2 .. LengthLimit + 1, NEW d \in Degrees
               PROVE  Cardinality(NotMinimal(l, d)') = Cardinality(FilledIn(l - 1, d + 1)')
  BY DEF CancelInPairs, NotMinimal, FilledIn
<1>2. Cardinality(NotMinimal(l, d)) = Cardinality(FilledIn(l - 1, d + 1))
  BY DEF CancelInPairs, NotMinimal, FilledIn
<1>3. ASSUME NEW k, NEW e PROVE NotMinimal(k, e)' = NotMinimal(k, e) /\ FilledIn(k, e)' = FilledIn(k, e)
  BY DEF NotMinimal, FilledIn, InSet
<1>4. QED
  BY <1>2, <1>3

\* When a syzygy p is no longer minimal, and q, a level below and a degree above, is filled in.
LEMMA CancelBoth ==
  ASSUME TypeOK, CancelInPairs, NEW p \in Pairs, NEW q \in Pairs', p # q, Pairs' = Pairs \cup {q},
         pair[p].type \notin {"NOT_MINIMAL", "NOT_NEEDED"}, pair'[p].type = "NOT_MINIMAL",
         q \in Pairs => pair[q].type \notin {"NOT_MINIMAL", "NOT_NEEDED"}, pair'[q].type = "NOT_NEEDED",
         pair'[q].level = pair[p].level - 1, pair'[q].deg = pair[p].deg + 1,
         \A r \in Pairs : pair'[r].level = pair[r].level /\ pair'[r].deg = pair[r].deg,
         \A r \in Pairs : r = p \/ r = q \/ pair'[r].type = pair[r].type
  PROVE  CancelInPairs'
<1>1. SUFFICES ASSUME NEW l \in 2 .. LengthLimit + 1, NEW d \in Degrees
               PROVE  Cardinality(NotMinimal(l, d)') = Cardinality(FilledIn(l - 1, d + 1)')
  BY DEF CancelInPairs, NotMinimal, FilledIn
<1>2. Cardinality(NotMinimal(l, d)) = Cardinality(FilledIn(l - 1, d + 1))
  BY DEF CancelInPairs, NotMinimal, FilledIn
<1>3. l \in Int /\ d \in Int /\ pair[p].level \in Int /\ pair[p].deg \in Int
  <2>1. MaxDegree \in Int /\ LengthLimit \in Int
    BY ResolutionAssumption
  <2>2. pair[p].level \in Levels /\ pair[p].deg \in Degrees
    BY PairFacts
  <2>3. QED
    BY ONLY <2>1, <2>2 DEF Levels, Degrees
<1>4. /\ IsFiniteSet(NotMinimal(l, d)) /\ IsFiniteSet(FilledIn(l - 1, d + 1))
      /\ Cardinality(NotMinimal(l, d)) \in Nat
  <2>1. NotMinimal(l, d) \in SUBSET Pairs /\ FilledIn(l - 1, d + 1) \in SUBSET Pairs
    BY DEF NotMinimal, FilledIn, InSet
  <2>2. QED
    BY <2>1, FinitePairs
<1>5. p \notin NotMinimal(l, d) /\ q \notin FilledIn(l - 1, d + 1)
  <2>1. p \notin NotMinimal(l, d)
    BY DEF NotMinimal
  <2>2. q \notin FilledIn(l - 1, d + 1)
    BY DEF FilledIn, InSet
  <2>3. QED
    BY <2>1, <2>2
<1>6. ASSUME NEW r, r # p PROVE r \in NotMinimal(l, d)' <=> r \in NotMinimal(l, d)
  BY <1>6 DEF NotMinimal, InSet
<1>7. ASSUME NEW r, r # q PROVE r \in FilledIn(l - 1, d + 1)' <=> r \in FilledIn(l - 1, d + 1)
  BY <1>7 DEF FilledIn, InSet
<1>8. CASE pair[p].level = l /\ pair[p].deg = d
  <2>1. p \in NotMinimal(l, d)'
    BY <1>8 DEF NotMinimal, InSet
  <2>2. q \in FilledIn(l - 1, d + 1)'
    BY <1>8 DEF FilledIn, InSet
  <2>3. NotMinimal(l, d)' = NotMinimal(l, d) \cup {p}
    BY <1>6, <2>1
  <2>4. FilledIn(l - 1, d + 1)' = FilledIn(l - 1, d + 1) \cup {q}
    BY <1>7, <2>2
  <2>5. Cardinality(NotMinimal(l, d)') = Cardinality(NotMinimal(l, d)) + 1
    BY <1>4, <1>5, <2>3, FS_AddElement
  <2>6. Cardinality(FilledIn(l - 1, d + 1)') = Cardinality(FilledIn(l - 1, d + 1)) + 1
    BY <1>4, <1>5, <2>4, FS_AddElement
  <2>7. QED
    BY <1>2, <2>5, <2>6
<1>9. CASE ~(pair[p].level = l /\ pair[p].deg = d)
  <2>1. p \notin NotMinimal(l, d)'
    BY <1>9 DEF NotMinimal, InSet
  <2>2. q \notin FilledIn(l - 1, d + 1)'
    <3>1. ~(pair[p].level - 1 = l - 1 /\ pair[p].deg + 1 = d + 1)
      BY <1>3, <1>9
    <3>2. QED
      BY <3>1 DEF FilledIn, InSet
  <2>3. NotMinimal(l, d)' = NotMinimal(l, d)
    BY <1>5, <1>6, <2>1
  <2>4. FilledIn(l - 1, d + 1)' = FilledIn(l - 1, d + 1)
    <3>1. ASSUME NEW r PROVE r \in FilledIn(l - 1, d + 1)' <=> r \in FilledIn(l - 1, d + 1)
      BY <1>5, <1>7, <2>2
    <3>2. QED
      BY <3>1, Zenon
  <2>5. Cardinality(NotMinimal(l, d)') = Cardinality(NotMinimal(l, d))
    BY <2>3
  <2>6. Cardinality(FilledIn(l - 1, d + 1)') = Cardinality(FilledIn(l - 1, d + 1))
    BY <2>4
  <2>7. QED
    BY <1>2, <2>5, <2>6
<1>10. QED
  BY <1>8, <1>9

\* The pair that a reduction fills in is of the next degree: what is of this degree is reduced.
LEMMA FilledNext ==
  ASSUME Core, pc = "reductions", NEW q \in Searched, pair[q].level = n_level - 1,
         pair[q].type = "S_PAIR", pair[q].deg <= n_degree + 1
  PROVE  pair[q].deg = n_degree + 1
<1>1. /\ TypeOK /\ PairInv /\ n_level \in Int /\ n_level > 2 /\ n_degree \in Nat /\ n_level - 1 \in Levels
      /\ n_level <= length_limit + 1 /\ length_limit \in Int
  BY LevelFacts, ResolutionAssumption DEF Core, PositionInv
<1>2. q \in Pairs /\ SetOf(q) \in is_sorted
  BY DEF Searched, Listed, SetOf
<1>3. q \in next_pair
  BY <1>1, <1>2 DEF PairInv, IsSorted, SetOf
<1>4. ~Handled(q)
  BY <1>3 DEF Handled
<1>5. HandledThrough(n_level - 1, n_degree)
  <2>1. /\ n_level - 1 < n_level
        /\ n_level - 1 = 2 \/ (n_level - 1 > 2 /\ n_level - 1 <= length_limit + 1)
    BY <1>1
  <2>2. QED
    BY <1>1, <2>1 DEF Core, Claims, HandledInv
<1>6. ~(pair[q].deg <= n_degree)
  BY <1>2, <1>4, <1>5 DEF HandledThrough
<1>7. pair[q].deg \in Int
  BY <1>1, <1>2, PairFacts, NumberFacts
<1>8. QED
  BY <1>1, <1>6, <1>7

\* A pair is reduced.
LEMMA CancelReduced ==
  ASSUME Core, CancelInPairs, Reduces
  PROVE  CancelInPairs'
<1>1. TypeOK /\ PairInv /\ n_level \in Int /\ n_degree \in Nat /\ n_level \in Levels /\ n_level > 1
  BY NumberFacts DEF Core, Reduces
<1>2. PICK p \in Pairs :
           /\ PairReduced(p, n_level, n_degree) /\ pair[p].level = n_level /\ pair[p].deg = n_degree
           /\ Pairs \subseteq Pairs'
           /\ \A q \in Pairs : pair'[q].level = pair[q].level /\ pair'[q].deg = pair[q].deg
           /\ pair[p].type \in {"S_PAIR", "NOT_NEEDED"}
  BY ReducesFacts
<1>3. CASE Skip(p)
  <2>1. pair' = pair /\ Pairs' = Pairs
    BY <1>3 DEF Skip, Pairs
  <2>2. QED
    BY <2>1, CancelSame
<1>4. CASE Minimal(p)
  <2>1. pair[p].type = "S_PAIR"
    BY <1>2, <1>4 DEF Minimal, NotNeeded
  <2>2. /\ Pairs' = Pairs
        /\ \A r \in Pairs : pair'[r].type = IF r = p THEN "MINIMAL" ELSE pair[r].type
    <3> DEFINE u == pair'
    <3>1. u = [pair EXCEPT ![p].type = "MINIMAL"] /\ pair \in Seq(PairRec) /\ p \in DOMAIN pair
          /\ "MINIMAL" \in Types
      BY <1>1, <1>4, PairFacts DEF Types, Minimal, Pairs
    <3> HIDE DEF u
    <3>2. /\ DOMAIN u = DOMAIN pair
          /\ \A r \in DOMAIN pair : u[r].type = IF r = p THEN "MINIMAL" ELSE pair[r].type
      BY ONLY <3>1, Retyped
    <3>3. QED
      BY <3>2 DEF u, Pairs
  <2>3. \A r \in Pairs : /\ pair'[r].type = "NOT_MINIMAL" <=> pair[r].type = "NOT_MINIMAL"
                         /\ pair'[r].type = "NOT_NEEDED" <=> pair[r].type = "NOT_NEEDED"
    BY <2>1, <2>2
  <2>4. QED
    BY <1>2, <2>2, <2>3, CancelSame
<1>5. CASE FillsInNew(p)
  <2>1. pair[p].type = "S_PAIR" /\ n_level = 2
    BY <1>2, <1>5 DEF FillsInNew, NotNeeded
  <2>2. /\ Len(pair) + 1 \notin Pairs /\ Pairs' = Pairs \cup {Len(pair) + 1}
        /\ \A r \in Pairs : pair'[r].type = IF r = p THEN "NOT_MINIMAL" ELSE pair[r].type
        /\ pair'[Len(pair) + 1] = [level |-> 1, deg |-> pair[p].deg + 1, type |-> "NOT_NEEDED"]
    BY <1>1, <1>5, FillsInNewEffect
  <2>3. PICK q : q = Len(pair) + 1
    OBVIOUS
  <2>4. /\ q \notin Pairs /\ Pairs' = Pairs \cup {q} /\ q \in Pairs' /\ p # q
        /\ \A r \in Pairs : pair'[r].type = IF r = p THEN "NOT_MINIMAL" ELSE pair[r].type
        /\ pair'[q].level = 1 /\ pair'[q].deg = pair[p].deg + 1 /\ pair'[q].type = "NOT_NEEDED"
    BY <1>2, <2>2, <2>3
  <2>5. pair'[q].level = pair[p].level - 1
    BY <1>2, <2>1, <2>4
  <2>6. QED
    BY <1>1, <1>2, <2>1, <2>4, <2>5, CancelBoth
<1>6. ASSUME NEW q \in Pairs, FillsIn(p, q) PROVE CancelInPairs'
  <2>1. /\ pair[p].type = "S_PAIR" /\ n_level > 2 /\ q \in Searched /\ pair[q].level = n_level - 1
        /\ pair[q].type = "S_PAIR" /\ pair[q].deg <= n_degree + 1
    BY <1>2, <1>6 DEF FillsIn, NotNeeded
  <2>2. p # q
    BY <1>1, <1>2, <2>1
  <2>3. /\ Pairs' = Pairs
        /\ \A r \in Pairs : pair'[r].type = IF r = p THEN "NOT_MINIMAL"
                                            ELSE IF r = q THEN "NOT_NEEDED" ELSE pair[r].type
    BY <1>1, <1>6, <2>2, FillsInEffect
  <2>4. pc = "reductions"
    BY <2>1 DEF Reduces, Core, PositionInv
  <2>5. pair[q].deg = n_degree + 1
    BY <2>1, <2>4, FilledNext
  <2>6. pair'[q].level = pair[p].level - 1 /\ pair'[q].deg = pair[p].deg + 1
    BY <1>2, <2>1, <2>5
  <2>7. QED
    BY <1>1, <1>2, <2>1, <2>2, <2>3, <2>6, CancelBoth
<1>7. QED
  BY <1>2, <1>3, <1>4, <1>5, <1>6 DEF PairReduced

\* What is not minimal cancels, after every kind of step.
LEMMA CancelKept ==
  ASSUME Core, CancelInPairs, Kind
  PROVE  CancelInPairs'
<1>1. TypeOK /\ PairInv /\ n_level \in Int /\ n_level >= 2
  BY NumberFacts DEF Core
<1>2. CASE Quiet \/ Sorts
  <2>1. pair' = pair /\ Pairs' = Pairs
    BY <1>2 DEF Quiet, Sorts, SortOnly, lists, Pairs
  <2>2. QED
    BY <2>1, CancelSame
<1>3. CASE HandlesGen
  <2>1. PICK p \in next_gen, type \in {"MINIMAL", "REMOVED"} :
          /\ pair[p].level = 1 /\ SetOf(p) \notin is_sorted
          /\ pair' = [pair EXCEPT ![p].type = type] /\ next_gen' = next_gen \ {p}
          /\ UNCHANGED <<top, is_sorted, next_new_pair, next_pair>>
    BY <1>3 DEF HandlesGen
  <2>2. /\ Pairs' = Pairs /\ p \in Pairs
        /\ \A q \in Pairs : /\ pair'[q].level = pair[q].level /\ pair'[q].deg = pair[q].deg
                            /\ pair'[q].type = IF q = p THEN type ELSE pair[q].type
    BY <1>1, <2>1, GenHandledKeeps, Zenon
  <2>3. pair[p].type = "GEN"
    BY <1>1, <2>1 DEF PairInv
  <2>4. \A q \in Pairs : /\ pair'[q].type = "NOT_MINIMAL" <=> pair[q].type = "NOT_MINIMAL"
                         /\ pair'[q].type = "NOT_NEEDED" <=> pair[q].type = "NOT_NEEDED"
    BY <2>2, <2>3
  <2>5. QED
    BY <2>2, <2>4, CancelSame
<1>4. CASE MakesPairs
  <2>1. PICK l \in Levels, d \in Nat : \E p :
           /\ PairsMade(p, l, d) /\ n_level = l + 1 /\ n_level \in Levels
           /\ \A k \in Degrees : <<n_level, k>> \in is_sorted => k < d
    BY <1>4 DEF MakesPairs
  <2>2. PICK p : /\ PairsMade(p, l, d) /\ n_level = l + 1 /\ n_level \in Levels
                 /\ \A k \in Degrees : <<n_level, k>> \in is_sorted => k < d
    BY <2>1
  <2>3. /\ Forward /\ \A q \in Pairs : pair'[q] = pair[q]
        /\ \A q \in Pairs' \ Pairs : /\ pair'[q].level = n_level /\ pair'[q].deg >= d
                                     /\ pair'[q].type = "S_PAIR" /\ ~Handled(q)'
    BY <1>1, <2>2, PairsMadeKeeps
  <2>4. QED
    BY <2>3, CancelSame DEF Forward
<1>5. CASE Reduces
  BY <1>5, CancelReduced
<1>6. QED
  BY <1>2, <1>3, <1>4, <1>5 DEF Kind

-----------------------------------------------------------------------------
(* What the claims say.                                                     *)

\* What is handled is not open.
LEMMA HandledNotOpen ==
  ASSUME PairInv, NEW p \in Pairs, Handled(p)
  PROVE  ~Open(p)
BY DEF PairInv, Handled, Open, IsSorted

\* A call that is done has left nothing open.
LEMMA DoneKept ==
  ASSUME Core, DoneMeansComplete, Kind
  PROVE  DoneMeansComplete'
<1>1. SUFFICES ASSUME Quiet, length_limit' = length_limit, n_degree > hidegree,
                      NEW p \in Pairs, pair[p].level <= length_limit + 1
               PROVE  ~Open(p)
  BY DEF Kind, Quiet, Sorts, HandlesGen, MakesPairs, Reduces, DoneMeansComplete, Pairs, Open, lists
<1>2. /\ TypeOK /\ PairInv /\ n_degree \in Nat /\ hidegree \in Nat /\ pair[p].level \in Levels
      /\ pair[p].deg \in Nat /\ Levels = 1 .. LengthLimit + 1 /\ LengthLimit \in Nat
      /\ pair[p].level \in 0 .. LengthLimit + 1
  BY PairFacts, NumberFacts, HighDegree DEF Core, Levels
<1>3. pair[p].deg <= hidegree
  <2>1. pair[p].deg <= top[pair[p].level] /\ top[pair[p].level] <= hidegree
    BY <1>2, HighDegree DEF PairInv
  <2>2. top[pair[p].level] \in Int
    BY <1>2 DEF TypeOK
  <2>3. QED
    BY <1>2, <2>1, <2>2
<1>4. pair[p].deg <= n_degree - 1 /\ pair[p].deg <= n_degree /\ n_degree > 0
  BY <1>1, <1>2, <1>3
<1>5. CASE pair[p].level = 1
  <2>1. GensThrough(n_degree)
    BY <1>4 DEF Core, Claims, GensInv
  <2>2. pair[p].type # "GEN"
    BY <1>2, <1>4, <2>1 DEF GensThrough
  <2>3. QED
    BY <1>2, <1>5, <2>2 DEF PairInv, Open
<1>6. CASE pair[p].level # 1
  <2>1. pair[p].level = 2 \/ (pair[p].level > 2 /\ pair[p].level <= length_limit + 1)
    BY <1>1, <1>2, <1>6
  <2>2. HandledThrough(pair[p].level, n_degree - 1)
    BY <1>2, <2>1 DEF Core, Claims, HandledInv
  <2>3. Handled(p)
    BY <1>4, <2>2 DEF HandledThrough
  <2>4. QED
    BY <1>2, <2>3, HandledNotOpen
<1>7. QED
  BY <1>5, <1>6

\* Pairs are made in order: a resumed call makes none of degree 0 once a level above 2 is reached.
LEMMA InOrder ==
  ASSUME Core
  PROVE  PairsInOrder
<1>1. TypeOK /\ PairInv /\ n_level \in Int /\ n_degree \in Nat /\ 1 \in Levels /\ 0 \in Nat
  BY NumberFacts DEF Core
<1>2. ASSUME pc = "pairs0", n_level > 2, InSet(next_new_pair \cup Sorting(1, 0), 1, 0) # {} PROVE FALSE
  <2>1. PICK p \in InSet(next_new_pair \cup Sorting(1, 0), 1, 0) : TRUE
    BY <1>2
  <2>2. SearchedThrough(1, n_degree + 1)
    <3>1. 1 < n_level - 1
      BY <1>1, <1>2
    <3>2. QED
      BY <1>1, <3>1 DEF Core, Claims, SearchedInv
  <2>3. n_degree + 1 < 0
    BY <1>1, <2>1, <2>2, PairLeft
  <2>4. QED
    BY <1>1, <2>3
<1>3. Ordered
  BY DEF Core
<1>4. QED
  BY <1>2, <1>3 DEF PairsInOrder, Ordered

\* The inductive invariant without what follows from the rest.
LEMMA WholeInv ==
  IInv <=> Core /\ NLeftTruthful /\ CancelInPairs /\ DoneMeansComplete
<1>1. PairsInOrder => Ordered
  BY DEF PairsInOrder, Ordered
<1>2. QED
  BY <1>1, InOrder DEF IInv, Core, Claims

-----------------------------------------------------------------------------
(* The theorems.                                                            *)

\* A step that changes nothing.
LEMMA StutterInv ==
  ASSUME IInv, UNCHANGED vars
  PROVE  IInv'
<1>1. /\ pair' = pair /\ top' = top /\ is_sorted' = is_sorted /\ next_gen' = next_gen
      /\ next_new_pair' = next_new_pair /\ next_pair' = next_pair /\ n_level' = n_level
      /\ n_degree' = n_degree /\ length_limit' = length_limit /\ nleft' = nleft /\ npairs' = npairs
      /\ status' = status /\ pc' = pc
  BY DEF vars, lists, counts
<1>2. Core /\ NLeftTruthful /\ CancelInPairs /\ DoneMeansComplete
  BY WholeInv
<1>3. UNCHANGED lists /\ UNCHANGED <<n_level, n_degree, length_limit>>
  BY <1>1 DEF lists
<1>4. Core'
  <2>1. pc' # "idle" => status' = "COMPUTING"
    BY <1>1, <1>2 DEF Core, PositionInv
  <2>2. QED
    BY <1>1, <1>2, <1>3, <2>1, IdleCore
<1>5. NLeftTruthful'
  BY <1>1, <1>2 DEF NLeftTruthful, Pairs, Handled
<1>6. CancelInPairs'
  BY <1>1, <1>2, CancelSame DEF Pairs
<1>7. DoneMeansComplete'
  BY <1>1, <1>2 DEF DoneMeansComplete, Pairs, Open
<1>8. QED
  BY <1>4, <1>5, <1>6, <1>7, WholeInv, PTL

\* The inductive invariant of the resolution.
THEOREM ResolutionInvariant == Spec => []IInv
<1>1. Init => IInv
  BY InitCore, WholeInv
<1>2. IInv /\ [Next]_vars => IInv'
  <2>1. SUFFICES ASSUME IInv, [Next]_vars PROVE IInv'
    OBVIOUS
  <2>2. CASE UNCHANGED vars
    BY <2>1, <2>2, StutterInv
  <2>3. CASE Next
    <3>1. Core /\ NLeftTruthful /\ CancelInPairs /\ DoneMeansComplete
      BY <2>1, WholeInv
    <3>2. Core' /\ Kind
      BY <2>3, <3>1, NextCore
    <3>3. NLeftTruthful' /\ CancelInPairs' /\ DoneMeansComplete'
      BY <3>1, <3>2, LeftKept, CancelKept, DoneKept
    <3>4. QED
      BY <3>2, <3>3, WholeInv, PTL
  <2>4. QED
    BY <2>1, <2>2, <2>3
<1>3. QED
  BY <1>1, <1>2, PTL DEF Spec

\* The frame is sound: types, the order of new pairs, the count of what is left, and the
\* cancelling of what is not minimal, for any limits, stops and interrupts.
THEOREM FrameSoundAlways == Spec => []FrameSound
<1>1. IInv => FrameSound
  BY DEF IInv, FrameSound
<1>2. QED
  BY <1>1, ResolutionInvariant, PTL

\* When a level is reduced in a degree, all that a reduction can come to is ready.
LEMMA CoreReady ==
  ASSUME Core
  PROVE  ReductionReady
<1>1. /\ TypeOK /\ PairInv /\ n_level \in Int /\ n_degree \in Nat /\ Levels \subseteq Nat
      /\ 1 \in Levels /\ 2 \in Levels
  BY NumberFacts DEF Core
<1>2. \A q \in Pairs : pair[q].level \in Levels /\ pair[q].level \in Nat /\ pair[q].deg \in Nat
  BY <1>1, PairFacts, NumberFacts
<1>3. ASSUME pc = "reductions2", NEW q \in Pairs, pair[q].level = n_level - 1, pair[q].deg <= n_degree
      PROVE  ~Open(q)
  <2>1. n_level = 2 /\ pair[q].level = 1
    BY <1>1, <1>3 DEF Core, PositionInv
  <2>2. GensThrough(n_degree)
    BY <1>3 DEF Core, Claims, GensInv
  <2>3. pair[q].type # "GEN"
    BY <1>1, <1>2, <1>3, <2>2 DEF GensThrough
  <2>4. QED
    BY <1>1, <2>1, <2>3 DEF PairInv, Open
<1>4. ASSUME pc = "reductions", NEW q \in Pairs, pair[q].level = n_level - 1
      PROVE  /\ pair[q].deg <= n_degree => ~Open(q)
             /\ pair[q].deg <= n_degree + 1 => q \in Searched
  <2>1. n_level > 2 /\ n_level - 1 \in Levels /\ n_level <= length_limit + 1 /\ length_limit \in Int
    BY <1>4, LevelFacts, ResolutionAssumption DEF Core, PositionInv
  <2>2. /\ n_level - 1 < n_level /\ n_level - 1 <= length_limit /\ n_level - 1 >= 2
        /\ n_level - 1 = 2 \/ (n_level - 1 > 2 /\ n_level - 1 <= length_limit + 1)
    BY <1>1, <2>1
  <2>3. HandledThrough(n_level - 1, n_degree)
    BY <2>1, <2>2 DEF Core, Claims, HandledInv
  <2>4. SearchedThrough(n_level - 1, n_degree + 1)
    BY <1>4, <2>1, <2>2 DEF Core, Claims, SearchedInv
  <2>5. q \in Listed
    BY <1>1, <1>4, <2>2, AboveListed
  <2>6. pair[q].deg <= n_degree => ~Open(q)
    BY <1>1, <1>4, <2>3, HandledNotOpen DEF HandledThrough
  <2>7. pair[q].deg <= n_degree + 1 => q \in Searched
    BY <1>4, <2>4, <2>5 DEF SearchedThrough
  <2>8. QED
    BY <2>6, <2>7
<1>5. ASSUME pc = "gens", NEW q \in Pairs, pair[q].level = 2, pair[q].deg <= n_degree
      PROVE  Handled(q)
  <2>1. HandledThrough(2, n_degree)
    BY <1>1, <1>5 DEF Core, Claims, HandledInv
  <2>2. QED
    BY <1>5, <2>1 DEF HandledThrough
<1>6. QED
  BY <1>3, <1>4, <1>5 DEF ReductionReady

\* So it is always, whatever stopped a call before.
THEOREM ReductionReadyAlways == Spec => []ReductionReady
<1>1. IInv => ReductionReady
  BY WholeInv, CoreReady
<1>2. QED
  BY <1>1, ResolutionInvariant, PTL

\* complete_thru_degree tells the truth wherever the computation stops, and DONE means complete.
THEOREM StatusTruthfulAlways == Spec => []StatusTruthful
<1>1. IInv => StatusTruthful
  <2>1. SUFFICES ASSUME Core, DoneMeansComplete PROVE StatusTruthful
    BY WholeInv
  <2>2. SUFFICES ASSUME NEW p \in Pairs, pair[p].level <= length_limit + 1, Open(p),
                        ~(pair[p].deg >= n_degree)
                 PROVE  FALSE
    BY <2>1 DEF StatusTruthful, CompleteThruTruthful
  <2>3. /\ TypeOK /\ PairInv /\ n_degree \in Nat /\ pair[p].level \in Levels
        /\ pair[p].deg \in Nat /\ Levels = 1 .. LengthLimit + 1 /\ LengthLimit \in Nat
    BY <2>1, PairFacts, NumberFacts DEF Core, Levels
  <2>4. pair[p].deg <= n_degree - 1 /\ pair[p].deg <= n_degree /\ n_degree > 0
    BY <2>2, <2>3
  <2>5. CASE pair[p].level = 1
    <3>1. GensThrough(n_degree)
      BY <2>1, <2>4 DEF Core, Claims, GensInv
    <3>2. pair[p].type # "GEN"
      BY <2>3, <2>4, <3>1 DEF GensThrough
    <3>3. QED
      BY <2>2, <2>3, <2>5, <3>2 DEF PairInv, Open
  <2>6. CASE pair[p].level # 1
    <3>1. pair[p].level = 2 \/ (pair[p].level > 2 /\ pair[p].level <= length_limit + 1)
      BY <2>2, <2>3, <2>6
    <3>2. HandledThrough(pair[p].level, n_degree - 1)
      BY <2>1, <2>3, <3>1 DEF Core, Claims, HandledInv
    <3>3. Handled(p)
      BY <2>4, <3>2 DEF HandledThrough
    <3>4. QED
      BY <2>2, <2>3, <3>3, HandledNotOpen
  <2>7. QED
    BY <2>5, <2>6
<1>2. QED
  BY <1>1, ResolutionInvariant, PTL

\* The minimal pairs of a degree set.
MinimalPairs(l, d) == {p \in InSet(Pairs, l, d) : pair[p].type = "MINIMAL"}

\* When only a pair p becomes minimal, or leaves off being minimal, only its degree set counts it.
LEMMA BettiKept ==
  ASSUME NEW l, NEW d, Pairs \subseteq Pairs',
         \A r \in Pairs : /\ pair'[r].level = pair[r].level /\ pair'[r].deg = pair[r].deg
                          /\ \/ pair'[r].type = "MINIMAL" <=> pair[r].type = "MINIMAL"
                             \/ ~(pair[r].level = l /\ pair[r].deg = d),
         \A r \in Pairs' \ Pairs : pair'[r].type # "MINIMAL"
  PROVE  Cardinality(MinimalPairs(l, d)') = Cardinality(MinimalPairs(l, d))
<1>1. MinimalPairs(l, d)' = MinimalPairs(l, d)
  <2>1. ASSUME NEW r \in Pairs PROVE r \in MinimalPairs(l, d)' <=> r \in MinimalPairs(l, d)
    BY DEF MinimalPairs, InSet
  <2>2. \A r \in MinimalPairs(l, d)' : r \in Pairs
    BY DEF MinimalPairs, InSet
  <2>3. \A r \in MinimalPairs(l, d) : r \in Pairs
    BY DEF MinimalPairs, InSet
  <2>4. QED
    BY <2>1, <2>2, <2>3
<1>2. QED
  BY <1>1

\* The Betti number of a degree set that is final, for this step.
Final(l, d) == <<l, d>> \in is_sorted /\ (d < n_degree \/ (d = n_degree /\ l < n_level))

\* No kind of step adds to a sorted degree set, or changes a Betti number that is final.
LEMMA KindSettled ==
  ASSUME Core, Kind
  PROVE  /\ NothingLate
         /\ \A l, d : Final(l, d) => Cardinality(MinimalPairs(l, d)') = Cardinality(MinimalPairs(l, d))
<1>1. /\ TypeOK /\ PairInv /\ n_level \in Int /\ n_level >= 2 /\ n_degree \in Nat /\ Degrees \subseteq Nat
  BY NumberFacts DEF Core
<1>2. CASE Quiet \/ Sorts
  <2>1. pair' = pair /\ Pairs' = Pairs /\ Listed' = Listed
    BY <1>2 DEF Quiet, Sorts, SortOnly, lists, Pairs, Listed
  <2>2. NothingLate
    BY <2>1 DEF NothingLate
  <2>3. \A l, d : MinimalPairs(l, d)' = MinimalPairs(l, d)
    BY <2>1 DEF MinimalPairs, InSet
  <2>4. QED
    BY <2>2, <2>3
<1>3. CASE HandlesGen
  <2>1. PICK p \in next_gen, type \in {"MINIMAL", "REMOVED"} :
          /\ pair[p].level = 1 /\ SetOf(p) \notin is_sorted
          /\ pair' = [pair EXCEPT ![p].type = type] /\ next_gen' = next_gen \ {p}
          /\ UNCHANGED <<top, is_sorted, next_new_pair, next_pair>>
    BY <1>3 DEF HandlesGen
  <2>2. /\ Pairs' = Pairs /\ p \in Pairs
        /\ \A q \in Pairs : /\ pair'[q].level = pair[q].level /\ pair'[q].deg = pair[q].deg
                            /\ pair'[q].type = IF q = p THEN type ELSE pair[q].type
        /\ Listed' \ Listed \subseteq {p}
    BY <1>1, <2>1, GenHandledKeeps, Zenon
  <2>3. NothingLate
    <3>1. <<pair'[p].level, pair'[p].deg>> = SetOf(p)
      BY <2>2 DEF SetOf
    <3>2. QED
      BY <2>1, <2>2, <3>1 DEF NothingLate
  <2>4. ASSUME NEW l, NEW d, Final(l, d)
        PROVE  Cardinality(MinimalPairs(l, d)') = Cardinality(MinimalPairs(l, d))
    <3>1. ~(pair[p].level = l /\ pair[p].deg = d)
      BY <2>1, <2>4 DEF Final, SetOf
    <3>2. \A r \in Pairs : /\ pair'[r].level = pair[r].level /\ pair'[r].deg = pair[r].deg
                           /\ \/ pair'[r].type = "MINIMAL" <=> pair[r].type = "MINIMAL"
                              \/ ~(pair[r].level = l /\ pair[r].deg = d)
      BY <2>2, <3>1
    <3>3. QED
      BY <2>2, <3>2, BettiKept
  <2>5. QED
    BY <2>3, <2>4
<1>4. CASE MakesPairs
  <2>1. PICK l \in Levels, d \in Nat : \E p :
           /\ PairsMade(p, l, d) /\ n_level = l + 1 /\ n_level \in Levels
           /\ \A k \in Degrees : <<n_level, k>> \in is_sorted => k < d
    BY <1>4 DEF MakesPairs
  <2>2. PICK p : /\ PairsMade(p, l, d) /\ n_level = l + 1 /\ n_level \in Levels
                 /\ \A k \in Degrees : <<n_level, k>> \in is_sorted => k < d
    BY <2>1
  <2>3. /\ Forward /\ \A q \in Pairs : pair'[q] = pair[q]
        /\ \A q \in Pairs' \ Pairs : /\ pair'[q].level = n_level /\ pair'[q].deg >= d
                                     /\ pair'[q].type = "S_PAIR" /\ ~Handled(q)'
        /\ Listed' \ Listed = Pairs' \ Pairs
    BY <1>1, <2>2, PairsMadeKeeps
  <2>4. NothingLate
    <3>1. SUFFICES ASSUME NEW q \in Pairs' \ Pairs, <<n_level, pair'[q].deg>> \in is_sorted PROVE FALSE
      BY <2>3 DEF NothingLate
    <3>2. pair'[q].deg \in Degrees
      BY <1>1, <3>1 DEF TypeOK
    <3>3. pair'[q].deg < d /\ pair'[q].deg >= d
      BY <2>2, <2>3, <3>1, <3>2
    <3>4. Degrees \subseteq Int
      BY <1>1, SMT
    <3>5. pair'[q].deg \in Int
      BY ONLY <3>2, <3>4
    <3>6. QED
      BY <3>3, <3>5
  <2>5. ASSUME NEW j, NEW k PROVE Cardinality(MinimalPairs(j, k)') = Cardinality(MinimalPairs(j, k))
    BY <2>3, BettiKept DEF Forward
  <2>6. QED
    BY <2>4, <2>5
<1>5. CASE Reduces
  <2>1. PICK p \in Pairs :
           /\ pair[p].level = n_level /\ pair[p].deg = n_degree /\ Pairs \subseteq Pairs'
           /\ Listed' \ Listed = Pairs' \ Pairs
           /\ \A q \in Pairs : pair'[q].level = pair[q].level /\ pair'[q].deg = pair[q].deg
           /\ \A q \in Pairs : \/ q = p \/ pair'[q].type = pair[q].type
                               \/ pair[q].type = "S_PAIR" /\ pair'[q].type = "NOT_NEEDED"
           /\ \A q \in Pairs' \ Pairs : /\ pair'[q].level = 1 /\ pair'[q].deg = n_degree + 1
                                        /\ pair'[q].type = "NOT_NEEDED" /\ n_level = 2
    BY <1>5, ReducesFacts
  <2>2. NothingLate
    <3>1. n_level = 2 => <<1, n_degree + 1>> \notin is_sorted
      BY <1>5 DEF Reduces
    <3>2. QED
      BY <2>1, <3>1 DEF NothingLate
  <2>3. ASSUME NEW l, NEW d, Final(l, d)
        PROVE  Cardinality(MinimalPairs(l, d)') = Cardinality(MinimalPairs(l, d))
    <3>1. ~(pair[p].level = l /\ pair[p].deg = d)
      <4>1. ~(n_degree < n_degree) /\ ~(n_level < n_level)
        BY <1>1
      <4>2. QED
        BY <2>1, <2>3, <4>1 DEF Final
    <3>2. \A r \in Pairs : /\ pair'[r].level = pair[r].level /\ pair'[r].deg = pair[r].deg
                           /\ \/ pair'[r].type = "MINIMAL" <=> pair[r].type = "MINIMAL"
                              \/ ~(pair[r].level = l /\ pair[r].deg = d)
      BY <2>1, <3>1
    <3>3. QED
      BY <2>1, <3>2, BettiKept
  <2>4. QED
    BY <2>2, <2>3
<1>6. QED
  BY <1>2, <1>3, <1>4, <1>5 DEF Kind

\* What a call gave is not taken back by a later one.
THEOREM SettledAlways == Spec => Settled
<1>1. ASSUME IInv, Next PROVE NothingLate /\ BettiFinal
  <2>1. Core /\ Kind
    BY <1>1, NextCore, WholeInv
  <2>2. /\ NothingLate
        /\ \A l, d : Final(l, d) => Cardinality(MinimalPairs(l, d)') = Cardinality(MinimalPairs(l, d))
    BY <2>1, KindSettled
  <2>3. \A l, d : Betti(l, d) = Cardinality(MinimalPairs(l, d)) /\ Betti(l, d)' = Cardinality(MinimalPairs(l, d)')
    BY DEF Betti, MinimalPairs
  <2>4. BettiFinal
    BY <2>2, <2>3 DEF BettiFinal, Final
  <2>5. QED
    BY <2>2, <2>4
<1>2. IInv /\ [Next]_vars => [NothingLate /\ BettiFinal]_vars
  BY <1>1
<1>3. QED
  BY <1>2, ResolutionInvariant, PTL DEF Spec, Settled
=============================================================================
