------------------------- MODULE GBComputationProofs -------------------------
(***************************************************************************)
(* Proofs about GBComputation, for every number of generators, every bound *)
(* and all the stop conditions callers may give.                           *)
(***************************************************************************)
EXTENDS GBComputation, FiniteSetTheorems, TLAPS

-----------------------------------------------------------------------------
(* Counting. *)

LEMMA PairsFinite ==
  ASSUME NEW T \in SUBSET Pairs
  PROVE  IsFiniteSet(T) /\ Cardinality(T) \in Nat
<1>1. IsFiniteSet(Pairs)
  BY FS_Interval, ConstantsAssumption DEF Pairs
<1>2. QED
  BY <1>1, FS_Subset, FS_CardinalityType

LEMMA CountWithout ==
  ASSUME NEW T \in SUBSET Pairs, NEW p \in T
  PROVE  Cardinality(T \ {p}) = Cardinality(T) - 1
BY PairsFinite, FS_RemoveElement

LEMMA CountWith ==
  ASSUME NEW T \in SUBSET Pairs, NEW p \in Pairs \ T
  PROVE  Cardinality(T \cup {p}) = Cardinality(T) + 1
BY PairsFinite, FS_AddElement

LEMMA CountNone ==
  ASSUME NEW T \in SUBSET Pairs
  PROVE  Cardinality(T) = 0 <=> T = {}
BY PairsFinite, FS_EmptySet

LEMMA CountLess ==
  ASSUME NEW T \in SUBSET Pairs, NEW U \in SUBSET T
  PROVE  Cardinality(U) <= Cardinality(T)
BY PairsFinite, FS_Subset

LEMMA CountApart ==
  ASSUME NEW T \in SUBSET Pairs, NEW U \in SUBSET Pairs, T \cap U = {}
  PROVE  Cardinality(T \cup U) = Cardinality(T) + Cardinality(U)
<1>1. Cardinality(T \cup U) = Cardinality(T) + Cardinality(U) - Cardinality(T \cap U)
  BY PairsFinite, FS_Union
<1>2. QED
  BY <1>1, PairsFinite, FS_EmptySet

-----------------------------------------------------------------------------
(* The set of pairs: what each operation of SPairSet does to it.            *)

\* spair_set_next refills a list from another: the degree keeps its pairs.
LEMMA RefilledKeeps ==
  ASSUME NEW s, SPairSetOK(s)
  PROVE  /\ SPairSetOK(Refilled(s))
         /\ Refilled(s).heap = s.heap /\ InDegree(Refilled(s)) = InDegree(s)
         /\ Candidates(s) \subseteq InDegree(s)
         /\ Candidates(s) = {} => InDegree(s) = {}
<1> DEFINE r == Refilled(s)
<1>1. /\ r \in SPairSet /\ r.heap = s.heap /\ r.n_in_degree = s.n_in_degree
      /\ InDegree(r) = InDegree(s)
  BY DEF SPairSetOK, SPairSet, Refilled, InDegree
<1>2. /\ r.spair_list \cap (r.spair_deferred_list \cup r.gen_list \cup r.gen_deferred_list) = {}
      /\ r.spair_deferred_list \cap (r.gen_list \cup r.gen_deferred_list) = {}
      /\ r.gen_list \cap r.gen_deferred_list = {}
  BY DEF SPairSetOK, SPairSet, Refilled
<1>3. SPairSetOK(r)
  <2> HIDE DEF r
  <2>1. QED
    BY <1>1, <1>2 DEF SPairSetOK
<1>4. Candidates(s) = IF r.spair_list # {} THEN r.spair_list ELSE r.gen_list
  BY DEF Candidates
<1>5. Candidates(s) = {} => InDegree(s) = {}
  BY DEF SPairSetOK, SPairSet, Refilled, Candidates, InDegree
<1>6. Candidates(s) \subseteq InDegree(r)
  BY <1>4 DEF InDegree
<1> HIDE DEF r
<1>7. QED
  BY <1>1, <1>3, <1>5, <1>6 DEF r

\* spair_set_next takes one pair out.
LEMMA WithoutTakes ==
  ASSUME NEW s, SPairSetOK(s), NEW p \in Candidates(s)
  PROVE  /\ SPairSetOK(Without(s, p))
         /\ Without(s, p).heap = s.heap
         /\ p \in InDegree(s) /\ InDegree(Without(s, p)) = InDegree(s) \ {p}
<1>1. PICK r : r = Refilled(s)
  OBVIOUS
<1>2. /\ SPairSetOK(r) /\ r.heap = s.heap /\ InDegree(r) = InDegree(s)
      /\ p \in InDegree(s)
      /\ p \in r.spair_list \/ (r.spair_list = {} /\ p \in r.gen_list)
  <2>1. p \in r.spair_list \/ (r.spair_list = {} /\ p \in r.gen_list)
    BY <1>1 DEF Candidates
  <2>2. QED
    BY <1>1, <2>1, RefilledKeeps
<1>3. Without(s, p) = [r EXCEPT !.spair_list = @ \ {p}, !.gen_list = @ \ {p},
                                !.nelems = @ - 1, !.n_in_degree = @ - 1]
  BY <1>1 DEF Without
<1>4. PICK u : u = Without(s, p)
  OBVIOUS
<1>5. /\ u \in SPairSet /\ u.heap = s.heap
      /\ u.spair_list = r.spair_list \ {p} /\ u.gen_list = r.gen_list \ {p}
      /\ u.spair_deferred_list = r.spair_deferred_list
      /\ u.gen_deferred_list = r.gen_deferred_list
      /\ u.n_in_degree = r.n_in_degree - 1
  <2>1. r \in SPairSet
    BY <1>2 DEF SPairSetOK
  <2>2. u \in SPairSet
    <3>1. /\ r.spair_list \ {p} \in SUBSET Pairs /\ r.gen_list \ {p} \in SUBSET Pairs
          /\ r.nelems - 1 \in Int /\ r.n_in_degree - 1 \in Int
      BY <2>1 DEF SPairSet
    <3>2. QED
      BY <2>1, <3>1, <1>3, <1>4 DEF SPairSet
  <2>3. u.n_in_degree = r.n_in_degree - 1 /\ u.heap = r.heap
    BY <2>1, <1>3, <1>4 DEF SPairSet
  <2>4. /\ u.spair_list = r.spair_list \ {p} /\ u.gen_list = r.gen_list \ {p}
        /\ u.spair_deferred_list = r.spair_deferred_list
        /\ u.gen_deferred_list = r.gen_deferred_list
    BY <2>1, <1>3, <1>4 DEF SPairSet
  <2>5. QED
    BY <2>2, <2>3, <2>4, <1>2
<1>6. InDegree(u) = InDegree(r) \ {p}
  <2>1. p \notin r.spair_deferred_list \cup r.gen_deferred_list
    BY <1>2 DEF SPairSetOK
  <2>2. QED
    BY <1>5, <2>1 DEF InDegree
<1>7. u.n_in_degree = Cardinality(InDegree(u))
  <2>1. InDegree(r) \in SUBSET Pairs
    BY <1>2 DEF SPairSetOK, SPairSet, InDegree
  <2>2. QED
    BY <1>2, <1>5, <1>6, <2>1, CountWithout DEF SPairSetOK
<1>8. SPairSetOK(u)
  BY <1>2, <1>5, <1>6, <1>7 DEF SPairSetOK
<1>9. QED
  BY <1>2, <1>4, <1>5, <1>6, <1>8

\* spair_set_defer puts back a pair that was taken out.
LEMMA DeferAdds ==
  ASSUME NEW s, SPairSetOK(s), NEW p \in Pairs, p \notin s.heap, p \notin InDegree(s), NEW type
  PROVE  /\ SPairSetOK(Defer(s, p, type))
         /\ Defer(s, p, type).heap = s.heap
         /\ InDegree(Defer(s, p, type)) = InDegree(s) \cup {p}
<1>1. PICK u : u = Defer(s, p, type)
  OBVIOUS
<1>2. /\ u \in SPairSet /\ u.heap = s.heap
      /\ u.spair_list = s.spair_list /\ u.gen_list = s.gen_list
      /\ u.n_in_degree = s.n_in_degree + 1
      /\ \/ /\ u.spair_deferred_list = s.spair_deferred_list \cup {p}
            /\ u.gen_deferred_list = s.gen_deferred_list
         \/ /\ u.spair_deferred_list = s.spair_deferred_list
            /\ u.gen_deferred_list = s.gen_deferred_list \cup {p}
  <2>1. s \in SPairSet
    BY DEF SPairSetOK
  <2>2. CASE type = "gen"
    <3>1. u = [s EXCEPT !.gen_deferred_list = @ \cup {p}, !.n_in_degree = @ + 1]
      BY <1>1, <2>2 DEF Defer
    <3>2. s.gen_deferred_list \cup {p} \in SUBSET Pairs /\ s.n_in_degree + 1 \in Int
      BY <2>1 DEF SPairSet
    <3>3. u \in SPairSet
      BY <2>1, <3>1, <3>2 DEF SPairSet
    <3>4. QED
      BY <2>1, <3>1, <3>3 DEF SPairSet
  <2>3. CASE type # "gen"
    <3>1. u = [s EXCEPT !.spair_deferred_list = @ \cup {p}, !.n_in_degree = @ + 1]
      BY <1>1, <2>3 DEF Defer
    <3>2. s.spair_deferred_list \cup {p} \in SUBSET Pairs /\ s.n_in_degree + 1 \in Int
      BY <2>1 DEF SPairSet
    <3>3. u \in SPairSet
      BY <2>1, <3>1, <3>2 DEF SPairSet
    <3>4. QED
      BY <2>1, <3>1, <3>3 DEF SPairSet
  <2>4. QED
    BY <2>2, <2>3
<1>3. InDegree(u) = InDegree(s) \cup {p}
  BY <1>2 DEF InDegree
<1>4. InDegree(s) \in SUBSET Pairs
  BY DEF SPairSetOK, SPairSet, InDegree
<1>5. u.n_in_degree = Cardinality(InDegree(u))
  BY <1>2, <1>3, <1>4, CountWith DEF SPairSetOK
<1>6. /\ p \notin s.spair_list /\ p \notin s.spair_deferred_list
      /\ p \notin s.gen_list /\ p \notin s.gen_deferred_list
  BY DEF InDegree
<1>7. SPairSetOK(u)
  BY <1>2, <1>3, <1>5, <1>6 DEF SPairSetOK
<1>8. QED
  BY <1>1, <1>2, <1>3, <1>7

\* spair_set_insert.
LEMMA InsertAdds ==
  ASSUME NEW s, SPairSetOK(s), NEW ps \in SUBSET Pairs, ps \cap InDegree(s) = {}
  PROVE  /\ SPairSetOK(Insert(s, ps))
         /\ Insert(s, ps).heap = s.heap \cup ps
         /\ InDegree(Insert(s, ps)) = InDegree(s)
<1>1. PICK u : u = Insert(s, ps)
  OBVIOUS
<1>2. Cardinality(ps) \in Int
  BY PairsFinite
<1>3. /\ u \in SPairSet /\ u.heap = s.heap \cup ps
      /\ u.spair_list = s.spair_list /\ u.spair_deferred_list = s.spair_deferred_list
      /\ u.gen_list = s.gen_list /\ u.gen_deferred_list = s.gen_deferred_list
      /\ u.n_in_degree = s.n_in_degree
  <2>1. s \in SPairSet
    BY DEF SPairSetOK
  <2>2. PICK c \in Int : c = Cardinality(ps)
    BY <1>2
  <2>3. u = [s EXCEPT !.heap = @ \cup ps, !.nelems = @ + c]
    BY <1>1, <2>2 DEF Insert
  <2>4. s.heap \cup ps \in SUBSET Pairs /\ s.nelems + c \in Int
    BY <2>1 DEF SPairSet
  <2>5. u \in SPairSet
    BY <2>1, <2>3, <2>4 DEF SPairSet
  <2>6. QED
    BY <2>1, <2>3, <2>5 DEF SPairSet
<1>4. InDegree(u) = InDegree(s)
  BY <1>3 DEF InDegree
<1>5. SPairSetOK(u)
  BY <1>3, <1>4 DEF SPairSetOK
<1>6. QED
  BY <1>1, <1>3, <1>4, <1>5

\* flush_pairs.
LEMMA FlushedEmpties ==
  ASSUME NEW s, SPairSetOK(s)
  PROVE  /\ SPairSetOK(Flushed(s))
         /\ Flushed(s).heap = s.heap /\ InDegree(Flushed(s)) = {}
<1>1. PICK u : u = Flushed(s)
  OBVIOUS
<1>2. InDegree(s) \in SUBSET Pairs
  BY DEF SPairSetOK, SPairSet, InDegree
<1>3. PICK c \in Nat : c = Cardinality(InDegree(s))
  BY <1>2, PairsFinite
<1>4. u = [s EXCEPT !.spair_list = {}, !.spair_deferred_list = {}, !.gen_list = {},
                    !.gen_deferred_list = {}, !.nelems = @ - c, !.n_in_degree = @ - c]
  BY <1>1, <1>3 DEF Flushed
<1>5. /\ u \in SPairSet /\ u.heap = s.heap
      /\ u.spair_list = {} /\ u.spair_deferred_list = {}
      /\ u.gen_list = {} /\ u.gen_deferred_list = {}
      /\ u.n_in_degree = 0
  <2>1. s \in SPairSet /\ s.n_in_degree = c
    BY <1>3 DEF SPairSetOK
  <2>2. u.n_in_degree = s.n_in_degree - c
    BY <2>1, <1>4 DEF SPairSet
  <2>3. u \in SPairSet
    <3>1. s.nelems - c \in Int /\ s.n_in_degree - c \in Int
      BY <2>1 DEF SPairSet
    <3>2. QED
      BY <2>1, <3>1, <1>4 DEF SPairSet
  <2>4. /\ u.heap = s.heap /\ u.spair_list = {} /\ u.spair_deferred_list = {}
        /\ u.gen_list = {} /\ u.gen_deferred_list = {}
    BY <2>1, <1>4 DEF SPairSet
  <2>5. QED
    BY <2>1, <2>2, <2>3, <2>4
<1>6. InDegree(u) = {}
  BY <1>5 DEF InDegree
<1>7. SPairSetOK(u)
  BY <1>5, <1>6, CountNone DEF SPairSetOK
<1>8. QED
  BY <1>1, <1>5, <1>6, <1>7

\* spair_set_prepare_next_degree, when the lists of the last degree are used up.
LEMMA PreparedMoves ==
  ASSUME NEW s, SPairSetOK(s), InDegree(s) = {}, NEW d
  PROVE  /\ SPairSetOK(Prepared(s, d))
         /\ InDegree(Prepared(s, d)) = {p \in s.heap : spair[p].deg = d}
         /\ Prepared(s, d).heap = {p \in s.heap : spair[p].deg # d}
<1>1. PICK u : u = Prepared(s, d)
  OBVIOUS
<1>2. PICK now : now = {p \in s.heap : spair[p].deg = d}
  OBVIOUS
<1>3. now \in SUBSET Pairs /\ now \subseteq s.heap
  BY <1>2 DEF SPairSetOK, SPairSet
<1>4. Cardinality(now) \in Int
  BY <1>3, PairsFinite
<1>5. u = [s EXCEPT !.heap = @ \ now,
                    !.gen_list  = {p \in now : spair[p].type = "gen"},
                    !.spair_list = {p \in now : spair[p].type # "gen"},
                    !.gen_deferred_list = {}, !.spair_deferred_list = {},
                    !.n_in_degree = Cardinality(now)]
  BY <1>1, <1>2 DEF Prepared
<1>6. /\ u \in SPairSet /\ u.heap = s.heap \ now
      /\ u.spair_list = {p \in now : spair[p].type # "gen"} /\ u.spair_deferred_list = {}
      /\ u.gen_list = {p \in now : spair[p].type = "gen"} /\ u.gen_deferred_list = {}
      /\ u.n_in_degree = Cardinality(now)
  BY <1>3, <1>4, <1>5 DEF SPairSetOK, SPairSet
<1>7. InDegree(u) = now
  BY <1>6 DEF InDegree
<1>8. SPairSetOK(u)
  BY <1>6, <1>7 DEF SPairSetOK
<1>9. QED
  BY <1>1, <1>2, <1>6, <1>7, <1>8

-----------------------------------------------------------------------------
(* Every pair is in one place.                                              *)

PairRecord ==
  [type : {"gen", "elem", "spair"}, deg : Degrees, new : BOOLEAN, work : 0 .. MaxWork]

ElementRecord == [deg : Degrees, mingb : BOOLEAN, mingen : BOOLEAN]

\* What PairsInv says of the pairs alone.
InOnePlace ==
  /\ SPairSetOK(S)
  /\ (S.heap \cup InDegree(S)) \cap done = {}
  /\ S.heap \cup InDegree(S) \cup done = Made
  /\ flushed \subseteq done

LEMMA PairsInvParts ==
  ASSUME PairsInv
  PROVE  /\ InOnePlace
         /\ spair \in Seq(PairRecord) /\ gb \in Seq(ElementRecord)
         /\ Made = 1 .. Len(spair) /\ Made \subseteq Pairs /\ Len(spair) \in Nat
         /\ Len(spair) <= MaxPairs /\ n_gb \in Nat
<1>1. InOnePlace
  BY DEF PairsInv, InOnePlace, TypeOK
<1>2. spair \in Seq(PairRecord) /\ gb \in Seq(ElementRecord) /\ Len(spair) \in NGens .. MaxPairs
  BY DEF PairsInv, TypeOK, PairRecord, ElementRecord
<1>3. Made = 1 .. Len(spair) /\ Len(spair) \in Nat /\ n_gb \in Nat
  BY <1>2 DEF Made, n_gb
<1>4. Made \subseteq Pairs /\ Len(spair) <= MaxPairs
  BY <1>2, <1>3, ConstantsAssumption DEF Pairs
<1>5. QED
  BY <1>1, <1>2, <1>3, <1>4

LEMMA PairsInit ==
  Init => PairsInv
<1> SUFFICES ASSUME Init PROVE PairsInv
  OBVIOUS
<1>1. /\ S.heap = 1 .. NGens /\ S.spair_list = {} /\ S.spair_deferred_list = {}
      /\ S.gen_list = {} /\ S.gen_deferred_list = {} /\ S.nelems = NGens /\ S.n_in_degree = 0
  BY DEF Init
<1>2. InDegree(S) = {}
  BY <1>1 DEF InDegree
<1>3. spair \in Seq(PairRecord) /\ Len(spair) = NGens /\ Made = 1 .. NGens
  <2>1. spair \in [1 .. NGens -> PairRecord]
    BY DEF Init, PairRecord
  <2>2. QED
    BY <2>1, ConstantsAssumption DEF Made
<1>4. S \in SPairSet
  BY ConstantsAssumption DEF Init, SPairSet, Pairs
<1>5. SPairSetOK(S)
  BY <1>1, <1>2, <1>4, FS_EmptySet DEF SPairSetOK
<1>6. TypeOK
  <2>1. gb = <<>> /\ gb \in Seq([deg : Degrees, mingb : BOOLEAN, mingen : BOOLEAN]) /\ n_gb = 0
    BY DEF Init, n_gb
  <2>2. /\ state = "NEWDEGREE" /\ pc = "idle" /\ done = {} /\ flushed = {}
        /\ this_degree = 0 /\ complete_thru_this_degree = 0 /\ first_in_degree = 0
        /\ np_i = 0 /\ ar_i = 0
    BY DEF Init
  <2>3. S.heap \cup InDegree(S) \subseteq Made /\ {S.nelems, S.n_in_degree} \subseteq Int
    BY <1>1, <1>2, <1>3, ConstantsAssumption
  <2>4. Len(spair) \in NGens .. MaxPairs
    BY <1>3, ConstantsAssumption
  <2>5. QED
    BY <1>3, <2>1, <2>2, <2>3, <2>4, ConstantsAssumption DEF TypeOK, PairRecord
<1>7. QED
  BY <1>1, <1>2, <1>3, <1>5, <1>6 DEF Init, PairsInv

\* Steps that leave the pairs and the elements alone.
LEMMA PairsUntouched ==
  ASSUME PairsInv, UNCHANGED <<spair, S, gb, degrees, np_i, done, flushed>>,
         ar_i' \in 0 .. n_gb, pc' \in {"idle", "top", "switch"},
         state' \in {"NEWDEGREE", "NEWPAIRS", "HILB", "SPAIRS", "AUTOREDUCE", "DONE"}
  PROVE  PairsInv'
<1>1. UNCHANGED <<Made, n_gb, InDegree(S)>>
  BY DEF Made, n_gb, InDegree
<1>2. SPairSetOK(S)'
  BY <1>1 DEF PairsInv, SPairSetOK
<1>3. TypeOK'
  BY <1>1 DEF PairsInv, TypeOK, degrees
<1>4. QED
  BY <1>1, <1>2, <1>3 DEF PairsInv, degrees

LEMMA PairsIdle ==
  ASSUME PairsInv, \/ Call \/ Interrupt \/ LoopHead \/ NewPairsEnd \/ Hilb \/ NewDegreeResumed
                   \/ SpairsEnd \/ AutoReduce \/ AutoReduceEnd \/ UNCHANGED vars
  PROVE  PairsInv'
<1>1. /\ ar_i \in 0 .. n_gb /\ pc \in {"idle", "top", "switch"} /\ n_gb \in Nat
      /\ state \in {"NEWDEGREE", "NEWPAIRS", "HILB", "SPAIRS", "AUTOREDUCE", "DONE"}
  BY PairsInvParts DEF PairsInv, TypeOK
<1>2. CASE Call
  BY <1>1, <1>2, PairsUntouched DEF Call, Return, autored
<1>3. CASE Interrupt
  BY <1>1, <1>3, PairsUntouched DEF Interrupt, autored
<1>4. CASE LoopHead
  BY <1>1, <1>4, PairsUntouched DEF LoopHead, Return, autored
<1>5. CASE NewPairsEnd
  BY <1>1, <1>5, PairsUntouched DEF NewPairsEnd, autored
<1>6. CASE Hilb
  BY <1>1, <1>6, PairsUntouched DEF Hilb, Return, autored
<1>7. CASE NewDegreeResumed
  <2>1. ar_i' \in 0 .. n_gb
    BY <1>1, <1>7 DEF NewDegreeResumed, StartSpairs
  <2>2. QED
    BY <1>1, <1>7, <2>1, PairsUntouched DEF NewDegreeResumed, StartSpairs
<1>8. CASE SpairsEnd
  BY <1>1, <1>8, PairsUntouched DEF SpairsEnd, autored
<1>9. CASE AutoReduce
  <2>1. ar_i' \in 0 .. n_gb
    BY <1>1, <1>9 DEF AutoReduce, autored
  <2>2. QED
    BY <1>1, <1>9, <2>1, PairsUntouched DEF AutoReduce, Return
<1>10. CASE AutoReduceEnd
  BY <1>1, <1>10, PairsUntouched DEF AutoReduceEnd, autored
<1>11. CASE UNCHANGED vars
  BY <1>1, <1>11, PairsUntouched DEF vars, autored
<1>12. QED
  BY <1>2, <1>3, <1>4, <1>5, <1>6, <1>7, <1>8, <1>9, <1>10, <1>11

\* remove_unneeded_pairs takes pairs from the heap.
LEMMA DroppedKeeps ==
  ASSUME NEW s, SPairSetOK(s), NEW ps \in SUBSET Pairs,
         NEW u, u = [s EXCEPT !.heap = @ \ ps, !.nelems = @ - Cardinality(ps)]
  PROVE  SPairSetOK(u) /\ u.heap = s.heap \ ps /\ InDegree(u) = InDegree(s)
<1>1. PICK c \in Int : c = Cardinality(ps)
  BY PairsFinite
<1>2. u = [s EXCEPT !.heap = @ \ ps, !.nelems = @ - c]
  BY <1>1
<1>3. /\ u \in SPairSet /\ u.heap = s.heap \ ps
      /\ u.spair_list = s.spair_list /\ u.spair_deferred_list = s.spair_deferred_list
      /\ u.gen_list = s.gen_list /\ u.gen_deferred_list = s.gen_deferred_list
      /\ u.n_in_degree = s.n_in_degree
  <2>1. s \in SPairSet
    BY DEF SPairSetOK
  <2>2. s.heap \ ps \in SUBSET Pairs /\ s.nelems - c \in Int
    BY <2>1 DEF SPairSet
  <2>3. u \in SPairSet
    BY <1>2, <2>1, <2>2 DEF SPairSet
  <2>4. QED
    BY <1>2, <2>1, <2>3 DEF SPairSet
<1>4. InDegree(u) = InDegree(s)
  BY <1>3 DEF InDegree
<1>5. SPairSetOK(u)
  BY <1>3, <1>4 DEF SPairSetOK
<1>6. QED
  BY <1>3, <1>4, <1>5

LEMMA Concatenated ==
  ASSUME NEW T, NEW s \in Seq(T), NEW r \in Seq(T)
  PROVE  /\ s \o r \in Seq(T) /\ Len(s \o r) = Len(s) + Len(r)
         /\ \A q \in 1 .. Len(s) : (s \o r)[q] = s[q]
         /\ \A q \in Len(s) + 1 .. Len(s) + Len(r) :
              (s \o r)[q] = r[q - Len(s)] /\ q - Len(s) \in 1 .. Len(r)
OBVIOUS

\* update_pairs: the pairs of one element are made, of its degree or a higher one, and
\* those that are not needed are dealt with.
LEMMA UpdatePairsEffect ==
  ASSUME PairsInv, NEW g \in ElementRecord, UpdatePairs(g), flushed' = flushed
  PROVE  /\ InOnePlace' /\ InDegree(S)' = InDegree(S)
         /\ spair' \in Seq(PairRecord) /\ Len(spair') \in NGens .. MaxPairs
         /\ Made \subseteq Made' /\ \A q \in Made : spair'[q] = spair[q]
         /\ \A q \in Made' \ Made : /\ q \in S'.heap /\ spair'[q].type = "spair"
                                    /\ spair'[q].deg >= g.deg
         /\ done \subseteq done'
         /\ ~OverZZ \/ done' = done
         /\ \A q \in done' \ done : spair[q].type = "spair"
<1>1. PICK unneeded \in SUBSET {p \in S.heap : ~OverZZ /\ spair[p].type = "spair" /\ ~spair[p].new},
           n \in 0 .. MaxNewPairs :
        /\ Len(spair) + n <= MaxPairs
        /\ \E ps \in [1 .. n -> NewPair(g.deg)] : spair' = spair \o ps
        /\ S' = Insert([S EXCEPT !.heap = @ \ unneeded, !.nelems = @ - Cardinality(unneeded)],
                       Len(spair) + 1 .. Len(spair) + n)
        /\ done' = done \cup unneeded
  BY DEF UpdatePairs
<1>2. PICK ps \in [1 .. n -> NewPair(g.deg)] : spair' = spair \o ps
  BY <1>1
<1>3. PICK s : s = [S EXCEPT !.heap = @ \ unneeded, !.nelems = @ - Cardinality(unneeded)]
  OBVIOUS
<1>4. PICK made : made = Len(spair) + 1 .. Len(spair) + n
  OBVIOUS
<1>5. /\ n \in Nat /\ g.deg \in Nat /\ g.deg > 0
      /\ NewPair(g.deg) \subseteq PairRecord
      /\ \A r \in NewPair(g.deg) : r.type = "spair" /\ r.deg >= g.deg
  <2>1. n \in Nat /\ g.deg \in Degrees /\ MaxDegree \in Nat
    BY ConstantsAssumption DEF ElementRecord
  <2>2. (IF OverZZ THEN g.deg ELSE g.deg + 1) .. MaxDegree \subseteq Degrees
    BY <2>1 DEF Degrees
  <2>3. QED
    BY <2>1, <2>2 DEF NewPair, PairRecord, Degrees
<1>6. /\ InOnePlace /\ spair \in Seq(PairRecord) /\ Made = 1 .. Len(spair)
      /\ Len(spair) \in Nat /\ Len(spair) >= NGens /\ Made \subseteq Pairs
  <2>1. Len(spair) \in NGens .. MaxPairs
    BY DEF PairsInv, TypeOK
  <2>2. QED
    BY <2>1, PairsInvParts, ConstantsAssumption
<1>7. /\ spair' \in Seq(PairRecord) /\ Len(spair') = Len(spair) + n
      /\ \A q \in 1 .. Len(spair) : spair'[q] = spair[q]
      /\ \A q \in made : spair'[q] = ps[q - Len(spair)] /\ q - Len(spair) \in 1 .. n
  <2>1. ps \in Seq(PairRecord) /\ Len(ps) = n
    BY <1>5
  <2>2. /\ spair \o ps \in Seq(PairRecord) /\ Len(spair \o ps) = Len(spair) + n
        /\ \A q \in 1 .. Len(spair) : (spair \o ps)[q] = spair[q]
        /\ \A q \in Len(spair) + 1 .. Len(spair) + n :
             (spair \o ps)[q] = ps[q - Len(spair)] /\ q - Len(spair) \in 1 .. n
    BY <1>6, <2>1, Concatenated
  <2>3. QED
    BY <1>2, <1>4, <2>2
<1>8. Made' = Made \cup made /\ Made \cap made = {} /\ made \subseteq Pairs
  <2>1. Made' = 1 .. Len(spair')
    BY <1>7 DEF Made
  <2>2. n \in Nat /\ Len(spair) + n <= MaxPairs /\ MaxPairs \in Nat
    BY <1>1, <1>5, ConstantsAssumption
  <2>3. Made' = 1 .. Len(spair) + n
    BY <1>7, <2>1
  <2>4. QED
    BY <1>4, <1>6, <2>2, <2>3 DEF Pairs
<1>9. unneeded \in SUBSET Pairs /\ unneeded \subseteq S.heap
  BY <1>6 DEF InOnePlace
<1>10. SPairSetOK(s) /\ s.heap = S.heap \ unneeded /\ InDegree(s) = InDegree(S)
  <2>1. SPairSetOK(S)
    BY <1>6 DEF InOnePlace
  <2>2. QED
    BY <1>3, <1>9, <2>1, DroppedKeeps
<1>11. made \cap InDegree(s) = {}
  BY <1>6, <1>8, <1>10 DEF InOnePlace
<1>12. SPairSetOK(S') /\ S'.heap = s.heap \cup made /\ InDegree(S') = InDegree(s)
  <2>1. S' = Insert(s, made)
    BY <1>1, <1>3, <1>4
  <2>2. QED
    BY <1>8, <1>10, <1>11, <2>1, InsertAdds
<1>13. InOnePlace'
  <2>1. S.heap \cap InDegree(S) = {}
    BY <1>6 DEF InOnePlace, SPairSetOK
  <2>2. (S'.heap \cup InDegree(S')) \cap done' = {}
    BY <1>1, <1>6, <1>8, <1>9, <1>10, <1>12, <2>1 DEF InOnePlace
  <2>3. S'.heap \cup InDegree(S') \cup done' = Made'
    BY <1>1, <1>6, <1>8, <1>9, <1>10, <1>12 DEF InOnePlace
  <2>4. flushed' \subseteq done'
    BY <1>1, <1>6 DEF InOnePlace
  <2>5. QED
    BY <1>12, <2>2, <2>3, <2>4 DEF InOnePlace, InDegree
<1>14. \A q \in Made' \ Made : /\ q \in S'.heap /\ spair'[q].type = "spair"
                               /\ spair'[q].deg >= g.deg
  <2>1. \A q \in made : spair'[q] \in NewPair(g.deg)
    BY <1>7
  <2>2. QED
    BY <1>5, <1>8, <1>12, <2>1
<1>15. Len(spair') \in NGens .. MaxPairs
  <2>1. Len(spair) + n <= MaxPairs /\ n \in Nat
    BY <1>1, <1>5
  <2>2. QED
    BY <1>6, <1>7, <2>1, ConstantsAssumption
<1>16. InDegree(S)' = InDegree(S)
  BY <1>10, <1>12 DEF InDegree
<1>17. \A q \in Made : spair'[q] = spair[q]
  BY <1>6, <1>7
<1>18. /\ (done \subseteq done' /\ ~OverZZ) \/ done' = done
       /\ \A q \in done' \ done : spair[q].type = "spair"
  BY <1>1
<1>19. QED
  BY <1>7, <1>8, <1>13, <1>14, <1>15, <1>16, <1>17, <1>18

LEMMA PairsNewPairs ==
  ASSUME PairsInv, NewPairs
  PROVE  PairsInv'
<1>1. /\ gb \in Seq(ElementRecord) /\ n_gb \in Nat /\ np_i \in 0 .. n_gb /\ ar_i \in 0 .. n_gb
      /\ pc \in {"idle", "top", "switch"}
      /\ state \in {"NEWDEGREE", "NEWPAIRS", "HILB", "SPAIRS", "AUTOREDUCE", "DONE"}
  BY PairsInvParts DEF PairsInv, TypeOK
<1>2. /\ UNCHANGED <<gb, state, this_degree, complete_thru_this_degree, first_in_degree, ar_i,
                     flushed>>
      /\ n_gb' = n_gb /\ np_i < n_gb
  BY DEF NewPairs, degrees, autored, n_gb
<1>3. CASE interruptedFlag
  <2>1. UNCHANGED <<spair, S, done, np_i>> /\ pc' = "idle"
    BY <1>3 DEF NewPairs, Return
  <2>2. QED
    BY <1>1, <1>2, <2>1, PairsUntouched DEF degrees
<1>4. CASE ~interruptedFlag
  <2>1. np_i' = np_i + 1 /\ pc' = pc
    BY <1>4 DEF NewPairs
  <2>2. np_i' \in 0 .. n_gb' /\ pc' \in {"idle", "top", "switch"}
    BY <1>1, <1>2, <2>1
  <2>3. gb[np_i + 1] \in ElementRecord
    BY <1>1, <1>2 DEF n_gb
  <2>4. /\ InOnePlace' /\ InDegree(S)' = InDegree(S)
        /\ spair' \in Seq(PairRecord) /\ Len(spair') \in NGens .. MaxPairs
    <3>1. CASE gb[np_i + 1].mingb
      <4>1. UpdatePairs(gb[np_i + 1])
        BY <1>4, <3>1 DEF NewPairs
      <4>2. QED
        BY <1>2, <2>3, <4>1, UpdatePairsEffect
    <3>2. CASE ~gb[np_i + 1].mingb
      <4>1. UNCHANGED <<spair, S, done, flushed>>
        BY <1>2, <1>4, <3>2 DEF NewPairs
      <4>2. InOnePlace /\ spair \in Seq(PairRecord) /\ Len(spair) \in NGens .. MaxPairs
        BY PairsInvParts DEF PairsInv, TypeOK
      <4>3. QED
        BY <4>1, <4>2 DEF InOnePlace, InDegree, Made
    <3>3. QED
      BY <3>1, <3>2
  <2>5. {S'.nelems, S'.n_in_degree} \subseteq Int
    BY <2>4 DEF InOnePlace, SPairSetOK, SPairSet
  <2>6. TypeOK'
    BY <1>1, <1>2, <2>2, <2>4, <2>5 DEF TypeOK, PairsInv, PairRecord, InOnePlace, InDegree
  <2>7. QED
    BY <1>2, <2>4, <2>6 DEF PairsInv, InOnePlace
<1>5. QED
  BY <1>3, <1>4

LEMMA PairsNewDegreeDone ==
  ASSUME PairsInv, NewDegreeDone
  PROVE  PairsInv'
<1>1. InOnePlace /\ n_gb' = n_gb /\ Made' = Made
  BY PairsInvParts DEF NewDegreeDone, n_gb, Made, autored
<1>2. InDegree(S) = {}
  <2>1. InDegree(S) \in SUBSET Pairs /\ Cardinality(InDegree(S)) = 0
    BY <1>1 DEF InOnePlace, SPairSetOK, SPairSet, InDegree, NewDegreeDone
  <2>2. QED
    BY <2>1, CountNone
<1>3. S' = S
  <2>1. /\ S \in SPairSet
        /\ S.spair_list = {} /\ S.spair_deferred_list = {} /\ S.gen_list = {}
        /\ S.gen_deferred_list = {}
    BY <1>1, <1>2 DEF InOnePlace, SPairSetOK, InDegree
  <2>2. S' = [S EXCEPT !.spair_list = {}, !.spair_deferred_list = {}, !.gen_list = {},
                       !.gen_deferred_list = {}]
    BY DEF NewDegreeDone
  <2>3. QED
    BY <2>1, <2>2 DEF SPairSet
<1>4. UNCHANGED <<spair, gb, this_degree, first_in_degree, np_i, ar_i, done, flushed>>
  BY DEF NewDegreeDone, autored
<1>5. complete_thru_this_degree' \in -1 .. MaxDegree
  <2>1. this_degree \in 0 .. MaxDegree
    BY DEF PairsInv, TypeOK
  <2>2. complete_thru_this_degree' = this_degree - 1
    BY DEF NewDegreeDone
  <2>3. QED
    BY <2>1, <2>2, ConstantsAssumption
<1>6. state' = "DONE" /\ pc' = "idle"
  BY DEF NewDegreeDone, Return
<1>7. TypeOK'
  BY <1>1, <1>3, <1>4, <1>5, <1>6 DEF TypeOK, PairsInv, InDegree
<1>8. QED
  BY <1>1, <1>3, <1>4, <1>7 DEF PairsInv, SPairSetOK, InDegree

\* What is begun with a degree: its pairs are taken from the heap, and flushed when the
\* Hilbert function expects none of them to be new.
LEMMA NewDegreeEffect ==
  ASSUME PairsInv, NewDegree
  PROVE  /\ InOnePlace' /\ InDegree(S) = {}
         /\ this_degree' \in Degrees
         /\ complete_thru_this_degree' = this_degree' - 1
         /\ first_in_degree' = IF this_degree < this_degree' THEN n_gb ELSE first_in_degree
         /\ \A p \in S.heap : spair[p].deg >= this_degree'
         /\ \E p \in S.heap : spair[p].deg = this_degree'
         /\ \/ UNCHANGED <<status, pc>> /\ state' = "SPAIRS"
            \/ /\ Return("DONE_DEGREE_LIMIT") /\ state' = state
               /\ BeyondLimit(stop_, this_degree')
         /\ \/ done' = done /\ flushed' = flushed
            \/ \E ps \in SUBSET S.heap : /\ done' = done \cup ps /\ flushed' = flushed \cup ps
                                        /\ \A p \in ps : ~spair[p].new
                                        /\ InDegree(S)' = {}
<1>1. PICK d \in Degrees :
       /\ NextDegree(S, d)
       /\ this_degree' = d
       /\ first_in_degree' = IF this_degree < d THEN n_gb ELSE first_in_degree
       /\ complete_thru_this_degree' = DegreeBegun(d)
       /\ LET s == Prepared(S, d)
              n == HilbertCount(s)
          IN  /\ npairs' = s.n_in_degree
              /\ IF BeyondLimit(stop_, d)
                   THEN /\ S' = s /\ Return("DONE_DEGREE_LIMIT")
                        /\ UNCHANGED <<hilb_n_in_degree, done, flushed, autored, state>>
                 ELSE /\ StartSpairs /\ UNCHANGED <<status, pc>>
                      /\ hilb_n_in_degree' = IF use_hilb THEN n ELSE hilb_n_in_degree
                      /\ IF use_hilb /\ NoneExpected(n)
                           THEN /\ S' = Flushed(s)
                                /\ done' = done \cup InDegree(s)
                                /\ flushed' = flushed \cup InDegree(s)
                           ELSE S' = s /\ UNCHANGED <<done, flushed>>
  BY DEF NewDegree
<1>2. InOnePlace /\ SPairSetOK(S) /\ S.n_in_degree = 0 /\ spair' = spair
  BY PairsInvParts DEF InOnePlace, NewDegree
<1>3. InDegree(S) = {}
  <2>1. InDegree(S) \in SUBSET Pairs /\ Cardinality(InDegree(S)) = 0
    BY <1>2 DEF SPairSetOK, SPairSet, InDegree
  <2>2. QED
    BY <2>1, CountNone
<1>4. PICK s : s = Prepared(S, d)
  OBVIOUS
<1>5. /\ SPairSetOK(s) /\ InDegree(s) = {p \in S.heap : spair[p].deg = d}
      /\ s.heap = {p \in S.heap : spair[p].deg # d}
  BY <1>2, <1>3, <1>4, PreparedMoves
<1>6. /\ SPairSetOK(Flushed(s)) /\ Flushed(s).heap = s.heap /\ InDegree(Flushed(s)) = {}
  BY <1>5, FlushedEmpties
<1>7. s.heap \cap InDegree(s) = {} /\ s.heap \cup InDegree(s) = S.heap
  BY <1>5
<1>8. \/ S' = s /\ done' = done /\ flushed' = flushed
      \/ /\ S' = Flushed(s) /\ done' = done \cup InDegree(s)
         /\ flushed' = flushed \cup InDegree(s) /\ HilbertCount(s) = 0
  BY <1>1, <1>4 DEF NoneExpected
<1>9. /\ Made' = Made
      /\ \/ UNCHANGED <<status, pc>> /\ state' = "SPAIRS"
         \/ /\ Return("DONE_DEGREE_LIMIT") /\ state' = state
            /\ BeyondLimit(stop_, this_degree')
  BY <1>1, <1>2 DEF Made, StartSpairs
<1>10. CASE S' = s /\ done' = done /\ flushed' = flushed
  <2>1. InOnePlace'
    BY <1>2, <1>3, <1>5, <1>7, <1>9, <1>10 DEF InOnePlace, InDegree, SPairSetOK
  <2>2. QED
    BY <1>1, <1>3, <1>9, <1>10, <2>1 DEF NextDegree, DegreeBegun
<1>11. CASE /\ S' = Flushed(s) /\ done' = done \cup InDegree(s)
            /\ flushed' = flushed \cup InDegree(s) /\ HilbertCount(s) = 0
  <2>1. /\ SPairSetOK(S)' /\ S'.heap = s.heap /\ InDegree(S)' = {}
    BY <1>6, <1>11 DEF InDegree, SPairSetOK
  <2>2. InOnePlace'
    BY <1>2, <1>3, <1>7, <1>9, <1>11, <2>1 DEF InOnePlace
  <2>3. \A p \in InDegree(s) : ~spair[p].new
    <3>1. {p \in InDegree(s) : spair[p].new} \in SUBSET Pairs
      BY <1>5 DEF SPairSetOK, SPairSet, InDegree
    <3>2. Cardinality({p \in InDegree(s) : spair[p].new}) = 0
      BY <1>11 DEF HilbertCount
    <3>3. QED
      BY <3>1, <3>2, CountNone
  <2>4. QED
    BY <1>1, <1>3, <1>7, <1>9, <1>11, <2>1, <2>2, <2>3 DEF NextDegree, DegreeBegun
<1>12. QED
  BY <1>8, <1>10, <1>11

LEMMA PairsNewDegree ==
  ASSUME PairsInv, NewDegree
  PROVE  PairsInv'
<1>1. /\ InOnePlace' /\ this_degree' \in Degrees
      /\ complete_thru_this_degree' = this_degree' - 1
      /\ first_in_degree' = IF this_degree < this_degree' THEN n_gb ELSE first_in_degree
  BY NewDegreeEffect
<1>2. spair' = spair /\ gb' = gb /\ n_gb' = n_gb /\ np_i' = np_i
  BY DEF NewDegree, n_gb
<1>3. n_gb \in Nat /\ first_in_degree \in 0 .. n_gb /\ ar_i \in 0 .. n_gb
      /\ state \in {"NEWDEGREE", "NEWPAIRS", "HILB", "SPAIRS", "AUTOREDUCE", "DONE"}
      /\ pc \in {"idle", "top", "switch"}
  BY PairsInvParts DEF PairsInv, TypeOK
<1>4. /\ ar_i' \in 0 .. n_gb
      /\ state' \in {"NEWDEGREE", "NEWPAIRS", "HILB", "SPAIRS", "AUTOREDUCE", "DONE"}
      /\ pc' \in {"idle", "top", "switch"}
  <2>1. \/ pc' = "idle" /\ UNCHANGED <<ar_i, state>>
        \/ StartSpairs /\ pc' = pc
    BY DEF NewDegree, Return, autored
  <2>2. QED
    BY <1>3, <2>1 DEF StartSpairs
<1>5. /\ this_degree' \in 0 .. MaxDegree /\ this_degree' # 0
      /\ complete_thru_this_degree' \in -1 .. MaxDegree
      /\ first_in_degree' \in 0 .. n_gb
  <2>1. PICK d \in Degrees : d = this_degree'
    BY <1>1
  <2>2. d \in Nat /\ d > 0 /\ d <= MaxDegree /\ MaxDegree \in Nat
    BY ConstantsAssumption DEF Degrees
  <2>3. first_in_degree' \in {n_gb, first_in_degree}
    BY <1>1
  <2>4. first_in_degree' \in 0 .. n_gb
    BY <1>3, <2>3
  <2>5. this_degree' \in 0 .. MaxDegree /\ this_degree' # 0
    BY <2>1, <2>2
  <2>6. complete_thru_this_degree' \in -1 .. MaxDegree
    <3>1. complete_thru_this_degree' = d - 1
      BY <1>1, <2>1
    <3>2. QED
      BY <2>2, <3>1
  <2>7. QED
    BY <2>4, <2>5, <2>6
<1>6. {S'.nelems, S'.n_in_degree} \subseteq Int
  BY <1>1 DEF InOnePlace, SPairSetOK, SPairSet
<1>7. /\ (S.heap \cup InDegree(S) \subseteq Made)'
      /\ (done \subseteq Made)' /\ flushed' \subseteq done'
  <2>1. (S.heap \cup InDegree(S) \cup done = Made)' /\ flushed' \subseteq done'
    BY <1>1 DEF InOnePlace
  <2>2. QED
    BY <2>1
<1>8. TypeOK'
  BY <1>2, <1>4, <1>5, <1>6, <1>7 DEF TypeOK, PairsInv
<1>9. QED
  BY <1>1, <1>5, <1>8 DEF PairsInv, InOnePlace

-----------------------------------------------------------------------------
(* One pair of the degree.                                                  *)

\* insert_gb leaves the pairs, or flushes those of the degree.
LEMMA InsertGbEffect ==
  ASSUME NEW s, SPairSetOK(s), InsertGb(s)
  PROVE  /\ SPairSetOK(S') /\ S'.heap = s.heap
         /\ \/ InDegree(S') = InDegree(s) /\ flushed' = flushed
            \/ InDegree(S') = {} /\ flushed' = flushed \cup InDegree(s)
<1>1. CASE S' = s /\ flushed' = flushed
  BY <1>1
<1>2. CASE S' = Flushed(s) /\ flushed' = flushed \cup InDegree(s)
  BY <1>2, FlushedEmpties
<1>3. QED
  BY <1>1, <1>2 DEF InsertGb

\* The pairs of the lists after a step that took p out of them and left it in the heap, in
\* a list or dealt with.
LEMMA StillInOnePlace ==
  ASSUME InOnePlace, NEW p \in InDegree(S), Made' = Made, SPairSetOK(S'),
         \/ InDegree(S') = InDegree(S) /\ S'.heap = S.heap /\ done' = done /\ flushed' = flushed
         \/ /\ S'.heap = S.heap \cup {p}
            /\ done' = done \cup (flushed' \ flushed)
            /\ \/ InDegree(S') = InDegree(S) \ {p} /\ flushed' = flushed
               \/ InDegree(S') = {} /\ flushed' = flushed \cup (InDegree(S) \ {p})
         \/ /\ S'.heap = S.heap
            /\ done' = done \cup {p} \cup (flushed' \ flushed)
            /\ \/ InDegree(S') = InDegree(S) \ {p} /\ flushed' = flushed
               \/ InDegree(S') = {} /\ flushed' = flushed \cup (InDegree(S) \ {p})
  PROVE  InOnePlace'
<1>1. /\ S.heap \cap InDegree(S) = {} /\ (S.heap \cup InDegree(S)) \cap done = {}
      /\ S.heap \cup InDegree(S) \cup done = Made /\ flushed \subseteq done
  BY DEF InOnePlace, SPairSetOK
<1>2. /\ (S'.heap \cup InDegree(S')) \cap done' = {}
      /\ S'.heap \cup InDegree(S') \cup done' = Made
      /\ flushed' \subseteq done'
  BY <1>1
<1>3. SPairSetOK(S)' /\ InDegree(S)' = InDegree(S')
  BY DEF SPairSetOK, InDegree
<1>4. QED
  BY <1>2, <1>3 DEF InOnePlace

\* A pair whose record is replaced.
LEMMA PairReplaced ==
  ASSUME spair \in Seq(PairRecord), NEW p \in 1 .. Len(spair), NEW r \in PairRecord,
         spair' = [spair EXCEPT ![p] = r]
  PROVE  /\ spair' \in Seq(PairRecord) /\ Len(spair') = Len(spair) /\ Made' = Made
         /\ spair'[p] = r /\ \A q \in 1 .. Len(spair) : q # p => spair'[q] = spair[q]
<1>1. spair' \in Seq(PairRecord) /\ Len(spair') = Len(spair)
  OBVIOUS
<1>2. Made' = Made
  BY <1>1 DEF Made
<1>3. spair'[p] = r /\ \A q \in 1 .. Len(spair) : q # p => spair'[q] = spair[q]
  OBVIOUS
<1>4. QED
  BY <1>1, <1>2, <1>3

\* An element is added.
LEMMA ElementAdded ==
  ASSUME NEW elements \in Seq(ElementRecord), Len(elements) = n_gb, this_degree \in Degrees,
         NEW mingb \in BOOLEAN, NEW mingen \in BOOLEAN,
         gb' = Append(elements, Element(mingb, mingen))
  PROVE  /\ gb' \in Seq(ElementRecord) /\ n_gb' = n_gb + 1
         /\ \A i \in 1 .. n_gb : gb'[i] = elements[i]
         /\ gb'[n_gb + 1].deg = this_degree
<1>1. PICK e : e = Element(mingb, mingen)
  OBVIOUS
<1>2. e \in ElementRecord /\ e.deg = this_degree
  BY <1>1, ConstantsAssumption DEF Element, ElementRecord
<1>3. gb' = Append(elements, e)
  BY <1>1
<1>4. /\ gb' \in Seq(ElementRecord) /\ Len(gb') = Len(elements) + 1
      /\ \A i \in 1 .. Len(elements) : gb'[i] = elements[i]
      /\ gb'[Len(elements) + 1] = e
  BY <1>2, <1>3
<1>5. QED
  BY <1>2, <1>4 DEF n_gb

\* What one pair p does, that is reduced as a pair of a type with the elements given.
PairStep(p, type, elements) ==
  /\ InOnePlace' /\ Made' = Made /\ spair' \in Seq(PairRecord) /\ Len(spair') = Len(spair)
  /\ \A q \in Made : q # p => spair'[q] = spair[q]
  /\ spair'[p].new = spair[p].new /\ spair'[p].deg >= spair[p].deg
  /\ spair'[p].type \in {spair[p].type, type}
  /\ gb' \in Seq(ElementRecord) /\ n_gb' \in {n_gb, n_gb + 1}
  /\ \A i \in 1 .. n_gb : gb'[i] = elements[i]
  /\ n_gb' = n_gb + 1 => gb'[n_gb + 1].deg = this_degree
  /\ InDegree(S') \subseteq InDegree(S) /\ done \subseteq done'
  /\ \/ n_gens_left' = n_gens_left
     \/ p \in done' \ done /\ type = "gen" /\ n_gens_left' = n_gens_left - 1

\* The facts about p and the lists without it that every outcome starts from.
LEMMA PairTaken ==
  ASSUME PairsInv, NEW p \in Candidates(S)
  PROVE  /\ InOnePlace /\ SPairSetOK(Without(S, p)) /\ Without(S, p).heap = S.heap
         /\ p \in InDegree(S) /\ InDegree(Without(S, p)) = InDegree(S) \ {p}
         /\ p \in Made /\ p \in Pairs /\ p \notin S.heap /\ p \notin done
         /\ spair \in Seq(PairRecord) /\ Made = 1 .. Len(spair) /\ n_gb \in Nat
         /\ this_degree \in Degrees
         /\ spair[p] \in PairRecord /\ spair[p].deg \in Int
<1>1. /\ InOnePlace /\ spair \in Seq(PairRecord) /\ Made = 1 .. Len(spair) /\ n_gb \in Nat
      /\ Made \subseteq Pairs
  BY PairsInvParts
<1>2. /\ SPairSetOK(Without(S, p)) /\ Without(S, p).heap = S.heap
      /\ p \in InDegree(S) /\ InDegree(Without(S, p)) = InDegree(S) \ {p}
  BY <1>1, WithoutTakes DEF InOnePlace
<1>3. p \in Made /\ p \notin S.heap /\ p \notin done
  BY <1>1, <1>2 DEF InOnePlace, SPairSetOK
<1>4. this_degree \in Degrees
  <2>1. this_degree \in 0 .. MaxDegree /\ this_degree # 0
    BY <1>2 DEF PairsInv, TypeOK
  <2>2. QED
    BY <2>1, ConstantsAssumption DEF Degrees
<1>5. spair[p] \in PairRecord
  BY <1>1, <1>3
<1>6. spair[p].deg \in Int
  BY <1>5, ConstantsAssumption DEF PairRecord, Degrees
<1>7. QED
  BY <1>1, <1>2, <1>3, <1>4, <1>5, <1>6

LEMMA PairDeferred ==
  ASSUME PairsInv, NEW p \in Candidates(S), NEW type \in {"gen", "elem"},
         NEW elements \in Seq(ElementRecord), Len(elements) = n_gb,
         DeferPair(p, Without(S, p), type, elements)
  PROVE  PairStep(p, type, elements)
<1>1. PICK s : s = Without(S, p)
  OBVIOUS
<1>2. /\ InOnePlace /\ SPairSetOK(s) /\ s.heap = S.heap /\ p \in InDegree(S)
      /\ InDegree(s) = InDegree(S) \ {p} /\ p \in Made /\ p \in Pairs /\ p \notin S.heap
      /\ spair \in Seq(PairRecord) /\ Made = 1 .. Len(spair)
  BY <1>1, PairTaken
<1>3. /\ S' = Defer(s, p, type) /\ gb' = elements /\ n_gens_left' = n_gens_left
      /\ done' = done /\ flushed' = flushed /\ spair[p].work > 0
      /\ spair' = [spair EXCEPT ![p].work = @ - 1, ![p].type = type]
  BY <1>1 DEF DeferPair, GensLeftKept, NoInsertGb
<1>4. /\ spair' \in Seq(PairRecord) /\ Len(spair') = Len(spair) /\ Made' = Made
      /\ \A q \in 1 .. Len(spair) : q # p => spair'[q] = spair[q]
      /\ spair'[p].new = spair[p].new /\ spair'[p].deg = spair[p].deg
      /\ spair'[p].type = type
  <2>1. spair[p] \in PairRecord
    BY <1>2
  <2>2. PICK r : r = [spair[p] EXCEPT !.work = @ - 1, !.type = type]
    OBVIOUS
  <2>3. /\ r \in PairRecord /\ r.new = spair[p].new /\ r.deg = spair[p].deg /\ r.type = type
    <3>1. spair[p].work - 1 \in 0 .. MaxWork
      BY <1>3, <2>1, ConstantsAssumption DEF PairRecord
    <3>2. QED
      BY <2>1, <2>2, <3>1 DEF PairRecord
  <2>4. spair' = [spair EXCEPT ![p] = r]
    BY <1>2, <1>3, <2>1, <2>2
  <2>5. QED
    BY <1>2, <2>3, <2>4, PairReplaced
<1>5. SPairSetOK(S') /\ S'.heap = S.heap /\ InDegree(S') = InDegree(S)
  <2>1. p \notin s.heap /\ p \notin InDegree(s)
    BY <1>2
  <2>2. SPairSetOK(S') /\ S'.heap = s.heap /\ InDegree(S') = InDegree(s) \cup {p}
    BY <1>2, <1>3, <2>1, DeferAdds
  <2>3. QED
    BY <1>2, <2>2
<1>6. InOnePlace'
  BY <1>2, <1>3, <1>4, <1>5, StillInOnePlace
<1>7. spair[p].deg \in Int
  BY PairTaken
<1>8. n_gb' = n_gb /\ n_gb \in Nat
  BY <1>3, PairsInvParts DEF n_gb
<1>9. QED
  BY <1>2, <1>3, <1>4, <1>5, <1>6, <1>7, <1>8 DEF PairStep

LEMMA PairRaised ==
  ASSUME PairsInv, NEW p \in Candidates(S), NEW type \in {"gen", "elem"},
         NEW elements \in Seq(ElementRecord), Len(elements) = n_gb,
         RaisePair(p, Without(S, p), type, elements)
  PROVE  PairStep(p, type, elements)
<1>1. PICK s : s = Without(S, p)
  OBVIOUS
<1>2. /\ InOnePlace /\ SPairSetOK(s) /\ s.heap = S.heap /\ p \in InDegree(S)
      /\ InDegree(s) = InDegree(S) \ {p} /\ p \in Made /\ p \in Pairs /\ p \notin S.heap
      /\ spair \in Seq(PairRecord) /\ Made = 1 .. Len(spair) /\ this_degree \in Degrees
      /\ n_gb \in Nat
  BY <1>1, PairTaken
<1>3. /\ InsertGb(Insert(s, {p})) /\ gb' = Append(elements, Element(FALSE, type = "gen"))
      /\ n_gens_left' = n_gens_left /\ done' = done \cup (flushed' \ flushed)
  BY <1>1 DEF RaisePair, GensLeftKept
<1>4. PICK d \in Degrees : d > spair[p].deg
                          /\ spair' = [spair EXCEPT ![p].deg = d, ![p].type = type]
  BY DEF RaisePair
<1>5. /\ spair' \in Seq(PairRecord) /\ Len(spair') = Len(spair) /\ Made' = Made
      /\ \A q \in 1 .. Len(spair) : q # p => spair'[q] = spair[q]
      /\ spair'[p].new = spair[p].new /\ spair'[p].deg = d
      /\ spair'[p].type = type
  <2>1. spair[p] \in PairRecord
    BY <1>2
  <2>2. PICK r : r = [spair[p] EXCEPT !.deg = d, !.type = type]
    OBVIOUS
  <2>3. /\ r \in PairRecord /\ r.new = spair[p].new /\ r.deg = d /\ r.type = type
    BY <2>1, <2>2 DEF PairRecord
  <2>4. spair' = [spair EXCEPT ![p] = r]
    BY <1>2, <1>4, <2>1, <2>2
  <2>5. QED
    BY <1>2, <2>3, <2>4, PairReplaced
<1>6. PICK u : u = Insert(s, {p})
  OBVIOUS
<1>7. SPairSetOK(u) /\ u.heap = S.heap \cup {p} /\ InDegree(u) = InDegree(S) \ {p}
  <2>1. {p} \in SUBSET Pairs /\ {p} \cap InDegree(s) = {}
    BY <1>2
  <2>2. QED
    BY <1>2, <1>6, <2>1, InsertAdds
<1>8. /\ SPairSetOK(S') /\ S'.heap = S.heap \cup {p}
      /\ \/ InDegree(S') = InDegree(S) \ {p} /\ flushed' = flushed
         \/ InDegree(S') = {} /\ flushed' = flushed \cup (InDegree(S) \ {p})
  BY <1>3, <1>6, <1>7, InsertGbEffect
<1>9. InOnePlace'
  BY <1>2, <1>3, <1>5, <1>8, StillInOnePlace
<1>10. spair'[p].deg >= spair[p].deg
  <2>1. spair[p].deg \in Int
    BY PairTaken
  <2>2. d \in Int
    BY ConstantsAssumption DEF Degrees
  <2>3. QED
    BY <1>4, <1>5, <2>1, <2>2
<1>11. /\ gb' \in Seq(ElementRecord) /\ n_gb' = n_gb + 1
       /\ \A i \in 1 .. n_gb : gb'[i] = elements[i]
       /\ gb'[n_gb + 1].deg = this_degree
  BY <1>2, <1>3, ElementAdded
<1>12. QED
  BY <1>2, <1>3, <1>5, <1>8, <1>9, <1>10, <1>11 DEF PairStep

LEMMA PairNew ==
  ASSUME PairsInv, NEW p \in Candidates(S), NEW type \in {"gen", "elem"},
         NEW elements \in Seq(ElementRecord), Len(elements) = n_gb,
         NewElement(p, Without(S, p), type, elements)
  PROVE  PairStep(p, type, elements)
<1>1. PICK s : s = Without(S, p)
  OBVIOUS
<1>2. /\ InOnePlace /\ SPairSetOK(s) /\ s.heap = S.heap /\ p \in InDegree(S) /\ p \notin done
      /\ InDegree(s) = InDegree(S) \ {p} /\ p \in Made
      /\ spair \in Seq(PairRecord) /\ Made = 1 .. Len(spair) /\ this_degree \in Degrees
      /\ n_gb \in Nat
  BY <1>1, PairTaken
<1>3. /\ InsertGb(s) /\ gb' = Append(elements, Element(TRUE, type = "gen"))
      /\ done' = done \cup {p} \cup (flushed' \ flushed) /\ spair' = spair
      /\ n_gens_left' = IF type = "gen" THEN n_gens_left - 1 ELSE n_gens_left
  BY <1>1 DEF NewElement, GensLeft
<1>4. Made' = Made /\ spair[p].deg \in Int
  BY <1>3, PairTaken DEF Made
<1>5. /\ SPairSetOK(S') /\ S'.heap = S.heap
      /\ \/ InDegree(S') = InDegree(S) \ {p} /\ flushed' = flushed
         \/ InDegree(S') = {} /\ flushed' = flushed \cup (InDegree(S) \ {p})
  BY <1>2, <1>3, InsertGbEffect
<1>6. InOnePlace'
  BY <1>2, <1>3, <1>4, <1>5, StillInOnePlace
<1>7. /\ gb' \in Seq(ElementRecord) /\ n_gb' = n_gb + 1
      /\ \A i \in 1 .. n_gb : gb'[i] = elements[i]
      /\ gb'[n_gb + 1].deg = this_degree
  BY <1>2, <1>3, ElementAdded
<1>8. /\ Len(spair') = Len(spair) /\ spair' \in Seq(PairRecord)
      /\ \A q \in Made : spair'[q] = spair[q]
      /\ spair'[p].deg >= spair[p].deg
  BY <1>2, <1>3, <1>4
<1>9. /\ InDegree(S') \subseteq InDegree(S) /\ done \subseteq done'
      /\ p \in done' \ done
  BY <1>2, <1>3, <1>5
<1>10. QED
  BY <1>2, <1>3, <1>4, <1>6, <1>7, <1>8, <1>9 DEF PairStep

LEMMA PairZero ==
  ASSUME PairsInv, NEW p \in Candidates(S), NEW type \in {"gen", "elem"},
         NEW elements \in Seq(ElementRecord), Len(elements) = n_gb,
         ZeroRemainder(p, Without(S, p), type, elements)
  PROVE  PairStep(p, type, elements)
<1>1. PICK s : s = Without(S, p)
  OBVIOUS
<1>2. /\ InOnePlace /\ SPairSetOK(s) /\ s.heap = S.heap /\ p \in InDegree(S) /\ p \notin done
      /\ InDegree(s) = InDegree(S) \ {p} /\ p \in Made
      /\ spair \in Seq(PairRecord) /\ Made = 1 .. Len(spair) /\ this_degree \in Degrees
      /\ n_gb \in Nat
  BY <1>1, PairTaken
<1>3. /\ done' = done \cup {p} \cup (flushed' \ flushed) /\ spair' = spair
      /\ n_gens_left' = IF type = "gen" THEN n_gens_left - 1 ELSE n_gens_left
      /\ \/ gb' = elements /\ S' = s /\ flushed' = flushed
         \/ InsertGb(s) /\ gb' = Append(elements, Element(FALSE, type = "gen"))
  BY <1>1 DEF ZeroRemainder, GensLeft, NoInsertGb
<1>4. Made' = Made /\ spair[p].deg \in Int
  BY <1>3, PairTaken DEF Made
<1>5. /\ SPairSetOK(S') /\ S'.heap = S.heap
      /\ \/ InDegree(S') = InDegree(S) \ {p} /\ flushed' = flushed
         \/ InDegree(S') = {} /\ flushed' = flushed \cup (InDegree(S) \ {p})
  BY <1>2, <1>3, InsertGbEffect
<1>6. InOnePlace'
  BY <1>2, <1>3, <1>4, <1>5, StillInOnePlace
<1>7. /\ gb' \in Seq(ElementRecord) /\ n_gb' \in {n_gb, n_gb + 1}
      /\ \A i \in 1 .. n_gb : gb'[i] = elements[i]
      /\ n_gb' = n_gb + 1 => gb'[n_gb + 1].deg = this_degree
  <2>1. CASE gb' = elements
    BY <1>2, <2>1 DEF n_gb
  <2>2. CASE gb' = Append(elements, Element(FALSE, type = "gen"))
    BY <1>2, <2>2, ElementAdded
  <2>3. QED
    BY <1>3, <2>1, <2>2
<1>8. /\ Len(spair') = Len(spair) /\ spair' \in Seq(PairRecord)
      /\ \A q \in Made : spair'[q] = spair[q]
      /\ spair'[p].deg >= spair[p].deg
  BY <1>2, <1>3, <1>4
<1>9. /\ InDegree(S') \subseteq InDegree(S) /\ done \subseteq done'
      /\ p \in done' \ done
  BY <1>2, <1>3, <1>5
<1>10. QED
  BY <1>2, <1>3, <1>4, <1>6, <1>7, <1>8, <1>9 DEF PairStep

\* One turn of the loop is a step of one pair; over the integers it may have been swapped
\* with an element of this degree.
SpairsStep(p, type, elements) ==
  /\ ProcessSpair(p, Without(S, p), type, elements) /\ PairStep(p, type, elements)
  /\ \A i \in 1 .. n_gb : /\ elements[i].deg = gb[i].deg
                          /\ elements[i] = gb[i] \/ i > first_in_degree
  /\ OverZZ \/ type = ComputedType(p)

LEMMA SpairsEffect ==
  ASSUME PairsInv, Spairs
  PROVE  \E p \in Candidates(S), type \in {"gen", "elem"}, elements \in Seq(ElementRecord) :
           SpairsStep(p, type, elements)
<1>1. PICK p \in Candidates(S) : \/ ProcessSpair(p, Without(S, p), ComputedType(p), gb)
                                \/ ProcessSwapped(p, Without(S, p))
  BY DEF Spairs
<1>2. gb \in Seq(ElementRecord) /\ n_gb \in Nat /\ first_in_degree \in 0 .. n_gb
  BY PairsInvParts DEF PairsInv, TypeOK
<1>3. ASSUME NEW type \in {"gen", "elem"}, NEW elements \in Seq(ElementRecord),
             Len(elements) = n_gb, ProcessSpair(p, Without(S, p), type, elements),
             \A i \in 1 .. n_gb : /\ elements[i].deg = gb[i].deg
                                  /\ elements[i] = gb[i] \/ i > first_in_degree,
             OverZZ \/ type = ComputedType(p)
      PROVE  SpairsStep(p, type, elements)
  <2>1. PairStep(p, type, elements)
    BY <1>3, PairDeferred, PairRaised, PairNew, PairZero DEF ProcessSpair
  <2>2. QED
    BY <1>3, <2>1 DEF SpairsStep
<1>4. CASE ProcessSpair(p, Without(S, p), ComputedType(p), gb)
  <2>1. ComputedType(p) \in {"gen", "elem"} /\ Len(gb) = n_gb
    BY DEF ComputedType, n_gb
  <2>2. QED
    BY <1>2, <1>3, <1>4, <2>1
<1>5. CASE ProcessSwapped(p, Without(S, p))
  <2>1. PICK k \in first_in_degree + 1 .. n_gb :
          LET type == IF gb[k].mingen THEN "gen" ELSE ComputedType(p)
          IN  ProcessSpair(p, Without(S, p), type,
                           [gb EXCEPT ![k].mingb = TRUE, ![k].mingen = type = "gen"])
    BY <1>5 DEF ProcessSwapped
  <2>2. PICK type : type = IF gb[k].mingen THEN "gen" ELSE ComputedType(p)
    OBVIOUS
  <2>3. PICK elements : elements = [gb EXCEPT ![k].mingb = TRUE, ![k].mingen = type = "gen"]
    OBVIOUS
  <2>4. type \in {"gen", "elem"}
    BY <2>2 DEF ComputedType
  <2>5. k \in 1 .. Len(gb) /\ k > first_in_degree /\ gb[k] \in ElementRecord
    BY <1>2 DEF n_gb
  <2>6. PICK e : e = [gb[k] EXCEPT !.mingb = TRUE, !.mingen = type = "gen"]
    OBVIOUS
  <2>7. e \in ElementRecord /\ e.deg = gb[k].deg
    BY <2>5, <2>6 DEF ElementRecord
  <2>8. elements = [gb EXCEPT ![k] = e]
    BY <1>2, <2>3, <2>5, <2>6
  <2>9. /\ elements \in Seq(ElementRecord) /\ Len(elements) = n_gb
        /\ \A i \in 1 .. n_gb : /\ elements[i].deg = gb[i].deg
                                /\ elements[i] = gb[i] \/ i > first_in_degree
    <3>1. elements \in Seq(ElementRecord) /\ Len(elements) = Len(gb)
      BY <1>2, <2>5, <2>7, <2>8
    <3>2. elements[k] = e /\ \A i \in 1 .. Len(gb) : i # k => elements[i] = gb[i]
      BY <1>2, <2>5, <2>8
    <3>3. QED
      BY <2>5, <2>7, <3>1, <3>2 DEF n_gb
  <2>10. ProcessSpair(p, Without(S, p), type, elements)
    BY <2>1, <2>2, <2>3
  <2>11. OverZZ
    BY <1>5 DEF ProcessSwapped
  <2>12. QED
    BY <1>3, <2>4, <2>9, <2>10, <2>11
<1>6. QED
  BY <1>1, <1>4, <1>5

LEMMA PairsSpairs ==
  ASSUME PairsInv, Spairs
  PROVE  PairsInv'
<1>1. PICK p \in Candidates(S), type \in {"gen", "elem"}, elements \in Seq(ElementRecord) :
        PairStep(p, type, elements)
  BY SpairsEffect DEF SpairsStep
<1>2. /\ InOnePlace' /\ Made' = Made /\ spair' \in Seq(PairRecord) /\ Len(spair') = Len(spair)
      /\ gb' \in Seq(ElementRecord) /\ n_gb' \in {n_gb, n_gb + 1}
  BY <1>1 DEF PairStep
<1>3. /\ n_gb \in Nat /\ first_in_degree \in 0 .. n_gb /\ np_i \in 0 .. n_gb /\ ar_i \in 0 .. n_gb
      /\ Len(spair) \in NGens .. MaxPairs /\ pc \in {"idle", "top", "switch"}
      /\ state \in {"NEWDEGREE", "NEWPAIRS", "HILB", "SPAIRS", "AUTOREDUCE", "DONE"}
  BY PairsInvParts DEF PairsInv, TypeOK
<1>4. this_degree # 0
  BY <1>1, PairTaken DEF Degrees
<1>5. /\ UNCHANGED <<state, this_degree, complete_thru_this_degree, first_in_degree, np_i, ar_i>>
      /\ pc' \in {"idle", "top", "switch"}
  BY <1>3 DEF Spairs, degrees, autored, Return
<1>6. /\ first_in_degree' \in 0 .. n_gb' /\ np_i' \in 0 .. n_gb' /\ ar_i' \in 0 .. n_gb'
  BY <1>2, <1>3, <1>5
<1>7. /\ (S.heap \cup InDegree(S) \subseteq Made)'
      /\ (done \subseteq Made)' /\ flushed' \subseteq done'
  <2>1. (S.heap \cup InDegree(S) \cup done = Made)' /\ flushed' \subseteq done'
    BY <1>2 DEF InOnePlace
  <2>2. QED
    BY <2>1
<1>8. {S'.nelems, S'.n_in_degree} \subseteq Int
  BY <1>2 DEF InOnePlace, SPairSetOK, SPairSet
<1>9. TypeOK'
  BY <1>2, <1>3, <1>5, <1>6, <1>7, <1>8 DEF TypeOK, PairsInv, PairRecord, ElementRecord
<1>10. QED
  BY <1>2, <1>4, <1>5, <1>9 DEF PairsInv, InOnePlace

LEMMA PairsInductive ==
  PairsInv /\ [Next]_vars => PairsInv'
<1> SUFFICES ASSUME PairsInv, [Next]_vars PROVE PairsInv'
  OBVIOUS
<1>1. CASE NewPairs
  BY <1>1, PairsNewPairs
<1>2. CASE NewDegreeDone
  BY <1>2, PairsNewDegreeDone
<1>3. CASE NewDegree
  BY <1>3, PairsNewDegree
<1>4. CASE Spairs
  BY <1>4, PairsSpairs
<1>5. QED
  BY <1>1, <1>2, <1>3, <1>4, PairsIdle DEF Next, Compute

THEOREM PairsInvariant ==
  Spec => []PairsInv
<1>1. PairsInv /\ [Next]_vars => PairsInv'
  BY PairsInductive
<1>2. QED
  BY PairsInit, <1>1, PTL DEF Spec

\* Every pair is in the heap, in one list of the degree, or dealt with, and the counters of
\* the set say how many there are (spair_set_insert, spair_set_next, spair_set_defer,
\* spair_set_prepare_next_degree, flush_pairs of gb-default.cpp).
THEOREM PairsAlwaysAccounted ==
  Spec => []PairsAccounted
<1>1. ASSUME PairsInv
      PROVE  PairsAccounted
  <2>1. /\ InOnePlace /\ Made = 1 .. Len(spair) /\ Made \subseteq Pairs /\ Len(spair) \in Nat
    BY <1>1, PairsInvParts
  <2>2. /\ S.heap \in SUBSET Pairs /\ S.spair_list \in SUBSET Pairs
        /\ S.spair_deferred_list \in SUBSET Pairs /\ S.gen_list \in SUBSET Pairs
        /\ S.gen_deferred_list \in SUBSET Pairs /\ done \in SUBSET Pairs
    BY <2>1 DEF InOnePlace, SPairSetOK, SPairSet
  <2>3. /\ S.heap \cap InDegree(S) = {} /\ (S.heap \cup InDegree(S)) \cap done = {}
        /\ S.spair_list \cap (S.spair_deferred_list \cup S.gen_list \cup S.gen_deferred_list) = {}
        /\ S.spair_deferred_list \cap (S.gen_list \cup S.gen_deferred_list) = {}
        /\ S.gen_list \cap S.gen_deferred_list = {}
    BY <2>1 DEF InOnePlace, SPairSetOK
  <2>4. Cardinality(Made) = Len(spair)
    <3>1. \A n \in Nat : Cardinality(1 .. n) = n
      BY FS_Interval
    <3>2. QED
      BY <2>1, <3>1
  <2> DEFINE gens == S.gen_list \cup S.gen_deferred_list
             late == S.spair_deferred_list \cup gens
             all  == S.spair_list \cup late
             left == S.heap \cup all
  <2>5. Cardinality(gens) = Cardinality(S.gen_list) + Cardinality(S.gen_deferred_list)
    BY <2>2, <2>3, CountApart
  <2>6. Cardinality(late) = Cardinality(S.spair_deferred_list) + Cardinality(gens)
    BY <2>2, <2>3, CountApart
  <2>7. Cardinality(all) = Cardinality(S.spair_list) + Cardinality(late)
    BY <2>2, <2>3, CountApart
  <2>8. all = InDegree(S)
    BY DEF InDegree
  <2>9. Cardinality(left) = Cardinality(S.heap) + Cardinality(all)
    <3>1. all \in SUBSET Pairs /\ S.heap \cap all = {}
      BY <2>2, <2>3, <2>8
    <3> HIDE DEF all
    <3>2. QED
      BY <2>2, <3>1, CountApart
  <2>10. Cardinality(left \cup done) = Cardinality(left) + Cardinality(done)
    <3>1. left \in SUBSET Pairs /\ left \cap done = {}
      BY <2>2, <2>3, <2>8
    <3> HIDE DEF left
    <3>2. QED
      BY <2>2, <3>1, CountApart
  <2>11. left \cup done = Made
    BY <2>1, <2>8 DEF InOnePlace
  <2>12. /\ Cardinality(S.heap) \in Nat /\ Cardinality(S.spair_list) \in Nat
         /\ Cardinality(S.spair_deferred_list) \in Nat /\ Cardinality(S.gen_list) \in Nat
         /\ Cardinality(S.gen_deferred_list) \in Nat /\ Cardinality(done) \in Nat
    BY <2>2, PairsFinite
  <2> HIDE DEF gens, late, all, left
  <2>13. Cardinality(S.heap) + Cardinality(S.spair_list) + Cardinality(S.spair_deferred_list)
           + Cardinality(S.gen_list) + Cardinality(S.gen_deferred_list) + Cardinality(done)
         = Len(spair)
    <3>1. Cardinality(late) = Cardinality(S.spair_deferred_list) + Cardinality(S.gen_list)
                               + Cardinality(S.gen_deferred_list)
      BY <2>5, <2>6, <2>12
    <3>2. Cardinality(left) = Cardinality(S.heap) + Cardinality(S.spair_list)
             + Cardinality(S.spair_deferred_list) + Cardinality(S.gen_list)
             + Cardinality(S.gen_deferred_list)
      BY <2>7, <2>9, <2>12, <3>1
    <3>3. Len(spair) = Cardinality(left) + Cardinality(done)
      BY <2>4, <2>10, <2>11
    <3>4. QED
      BY <2>12, <3>2, <3>3
  <2>14. NoPairLost
    BY <2>1, <2>13 DEF NoPairLost, InOnePlace
  <2>15. InDegreeTruthful
    BY <2>1 DEF InOnePlace, SPairSetOK, InDegreeTruthful
  <2>16. QED
    BY <1>1, <2>14, <2>15 DEF PairsAccounted, PairsInv
<1>2. QED
  BY <1>1, PairsInvariant, PTL

-----------------------------------------------------------------------------
(* What the status says is true, when a Hilbert function comes with the      *)
(* first call or not at all: rawGBSetHilbertFunction sends a computation to  *)
(* STATE_HILB from wherever it is.                                           *)

HintGivenFirst == HintedCalls \subseteq {1}

\* The types the comparisons of degrees need.
LEMMA DegreesAreIntegers ==
  ASSUME PairsInv
  PROVE  /\ this_degree \in Nat /\ complete_thru_this_degree \in Int
         /\ first_in_degree \in Nat /\ np_i \in Nat /\ n_gb \in Nat /\ np_i <= n_gb
         /\ \A p \in Made : spair[p] \in PairRecord /\ spair[p].deg \in Int
         /\ \A i \in 1 .. n_gb : gb[i] \in ElementRecord /\ gb[i].deg \in Int
<1>1. /\ spair \in Seq(PairRecord) /\ gb \in Seq(ElementRecord) /\ Made = 1 .. Len(spair)
      /\ n_gb \in Nat
  BY PairsInvParts
<1>2. \A p \in Made : spair[p] \in PairRecord
  BY <1>1
<1>3. \A i \in 1 .. n_gb : gb[i] \in ElementRecord
  BY <1>1 DEF n_gb
<1>4. Degrees \subseteq Int
  BY ConstantsAssumption DEF Degrees
<1>5. /\ \A p \in Made : spair[p].deg \in Int
      /\ \A i \in 1 .. n_gb : gb[i].deg \in Int
  BY <1>2, <1>3, <1>4 DEF PairRecord, ElementRecord
<1>6. /\ this_degree \in Nat /\ complete_thru_this_degree \in Int
      /\ first_in_degree \in Nat /\ np_i \in Nat /\ np_i <= n_gb
  BY <1>1, ConstantsAssumption DEF PairsInv, TypeOK
<1>7. QED
  BY <1>1, <1>2, <1>3, <1>5, <1>6

LEMMA StatusInit ==
  Init => StatusInv
<1> SUFFICES ASSUME Init PROVE StatusInv
  OBVIOUS
<1>1. /\ gb = <<>> /\ n_gb = 0 /\ np_i = 0 /\ state = "NEWDEGREE" /\ status = "NOT_STARTED"
      /\ this_degree = 0 /\ complete_thru_this_degree = 0 /\ pc = "idle" /\ calls = 0
      /\ first_in_degree = 0 /\ stop_.degree_limit = NoLimit
  BY DEF Init, n_gb
<1>2. InDegree(S) = {}
  BY DEF Init, InDegree
<1>3. \A p \in Made \ done : spair[p].deg > complete_thru_this_degree
  <2>1. PairsInv
    BY PairsInit
  <2>2. \A p \in Made : spair[p].deg \in Degrees
    BY <2>1, DegreesAreIntegers DEF PairRecord
  <2>3. QED
    BY <1>1, <2>2, ConstantsAssumption DEF Degrees
<1>4. StatusTruthful
  BY <1>1, <1>3 DEF StatusTruthful, CompleteThruTruthful, DoneMeansComplete, DegreeLimitReached
<1>5. QED
  BY <1>1, <1>2, <1>4 DEF StatusInv

\* While a call runs the computation is not done.
LEMMA StatusRunning ==
  ASSUME StatusInv, pc # "idle"
  PROVE  status # "DONE" /\ state # "DONE" /\ calls \in Nat /\ calls # 0
BY DEF StatusInv

\* Steps that leave the pairs, the elements and the degrees alone.
LEMMA StatusUntouched ==
  ASSUME StatusInv, UNCHANGED <<spair, S, gb, degrees, np_i, done>>,
         status' # "DONE", state' # "DONE",
         state' \in {"HILB", "NEWDEGREE"} => np_i = n_gb,
         this_degree = 0 => \/ state' \in {"HILB", "NEWDEGREE"}
                            \/ complete_thru_this_degree = -1,
         calls' \in Nat /\ calls' # 0,
         stop_'.degree_limit \in Degrees \cup {NoLimit},
         DegreeLimitReached'
  PROVE  StatusInv'
<1>1. /\ UNCHANGED <<Made, n_gb, InDegree(S)>>
      /\ UNCHANGED <<this_degree, complete_thru_this_degree, first_in_degree>>
  BY DEF Made, n_gb, InDegree, degrees
<1>2. CompleteThruTruthful'
  BY <1>1 DEF StatusInv, StatusTruthful, CompleteThruTruthful
<1>3. StatusTruthful'
  BY <1>2 DEF StatusTruthful, DoneMeansComplete
<1>4. /\ \/ complete_thru_this_degree' = this_degree' - 1
         \/ /\ this_degree' = 0 /\ complete_thru_this_degree' = 0
            /\ state' \in {"NEWDEGREE", "HILB"} /\ gb' = <<>> /\ InDegree(S)' = {}
      /\ \A k \in first_in_degree' + 1 .. n_gb' : gb'[k].deg = this_degree'
  BY <1>1 DEF StatusInv
<1>5. QED
  BY <1>1, <1>3, <1>4 DEF StatusInv

\* The code a stop condition gives is neither that of a computation that is done nor that
\* of the degree limit.
LEMMA CompleteCodes ==
  ASSUME NEW stop, NEW a, NEW b, NEW c, NEW d, NEW e
  PROVE  Complete(stop, a, b, c, d, e) \notin {"DONE", "DONE_DEGREE_LIMIT"}
BY DEF Complete

LEMMA StatusCall ==
  ASSUME HintGivenFirst, PairsInv, StatusInv, Call
  PROVE  StatusInv'
<1>1. /\ UNCHANGED <<spair, S, gb, degrees, np_i, done>> /\ pc = "idle" /\ status # "DONE"
      /\ calls' = calls + 1 /\ stop_' \in StopConditions
  BY DEF Call
<1>2. calls' \in Nat /\ calls' # 0
  BY <1>1 DEF StatusInv
<1>3. stop_'.degree_limit \in Degrees \cup {NoLimit}
  BY <1>1, ConstantsAssumption
<1>4. /\ status' # "DONE"
      /\ \/ pc' = "top" \/ stop_'.always_stop \/ status' # "DONE_DEGREE_LIMIT"
  BY <1>1, CompleteCodes DEF Call, Return
<1>5. DegreeLimitReached'
  BY <1>4 DEF DegreeLimitReached
<1>6. CASE state' = state
  BY <1>1, <1>2, <1>3, <1>4, <1>5, <1>6, StatusUntouched DEF StatusInv
<1>7. CASE calls' \in HintedCalls /\ state' = "HILB"
  <2>1. calls = 0
    BY <1>1, <1>7 DEF HintGivenFirst, StatusInv
  <2>2. state = "NEWDEGREE"
    BY <2>1 DEF StatusInv
  <2>3. np_i = n_gb
    BY <2>2 DEF StatusInv
  <2>4. QED
    BY <1>1, <1>2, <1>3, <1>4, <1>5, <1>7, <2>3, StatusUntouched
<1>8. QED
  BY <1>6, <1>7 DEF Call

LEMMA StatusIdle ==
  ASSUME PairsInv, StatusInv,
         \/ Interrupt \/ LoopHead \/ NewPairsEnd \/ Hilb \/ NewDegreeResumed
         \/ SpairsEnd \/ AutoReduce \/ AutoReduceEnd
  PROVE  StatusInv'
<1>1. /\ UNCHANGED <<spair, S, gb, degrees, np_i, done, calls, stop_>> /\ pc # "idle"
  BY DEF Interrupt, LoopHead, NewPairsEnd, Hilb, NewDegreeResumed, SpairsEnd, AutoReduce,
         AutoReduceEnd, bounds, In
<1>2. /\ status # "DONE" /\ state # "DONE" /\ calls' \in Nat /\ calls' # 0
      /\ stop_'.degree_limit \in Degrees \cup {NoLimit}
  BY <1>1, StatusRunning DEF StatusInv
<1>3. this_degree \in Nat /\ complete_thru_this_degree \in Int
  BY DegreesAreIntegers
<1>4. /\ this_degree = 0 => \/ state \in {"HILB", "NEWDEGREE"}
                             \/ complete_thru_this_degree = -1
      /\ state \in {"HILB", "NEWDEGREE"} => np_i = n_gb
  BY <1>3 DEF StatusInv
<1>5. complete_thru_this_degree = this_degree - 1 \/ state \in {"HILB", "NEWDEGREE"}
  BY DEF StatusInv
<1>6. S.n_in_degree # 0 => this_degree # 0
  BY FS_EmptySet DEF PairsInv, SPairSetOK
<1>7. /\ status' # "DONE" /\ state' # "DONE"
      /\ state' \in {"HILB", "NEWDEGREE"} => np_i = n_gb
      /\ this_degree = 0 => \/ state' \in {"HILB", "NEWDEGREE"}
                             \/ complete_thru_this_degree = -1
  <2>1. CASE Interrupt \/ LoopHead \/ AutoReduce
    <3>1. state' = state /\ status' # "DONE"
      BY <1>2, <2>1 DEF Interrupt, LoopHead, AutoReduce, Return
    <3>2. QED
      BY <1>2, <1>4, <3>1
  <2>2. CASE NewPairsEnd
    BY <1>2, <2>2 DEF NewPairsEnd, In
  <2>3. CASE Hilb
    <3>1. state = "HILB" /\ state' \in {"HILB", "NEWDEGREE"} /\ status' # "DONE"
      BY <1>2, <2>3 DEF Hilb, In, Return
    <3>2. QED
      BY <1>4, <3>1
  <2>4. CASE NewDegreeResumed
    <3>1. state' = "SPAIRS" /\ status' = status /\ this_degree # 0
      BY <1>6, <2>4 DEF NewDegreeResumed, StartSpairs
    <3>2. QED
      BY <1>2, <3>1
  <2>5. CASE SpairsEnd \/ AutoReduceEnd
    <3>1. /\ state \in {"SPAIRS", "AUTOREDUCE"} /\ state' \in {"AUTOREDUCE", "NEWPAIRS"}
          /\ status' = status
      BY <2>5 DEF SpairsEnd, AutoReduceEnd, In
    <3>2. QED
      BY <1>2, <1>4, <3>1
  <2>6. QED
    BY <2>1, <2>2, <2>3, <2>4, <2>5
<1>8. DegreeLimitReached'
  <2>1. SUFFICES ASSUME pc' = "idle", status' = "DONE_DEGREE_LIMIT"
                 PROVE  /\ stop_'.degree_limit # NoLimit
                        /\ complete_thru_this_degree' >= stop_'.degree_limit
    BY DEF DegreeLimitReached
  <2>2. LoopHead
    BY <1>1, <2>1 DEF Interrupt, NewPairsEnd, Hilb, NewDegreeResumed, SpairsEnd, AutoReduce,
                      AutoReduceEnd, Return, In
  <2>3. BeyondLimit(stop_, this_degree)
    BY <1>2, <2>1, <2>2 DEF LoopHead, Return
  <2>4. /\ stop_.degree_limit # NoLimit /\ stop_.degree_limit \in Degrees
        /\ this_degree > stop_.degree_limit
    BY <2>3 DEF BeyondLimit, StatusInv
  <2>5. PICK l \in Nat : l = stop_.degree_limit /\ l > 0
    BY <2>4, ConstantsAssumption DEF Degrees
  <2>6. complete_thru_this_degree = this_degree - 1
    BY <1>3, <2>4, <2>5 DEF StatusInv
  <2>7. UNCHANGED <<complete_thru_this_degree, stop_>>
    BY <1>1 DEF degrees
  <2>8. QED
    BY <1>3, <2>4, <2>5, <2>6, <2>7
<1>9. QED
  BY <1>1, <1>2, <1>7, <1>8, StatusUntouched

LEMMA StatusNewPairs ==
  ASSUME PairsInv, StatusInv, NewPairs
  PROVE  StatusInv'
<1>1. /\ pc = "switch" /\ state = "NEWPAIRS" /\ state' = state /\ np_i < n_gb
      /\ UNCHANGED <<gb, degrees, calls, stop_, flushed>>
  BY DEF NewPairs, In, bounds
<1>2. /\ status # "DONE" /\ calls' \in Nat /\ calls' # 0
      /\ stop_'.degree_limit \in Degrees \cup {NoLimit}
  BY <1>1, StatusRunning DEF StatusInv
<1>3. /\ this_degree \in Nat /\ complete_thru_this_degree \in Int /\ np_i \in Nat /\ n_gb \in Nat
      /\ \A i \in 1 .. n_gb : gb[i] \in ElementRecord /\ gb[i].deg \in Int
      /\ complete_thru_this_degree = this_degree - 1
  BY <1>1, DegreesAreIntegers DEF StatusInv
<1>4. CASE interruptedFlag
  <2>1. UNCHANGED <<spair, S, done, np_i>> /\ status' = "INTERRUPTED"
    BY <1>4 DEF NewPairs, Return
  <2>2. DegreeLimitReached'
    BY <2>1 DEF DegreeLimitReached
  <2>3. QED
    BY <1>1, <1>2, <1>3, <2>1, <2>2, StatusUntouched
<1>5. CASE ~interruptedFlag
  <2>1. np_i' = np_i + 1 /\ status' = status /\ pc' = pc
    BY <1>5 DEF NewPairs
  <2>2. \A p \in Made' \ done' : spair'[p].deg > complete_thru_this_degree
    <3>1. CASE gb[np_i + 1].mingb
      <4>1. PICK g \in ElementRecord : g = gb[np_i + 1]
        BY <1>1, <1>3
      <4>2. UpdatePairs(g)
        BY <1>5, <3>1, <4>1 DEF NewPairs
      <4>3. /\ done \subseteq done'
            /\ \A q \in Made : spair'[q] = spair[q]
            /\ \A q \in Made' \ Made : spair'[q].deg >= g.deg
            /\ spair' \in Seq(PairRecord)
        BY <1>1, <4>2, UpdatePairsEffect
      <4>4. g.deg > complete_thru_this_degree
        <5>1. np_i + 1 \in np_i + 1 .. n_gb
          BY <1>1, <1>3
        <5>2. QED
          BY <3>1, <4>1, <5>1 DEF StatusInv, StatusTruthful, CompleteThruTruthful
      <4>5. \A q \in Made' : spair'[q].deg \in Int
        <5>1. \A q \in Made' : spair'[q] \in PairRecord
          BY <4>3 DEF Made
        <5>2. QED
          BY <5>1, ConstantsAssumption DEF PairRecord, Degrees
      <4>6. g.deg \in Int
        BY ConstantsAssumption DEF ElementRecord, Degrees
      <4>7. \A q \in Made \ done : spair[q].deg > complete_thru_this_degree
        BY DEF StatusInv, StatusTruthful, CompleteThruTruthful
      <4>8. TAKE q \in Made' \ done'
      <4>9. CASE q \in Made
        BY <4>3, <4>7, <4>9
      <4>10. CASE q \notin Made
        BY <1>3, <4>3, <4>4, <4>5, <4>6, <4>10
      <4>11. QED
        BY <4>9, <4>10
    <3>2. CASE ~gb[np_i + 1].mingb
      BY <1>5, <3>2 DEF NewPairs, StatusInv, StatusTruthful, CompleteThruTruthful, Made
    <3>3. QED
      BY <3>1, <3>2
  <2>3. /\ complete_thru_this_degree' = complete_thru_this_degree /\ n_gb' = n_gb
        /\ this_degree' = this_degree /\ first_in_degree' = first_in_degree /\ gb' = gb
    BY <1>1 DEF degrees, n_gb
  <2>4. CompleteThruTruthful'
    <3>1. \A i \in np_i' + 1 .. n_gb' : gb'[i].mingb => gb'[i].deg > complete_thru_this_degree'
      BY <1>3, <2>1, <2>3 DEF StatusInv, StatusTruthful, CompleteThruTruthful
    <3>2. QED
      BY <2>2, <2>3, <3>1 DEF CompleteThruTruthful
  <2>5. StatusTruthful'
    BY <1>1, <1>2, <2>1, <2>4 DEF StatusTruthful, DoneMeansComplete, DegreeLimitReached
  <2>6. QED
    BY <1>1, <1>2, <1>3, <2>1, <2>3, <2>5 DEF StatusInv
<1>6. QED
  BY <1>4, <1>5

LEMMA StatusNewDegreeDone ==
  ASSUME PairsInv, StatusInv, NewDegreeDone
  PROVE  StatusInv'
<1>1. /\ pc = "switch" /\ state = "NEWDEGREE" /\ S.n_in_degree = 0 /\ S.heap = {}
      /\ state' = "DONE" /\ status' = "DONE" /\ pc' = "idle"
      /\ complete_thru_this_degree' = this_degree - 1
      /\ UNCHANGED <<spair, gb, this_degree, first_in_degree, np_i, done, stop_, calls>>
  BY DEF NewDegreeDone, In, Return, bounds
<1>2. calls' \in Nat /\ calls' # 0
  BY <1>1, StatusRunning
<1>3. InDegree(S) = {}
  <2>1. SPairSetOK(S)
    BY DEF PairsInv
  <2>2. InDegree(S) \in SUBSET Pairs /\ Cardinality(InDegree(S)) = 0
    BY <1>1, <2>1 DEF SPairSetOK, SPairSet, InDegree
  <2>3. QED
    BY <2>2, CountNone
<1>4. done = Made
  BY <1>1, <1>3 DEF PairsInv
<1>5. np_i = n_gb /\ n_gb \in Nat
  BY <1>1, DegreesAreIntegers DEF StatusInv
<1>6. Made' = Made /\ n_gb' = n_gb
  BY <1>1 DEF Made, n_gb
<1>7. CompleteThruTruthful'
  BY <1>1, <1>4, <1>5, <1>6 DEF CompleteThruTruthful
<1>8. StatusTruthful'
  BY <1>1, <1>4, <1>5, <1>6, <1>7 DEF StatusTruthful, DoneMeansComplete, DegreeLimitReached
<1>9. QED
  BY <1>1, <1>2, <1>5, <1>6, <1>8 DEF StatusInv

LEMMA StatusNewDegree ==
  ASSUME PairsInv, StatusInv, NewDegree
  PROVE  StatusInv'
<1>1. /\ pc = "switch" /\ state = "NEWDEGREE"
      /\ UNCHANGED <<spair, gb, np_i, stop_, calls>>
  BY DEF NewDegree, In, bounds
<1>2. /\ InOnePlace' /\ InDegree(S) = {} /\ this_degree' \in Degrees
      /\ complete_thru_this_degree' = this_degree' - 1
      /\ first_in_degree' = IF this_degree < this_degree' THEN n_gb ELSE first_in_degree
      /\ \A p \in S.heap : spair[p].deg >= this_degree'
      /\ \E p \in S.heap : spair[p].deg = this_degree'
      /\ \/ UNCHANGED <<status, pc>> /\ state' = "SPAIRS"
         \/ /\ Return("DONE_DEGREE_LIMIT") /\ state' = state
            /\ BeyondLimit(stop_, this_degree')
      /\ done \subseteq done'
  BY NewDegreeEffect
<1>3. /\ status # "DONE" /\ calls' \in Nat /\ calls' # 0
      /\ stop_'.degree_limit \in Degrees \cup {NoLimit}
  BY <1>1, StatusRunning DEF StatusInv
<1>4. /\ this_degree \in Nat /\ complete_thru_this_degree \in Int /\ np_i = n_gb /\ n_gb \in Nat
      /\ \A p \in Made : spair[p].deg \in Int
  BY <1>1, DegreesAreIntegers DEF StatusInv
<1>5. PICK d \in Nat : d = this_degree' /\ d > 0
  BY <1>2, ConstantsAssumption DEF Degrees
<1>6. S.heap \cup done = Made /\ S.heap \cap done = {}
  BY <1>2 DEF PairsInv
<1>7. Made' = Made /\ n_gb' = n_gb
  BY <1>1 DEF Made, n_gb
<1>8. CompleteThruTruthful'
  <2>1. \A p \in Made' \ done' : spair'[p].deg > complete_thru_this_degree'
    BY <1>1, <1>2, <1>4, <1>5, <1>6, <1>7
  <2>2. \A i \in np_i' + 1 .. n_gb' : FALSE
    BY <1>1, <1>4, <1>7
  <2>3. QED
    BY <2>1, <2>2 DEF CompleteThruTruthful
<1>9. d > complete_thru_this_degree
  BY <1>2, <1>5, <1>6 DEF StatusInv, StatusTruthful, CompleteThruTruthful
<1>10. \A k \in first_in_degree' + 1 .. n_gb' : gb'[k].deg = this_degree'
  <2>1. CASE this_degree < d
    BY <1>2, <1>4, <1>5, <1>7, <2>1
  <2>2. CASE ~(this_degree < d)
    <3>1. complete_thru_this_degree = this_degree - 1
      BY <1>4, <1>5, <2>2 DEF StatusInv
    <3>2. this_degree = d
      BY <1>4, <1>9, <2>2, <3>1
    <3>3. first_in_degree' = first_in_degree
      BY <1>2, <1>5, <2>2
    <3>4. QED
      BY <1>1, <1>5, <1>7, <3>2, <3>3 DEF StatusInv
  <2>3. QED
    BY <2>1, <2>2
<1>11. /\ status' # "DONE" /\ state' # "DONE"
       /\ state' \in {"HILB", "NEWDEGREE"} => np_i' = n_gb'
  BY <1>1, <1>2, <1>3, <1>4, <1>7 DEF Return
<1>12. DegreeLimitReached'
  <2>1. SUFFICES ASSUME pc' = "idle"
                 PROVE  /\ stop_'.degree_limit # NoLimit
                        /\ complete_thru_this_degree' >= stop_'.degree_limit
    BY DEF DegreeLimitReached
  <2>2. stop_.degree_limit # NoLimit /\ d > stop_.degree_limit
    BY <1>1, <1>2, <1>5, <2>1 DEF BeyondLimit
  <2>3. stop_.degree_limit \in Int
    BY <2>2, ConstantsAssumption DEF StatusInv, Degrees
  <2>4. QED
    BY <1>1, <1>2, <1>5, <2>2, <2>3
<1>13. StatusTruthful'
  BY <1>8, <1>11, <1>12 DEF StatusTruthful, DoneMeansComplete
<1>14. QED
  BY <1>2, <1>3, <1>10, <1>11, <1>13 DEF StatusInv

LEMMA StatusSpairs ==
  ASSUME PairsInv, StatusInv, Spairs
  PROVE  StatusInv'
<1>1. /\ pc = "switch" /\ state = "SPAIRS" /\ state' = state
      /\ UNCHANGED <<degrees, np_i, calls, stop_>>
  BY DEF Spairs, In
<1>2. /\ status # "DONE" /\ calls' \in Nat /\ calls' # 0
      /\ stop_'.degree_limit \in Degrees \cup {NoLimit}
  BY <1>1, StatusRunning DEF StatusInv
<1>3. /\ this_degree \in Nat /\ complete_thru_this_degree \in Int
      /\ first_in_degree \in Nat /\ np_i \in Nat /\ n_gb \in Nat /\ np_i <= n_gb
      /\ \A p \in Made : spair[p].deg \in Int
      /\ complete_thru_this_degree = this_degree - 1
  BY <1>1, DegreesAreIntegers DEF StatusInv
<1>4. PICK p \in Candidates(S), type \in {"gen", "elem"}, elements \in Seq(ElementRecord) :
        SpairsStep(p, type, elements)
  BY SpairsEffect
<1>5. /\ Made' = Made /\ \A q \in Made : q # p => spair'[q] = spair[q]
      /\ spair'[p].deg >= spair[p].deg
      /\ n_gb' \in {n_gb, n_gb + 1}
      /\ n_gb' = n_gb + 1 => gb'[n_gb + 1].deg = this_degree
      /\ done \subseteq done'
      /\ spair' \in Seq(PairRecord)
  BY <1>4 DEF SpairsStep, PairStep
<1>6. \A i \in 1 .. n_gb : /\ gb'[i] = elements[i] /\ elements[i].deg = gb[i].deg
                           /\ elements[i] = gb[i] \/ i > first_in_degree
  <2>1. \A i \in 1 .. n_gb : gb'[i] = elements[i]
    BY <1>4 DEF SpairsStep, PairStep
  <2>2. \A i \in 1 .. n_gb : /\ elements[i].deg = gb[i].deg
                             /\ elements[i] = gb[i] \/ i > first_in_degree
    BY <1>4 DEF SpairsStep
  <2>3. TAKE i \in 1 .. n_gb
  <2>4. gb'[i] = elements[i]
    BY <2>1
  <2>5. elements[i].deg = gb[i].deg /\ (elements[i] = gb[i] \/ i > first_in_degree)
    BY <2>2
  <2>6. QED
    BY <2>4, <2>5
<1>7. UNCHANGED <<this_degree, complete_thru_this_degree, first_in_degree>>
  BY <1>1 DEF degrees
<1>8. p \in Made
  BY <1>4, PairTaken
<1>9. \A q \in Made' \ done' : spair'[q].deg > complete_thru_this_degree
  <2>1. \A q \in Made' : spair'[q].deg \in Int
    <3>1. \A q \in Made' : spair'[q] \in PairRecord
      BY <1>5 DEF Made
    <3>2. QED
      BY <3>1, ConstantsAssumption DEF PairRecord, Degrees
  <2>2. \A q \in Made \ done : spair[q].deg > complete_thru_this_degree
    BY DEF StatusInv, StatusTruthful, CompleteThruTruthful
  <2>3. TAKE q \in Made' \ done'
  <2>4. q \in Made \ done
    BY <1>5
  <2>5. CASE q = p
    BY <1>3, <1>5, <2>1, <2>2, <2>4, <2>5
  <2>6. CASE q # p
    BY <1>5, <2>2, <2>4, <2>6
  <2>7. QED
    BY <2>5, <2>6
<1>10. \A k \in first_in_degree + 1 .. n_gb : gb[k].deg = this_degree
  BY DEF StatusInv
<1>11. \A i \in np_i + 1 .. n_gb' : gb'[i].mingb => gb'[i].deg > complete_thru_this_degree
  <2>1. \A i \in np_i + 1 .. n_gb : gb[i].mingb => gb[i].deg > complete_thru_this_degree
    BY DEF StatusInv, StatusTruthful, CompleteThruTruthful
  <2>2. TAKE i \in np_i + 1 .. n_gb'
  <2>3. CASE i = n_gb + 1
    BY <1>3, <1>5, <2>3
  <2>4. CASE i \in 1 .. n_gb
    <3>1. gb'[i] = elements[i] /\ elements[i].deg = gb[i].deg
      BY <1>6, <2>4
    <3>2. CASE i > first_in_degree
      <4>1. gb[i].deg = this_degree
        BY <1>3, <1>10, <2>4, <3>2
      <4>2. gb'[i].deg = this_degree
        BY <3>1, <4>1
      <4>3. QED
        BY <1>3, <4>2
    <3>3. CASE elements[i] = gb[i]
      BY <1>3, <2>1, <2>4, <3>1, <3>3
    <3>4. QED
      BY <1>6, <2>4, <3>2, <3>3
  <2>5. QED
    BY <1>3, <1>5, <2>3, <2>4
<1>12. CompleteThruTruthful'
  BY <1>1, <1>7, <1>9, <1>11 DEF CompleteThruTruthful
<1>13. \A k \in first_in_degree' + 1 .. n_gb' : gb'[k].deg = this_degree'
  <2>1. TAKE k \in first_in_degree' + 1 .. n_gb'
  <2>2. CASE k = n_gb + 1
    BY <1>3, <1>5, <1>7, <2>2
  <2>3. CASE k \in 1 .. n_gb
    <3>1. gb'[k] = elements[k] /\ elements[k].deg = gb[k].deg
      BY <1>6, <2>3
    <3>2. gb[k].deg = this_degree
      BY <1>3, <1>7, <1>10, <2>3
    <3>3. QED
      BY <1>7, <3>1, <3>2
  <2>4. QED
    BY <1>3, <1>5, <1>7, <2>2, <2>3
<1>14. status' # "DONE" /\ (pc' = "idle" => status' # "DONE_DEGREE_LIMIT")
  BY <1>1, <1>2, CompleteCodes DEF Spairs, Return
<1>15. StatusTruthful'
  BY <1>12, <1>14 DEF StatusTruthful, DoneMeansComplete, DegreeLimitReached
<1>16. QED
  BY <1>1, <1>2, <1>3, <1>7, <1>13, <1>14, <1>15 DEF StatusInv

LEMMA StatusInductive ==
  HintGivenFirst /\ PairsInv /\ StatusInv /\ [Next]_vars => StatusInv'
<1> SUFFICES ASSUME HintGivenFirst, PairsInv, StatusInv, [Next]_vars PROVE StatusInv'
  OBVIOUS
<1>1. CASE Call
  BY <1>1, StatusCall
<1>2. CASE NewPairs
  BY <1>2, StatusNewPairs
<1>3. CASE NewDegreeDone
  BY <1>3, StatusNewDegreeDone
<1>4. CASE NewDegree
  BY <1>4, StatusNewDegree
<1>5. CASE Spairs
  BY <1>5, StatusSpairs
<1>6. CASE UNCHANGED vars
  <2>1. /\ UNCHANGED <<spair, S, gb, np_i, done, status, state, pc, calls, stop_,
                       this_degree, complete_thru_this_degree, first_in_degree>>
    BY <1>6 DEF vars, degrees, bounds
  <2>2. UNCHANGED <<Made, n_gb, InDegree(S)>>
    BY <2>1 DEF Made, n_gb, InDegree
  <2>3. StatusTruthful'
    BY <2>1, <2>2 DEF StatusInv, StatusTruthful, CompleteThruTruthful, DoneMeansComplete,
                      DegreeLimitReached
  <2>4. QED
    BY <2>1, <2>2, <2>3 DEF StatusInv
<1>7. QED
  BY <1>1, <1>2, <1>3, <1>4, <1>5, <1>6, StatusIdle DEF Next, Compute

THEOREM StatusInvariant ==
  HintGivenFirst => (Spec => []StatusInv)
<1> SUFFICES ASSUME HintGivenFirst PROVE Spec => []StatusInv
  OBVIOUS
<1>1. PairsInv /\ StatusInv /\ [Next]_vars => StatusInv'
  BY StatusInductive
<1>2. QED
  BY StatusInit, PairsInvariant, <1>1, PTL DEF Spec

\* What rawStatus and complete_thru_degree report of gbA is true through every interrupt,
\* stop and resumption, over fields and over the integers, homogeneous or not.
THEOREM StatusAlwaysTruthful ==
  HintGivenFirst => (Spec => []StatusTruthful)
<1> SUFFICES ASSUME HintGivenFirst PROVE Spec => []StatusTruthful
  OBVIOUS
<1>1. StatusInv => StatusTruthful
  BY DEF StatusInv
<1>2. Spec => []StatusInv
  BY StatusInvariant
<1>3. QED
  BY <1>1, <1>2, PTL

-----------------------------------------------------------------------------
(* The count of the generators, over a field.                               *)

LEMMA CompleteMinGens ==
  ASSUME NEW stop, NEW a, NEW b, NEW c, NEW d, NEW e,
         Complete(stop, a, b, c, d, e) = "DONE_MIN_GENS"
  PROVE  d = 0
BY DEF Complete

LEMMA GensInit ==
  Init => GensInv
<1> SUFFICES ASSUME Init PROVE GensInv
  OBVIOUS
<1>1. /\ status = "NOT_STARTED" /\ n_gens_left = NGens /\ done = {}
      /\ spair \in [1 .. NGens -> [type : {"gen"}, deg : Degrees, new : BOOLEAN, work : 0 .. MaxWork]]
  BY DEF Init
<1>2. \A p \in Made : spair[p].type = "gen" /\ p <= NGens
  BY <1>1, ConstantsAssumption DEF Made
<1>3. Cardinality(1 .. NGens) = NGens /\ (1 .. NGens) \ done = 1 .. NGens
  BY <1>1, FS_Interval, ConstantsAssumption
<1>4. QED
  BY <1>1, <1>2, <1>3, ConstantsAssumption DEF GensInv, MinGensKnown

\* A step that keeps the types, deals with more pairs and counts a generator less only for
\* one that it deals with.
LEMMA GensKept ==
  ASSUME GensInv, done \subseteq done',
         \A p \in Made' : spair'[p].type = "gen" <=> p <= NGens,
         \/ n_gens_left' = n_gens_left
         \/ (done' \ done) \cap (1 .. NGens) # {} /\ n_gens_left' = n_gens_left - 1,
         status' = "DONE_MIN_GENS" => status = "DONE_MIN_GENS" \/ n_gens_left' = 0
  PROVE  GensInv'
<1>1. PICK G : G = 1 .. NGens
  OBVIOUS
<1>2. G \in SUBSET Pairs
  BY <1>1, ConstantsAssumption DEF Pairs
<1>3. n_gens_left \in Int /\ n_gens_left >= Cardinality(G \ done)
  BY <1>1 DEF GensInv
<1>4. Cardinality(G \ done) \in Nat /\ Cardinality(G \ done') \in Nat
  BY <1>2, PairsFinite
<1>5. n_gens_left' \in Int /\ n_gens_left' >= Cardinality(G \ done')
  <2>1. CASE n_gens_left' = n_gens_left
    <3>1. G \ done' \in SUBSET (G \ done) /\ G \ done \in SUBSET Pairs
      BY <1>2
    <3>2. Cardinality(G \ done') <= Cardinality(G \ done)
      BY <3>1, CountLess
    <3>3. QED
      BY <1>3, <1>4, <2>1, <3>2
  <2>2. CASE (done' \ done) \cap G # {} /\ n_gens_left' = n_gens_left - 1
    <3>1. PICK p : p \in G /\ p \in done' /\ p \notin done
      BY <2>2
    <3>2. PICK T : T = G \ done
      OBVIOUS
    <3>3. T \in SUBSET Pairs /\ p \in T /\ G \ done' \in SUBSET (T \ {p}) /\ T \ {p} \in SUBSET Pairs
      BY <1>2, <3>1, <3>2
    <3>4. Cardinality(T \ {p}) = Cardinality(T) - 1
      BY <3>3, CountWithout
    <3>5. Cardinality(G \ done') <= Cardinality(T \ {p})
      BY <3>3, CountLess
    <3>6. Cardinality(T) \in Nat /\ n_gens_left >= Cardinality(T)
      BY <1>3, <1>4, <3>2
    <3>7. n_gens_left' >= Cardinality(T) - 1 /\ n_gens_left' \in Int
      BY <1>3, <2>2, <3>6
    <3>8. QED
      BY <1>4, <3>4, <3>5, <3>6, <3>7
  <2>3. QED
    BY <1>1, <2>1, <2>2
<1>6. MinGensKnown'
  <2>1. SUFFICES ASSUME status' = "DONE_MIN_GENS" PROVE G \subseteq done'
    BY <1>1 DEF MinGensKnown
  <2>2. CASE status = "DONE_MIN_GENS"
    BY <1>1, <2>2 DEF GensInv, MinGensKnown
  <2>3. CASE n_gens_left' = 0
    <3>1. Cardinality(G \ done') = 0 /\ G \ done' \in SUBSET Pairs
      BY <1>2, <1>4, <1>5, <2>3
    <3>2. G \ done' = {}
      BY <3>1, CountNone
    <3>3. QED
      BY <3>2
  <2>4. QED
    BY <2>1, <2>2, <2>3
<1>7. QED
  BY <1>1, <1>5, <1>6 DEF GensInv

LEMMA GensInductive ==
  ~OverZZ /\ PairsInv /\ GensInv /\ [Next]_vars => GensInv'
<1> SUFFICES ASSUME ~OverZZ, PairsInv, GensInv, [Next]_vars PROVE GensInv'
  OBVIOUS
<1>1. \A p \in Made : spair[p].type = "gen" <=> p <= NGens
  BY DEF GensInv
<1>2. Made = 1 .. Len(spair) /\ Len(spair) >= NGens /\ Len(spair) \in Nat
  BY PairsInvParts, ConstantsAssumption DEF PairsInv, TypeOK
<1>3. CASE Call
  <2>1. UNCHANGED <<spair, done, n_gens_left>>
    BY <1>3 DEF Call, counts
  <2>2. status' = "DONE_MIN_GENS" => status = "DONE_MIN_GENS" \/ n_gens_left' = 0
    BY <1>3, <2>1, CompleteMinGens DEF Call, Return
  <2>3. QED
    BY <1>1, <2>1, <2>2, GensKept DEF Made
<1>4. CASE \/ Interrupt \/ LoopHead \/ NewPairsEnd \/ Hilb \/ NewDegreeResumed \/ NewDegreeDone
           \/ SpairsEnd \/ AutoReduce \/ AutoReduceEnd \/ UNCHANGED vars
  <2>1. UNCHANGED <<spair, done, n_gens_left>>
    BY <1>4 DEF Interrupt, LoopHead, NewPairsEnd, Hilb, NewDegreeResumed, NewDegreeDone, SpairsEnd,
                AutoReduce, AutoReduceEnd, vars, counts
  <2>2. status' = "DONE_MIN_GENS" => status = "DONE_MIN_GENS"
    BY <1>4 DEF Interrupt, LoopHead, NewPairsEnd, Hilb, NewDegreeResumed, NewDegreeDone, SpairsEnd,
                AutoReduce, AutoReduceEnd, vars, Return
  <2>3. QED
    BY <1>1, <2>1, <2>2, GensKept DEF Made
<1>5. CASE NewPairs
  <2>1. UNCHANGED <<n_gens_left, flushed>>
    BY <1>5 DEF NewPairs, counts
  <2>2. status' = "DONE_MIN_GENS" => status = "DONE_MIN_GENS"
    BY <1>5 DEF NewPairs, Return
  <2>3. CASE UNCHANGED <<spair, done>>
    BY <1>1, <2>1, <2>2, <2>3, GensKept DEF Made
  <2>4. CASE UpdatePairs(gb[np_i + 1])
    <3>1. gb[np_i + 1] \in ElementRecord
      BY <1>5, PairsInvParts DEF NewPairs, PairsInv, TypeOK, n_gb
    <3>2. /\ Made \subseteq Made' /\ \A q \in Made : spair'[q] = spair[q]
          /\ \A q \in Made' \ Made : spair'[q].type = "spair"
          /\ done \subseteq done' /\ spair' \in Seq(PairRecord)
      BY <2>1, <2>4, <3>1, UpdatePairsEffect
    <3>3. \A q \in Made' \ Made : ~(q <= NGens)
      <4>1. Made' = 1 .. Len(spair')
        BY <3>2 DEF Made
      <4>2. QED
        BY <1>2, <3>2, <4>1, ConstantsAssumption
    <3>4. \A p \in Made' : spair'[p].type = "gen" <=> p <= NGens
      BY <1>1, <3>2, <3>3
    <3>5. QED
      BY <2>1, <2>2, <3>2, <3>4, GensKept
  <2>5. QED
    BY <1>5, <2>3, <2>4 DEF NewPairs
<1>6. CASE NewDegree
  <2>1. UNCHANGED <<spair, n_gens_left>> /\ done \subseteq done'
    BY <1>6, NewDegreeEffect DEF NewDegree
  <2>2. status' = "DONE_MIN_GENS" => status = "DONE_MIN_GENS"
    BY <1>6, NewDegreeEffect DEF Return
  <2>3. QED
    BY <1>1, <2>1, <2>2, GensKept DEF Made
<1>7. CASE Spairs
  <2>1. PICK p \in Candidates(S), type \in {"gen", "elem"}, elements \in Seq(ElementRecord) :
          SpairsStep(p, type, elements)
    BY <1>7, SpairsEffect
  <2>2. /\ Made' = Made /\ \A q \in Made : q # p => spair'[q] = spair[q]
        /\ spair'[p].type \in {spair[p].type, type} /\ done \subseteq done'
        /\ \/ n_gens_left' = n_gens_left
           \/ p \in done' \ done /\ type = "gen" /\ n_gens_left' = n_gens_left - 1
        /\ type = ComputedType(p)
    BY <2>1 DEF SpairsStep, PairStep
  <2>3. p \in Made
    BY <2>1, PairTaken
  <2>4. /\ spair'[p].type = "gen" <=> spair[p].type = "gen"
        /\ type = "gen" <=> p <= NGens
    BY <1>1, <2>2, <2>3 DEF ComputedType
  <2>5. \A q \in Made' : spair'[q].type = "gen" <=> q <= NGens
    BY <1>1, <2>2, <2>3, <2>4
  <2>6. \/ n_gens_left' = n_gens_left
        \/ (done' \ done) \cap (1 .. NGens) # {} /\ n_gens_left' = n_gens_left - 1
    <3>1. p <= NGens => p \in 1 .. NGens
      BY <1>2, <2>3, ConstantsAssumption
    <3>2. QED
      BY <2>2, <2>4, <3>1
  <2>7. status' = "DONE_MIN_GENS" => status = "DONE_MIN_GENS" \/ n_gens_left' = 0
    BY <1>7, CompleteMinGens DEF Spairs, Return
  <2>8. QED
    BY <2>2, <2>5, <2>6, <2>7, GensKept
<1>8. QED
  BY <1>3, <1>4, <1>5, <1>6, <1>7 DEF Next, Compute

\* A computation over a field that stops with DONE_MIN_GENS has dealt with every generator
\* (n_gens_left of gb-default.cpp), whenever hints, stops and interrupts come.
THEOREM MinGensAlwaysKnown ==
  ~OverZZ => (Spec => []MinGensKnown)
<1> SUFFICES ASSUME ~OverZZ PROVE Spec => []MinGensKnown
  OBVIOUS
<1>1. PairsInv /\ GensInv /\ [Next]_vars => GensInv'
  BY GensInductive
<1>2. GensInv => MinGensKnown
  BY DEF GensInv
<1>3. QED
  BY GensInit, PairsInvariant, <1>1, <1>2, PTL DEF Spec

-----------------------------------------------------------------------------
(* The Hilbert function, when no pair is deferred to a later degree.         *)

LEMMA HilbertCountNat ==
  ASSUME NEW s, SPairSetOK(s)
  PROVE  HilbertCount(s) \in Nat
<1>1. {p \in InDegree(s) : spair[p].new} \in SUBSET Pairs
  BY DEF SPairSetOK, SPairSet, InDegree
<1>2. QED
  BY <1>1, PairsFinite DEF HilbertCount

LEMMA HilbertInit ==
  MaxGaps = 0 /\ Init => HilbertInv
BY DEF Init, HilbertInv, NothingNewFlushed

\* Steps that leave the pairs of the degree, or replace one by one that is as new.
LEMMA HilbertUntouched ==
  ASSUME PairsInv, HilbertInv, UNCHANGED <<gaps, flushed, hilb_n_in_degree>>, use_hilb' \/ use_hilb' = use_hilb,
         \A p \in Made : spair'[p].new = spair[p].new,
         {p \in InDegree(S') : spair'[p].new} = {p \in InDegree(S) : spair[p].new}
  PROVE  HilbertInv'
<1>1. HilbertCount(S)' = HilbertCount(S)
  BY DEF HilbertCount, InDegree
<1>2. NothingNewFlushed'
  <2>1. flushed \subseteq Made
    BY DEF PairsInv, TypeOK
  <2>2. QED
    BY <2>1 DEF NothingNewFlushed, HilbertInv
<1>3. QED
  BY <1>1, <1>2 DEF HilbertInv

LEMMA HilbertNewDegree ==
  ASSUME PairsInv, HilbertInv, NewDegree
  PROVE  HilbertInv'
<1>1. PICK d \in Degrees :
        LET s == Prepared(S, d)
            n == HilbertCount(s)
        IN  \/ /\ S' = s /\ UNCHANGED <<hilb_n_in_degree, flushed>>
            \/ /\ hilb_n_in_degree' = IF use_hilb THEN n ELSE hilb_n_in_degree
               /\ IF use_hilb /\ NoneExpected(n)
                    THEN S' = Flushed(s) /\ flushed' = flushed \cup InDegree(s)
                    ELSE S' = s /\ UNCHANGED flushed
  BY DEF NewDegree
<1>2. /\ InDegree(S) = {}
      /\ \/ flushed' = flushed
         \/ \E ps \in SUBSET S.heap : flushed' = flushed \cup ps /\ \A p \in ps : ~spair[p].new
  BY NewDegreeEffect
<1>3. UNCHANGED <<spair, use_hilb, gaps>>
  BY DEF NewDegree, bounds
<1>4. NothingNewFlushed'
  BY <1>2, <1>3 DEF NothingNewFlushed, HilbertInv
<1>5. HilbertCount(S) = 0
  <2>1. {p \in InDegree(S) : spair[p].new} = {}
    BY <1>2
  <2>2. QED
    BY <2>1, FS_EmptySet DEF HilbertCount
<1>6. PICK s : s = Prepared(S, d)
  OBVIOUS
<1>7. SPairSetOK(s)
  BY <1>2, <1>6, PreparedMoves DEF PairsInv
<1>8. HilbertCount(s) \in Nat
  BY <1>7, HilbertCountNat
<1>9. S' = s => HilbertCount(S)' = HilbertCount(s)
  BY <1>3 DEF HilbertCount, InDegree
<1>10. /\ hilb_n_in_degree' \in Int
       /\ IF use_hilb THEN hilb_n_in_degree' <= 0 \/ hilb_n_in_degree' = HilbertCount(S)'
                      ELSE hilb_n_in_degree' = 0
  <2>1. CASE S' = s /\ hilb_n_in_degree' = hilb_n_in_degree
    BY <1>5, <2>1 DEF HilbertInv
  <2>2. CASE /\ hilb_n_in_degree' = IF use_hilb THEN HilbertCount(s) ELSE hilb_n_in_degree
             /\ S' = s
    BY <1>8, <1>9, <2>2 DEF HilbertInv
  <2>3. CASE use_hilb /\ hilb_n_in_degree' = HilbertCount(s) /\ HilbertCount(s) = 0
    BY <2>3
  <2>4. QED
    BY <1>1, <1>6, <2>1, <2>2, <2>3 DEF NoneExpected
<1>11. QED
  BY <1>3, <1>4, <1>10 DEF HilbertInv

LEMMA HilbertSpairs ==
  ASSUME PairsInv, HilbertInv, Spairs
  PROVE  HilbertInv'
<1>1. PICK p \in Candidates(S), type \in {"gen", "elem"}, elements \in Seq(ElementRecord) :
        SpairsStep(p, type, elements)
  BY SpairsEffect
<1>2. PICK s : s = Without(S, p)
  OBVIOUS
<1>3. /\ SPairSetOK(s) /\ SPairSetOK(S) /\ s.heap = S.heap /\ p \in InDegree(S)
      /\ InDegree(s) = InDegree(S) \ {p} /\ p \in Pairs /\ p \notin S.heap
  BY <1>1, <1>2, PairTaken DEF PairsInv
<1>4. /\ gaps = 0 /\ hilb_n_in_degree \in Int
      /\ IF use_hilb THEN hilb_n_in_degree <= 0 \/ hilb_n_in_degree = HilbertCount(S)
                     ELSE hilb_n_in_degree = 0
  BY DEF HilbertInv
<1>5. /\ ProcessSpair(p, s, type, elements)
      /\ \A q \in Made : spair'[q].new = spair[q].new
  <2>1. ProcessSpair(p, s, type, elements) /\ PairStep(p, type, elements)
    BY <1>1, <1>2 DEF SpairsStep
  <2>2. \A q \in Made : q # p => spair'[q] = spair[q]
    BY <2>1 DEF PairStep
  <2>3. spair'[p].new = spair[p].new
    BY <2>1 DEF PairStep
  <2>4. QED
    BY <2>1, <2>2, <2>3
<1>6. InDegree(S) \subseteq Made
  BY DEF PairsInv, TypeOK
<1>7. CASE DeferPair(p, s, type, elements)
  <2>1. UNCHANGED <<gaps, flushed, hilb_n_in_degree, use_hilb>> /\ S' = Defer(s, p, type)
    BY <1>7 DEF DeferPair, NoInsertGb, hilbert
  <2>2. InDegree(S') = InDegree(S)
    <3>1. p \notin s.heap /\ p \notin InDegree(s)
      BY <1>3
    <3>2. InDegree(S') = InDegree(s) \cup {p}
      BY <1>3, <2>1, <3>1, DeferAdds
    <3>3. QED
      BY <1>3, <3>2
  <2>3. {q \in InDegree(S') : spair'[q].new} = {q \in InDegree(S) : spair[q].new}
    BY <1>5, <1>6, <2>2
  <2>4. QED
    BY <1>5, <2>1, <2>3, HilbertUntouched
<1>8. CASE RaisePair(p, s, type, elements)
  BY <1>4, <1>8 DEF RaisePair
<1>9. CASE ZeroRemainder(p, s, type, elements)
  <2>1. /\ ~spair[p].new /\ spair' = spair /\ S' = s
        /\ UNCHANGED <<gaps, flushed, hilb_n_in_degree, use_hilb>>
    BY <1>4, <1>9 DEF ZeroRemainder, NoInsertGb, hilbert
  <2>2. {q \in InDegree(S') : spair'[q].new} = {q \in InDegree(S) : spair[q].new}
    BY <1>3, <2>1
  <2>3. QED
    BY <1>5, <2>1, <2>2, HilbertUntouched
<1>10. CASE NewElement(p, s, type, elements)
  <2>1. /\ spair[p].new /\ spair' = spair /\ gaps' = gaps /\ InsertGb(s)
    BY <1>10 DEF NewElement
  <2>2. HilbertCount(s) = HilbertCount(S) - 1
    <3>1. PICK T \in SUBSET Pairs : T = {q \in InDegree(S) : spair[q].new}
      <4>1. {q \in InDegree(S) : spair[q].new} \in SUBSET Pairs
        BY <1>3 DEF SPairSetOK, SPairSet, InDegree
      <4>2. QED
        BY <4>1
    <3>2. {q \in InDegree(s) : spair[q].new} = T \ {p} /\ p \in T
      BY <1>3, <2>1, <3>1
    <3>3. Cardinality(T \ {p}) = Cardinality(T) - 1
      BY <3>2, CountWithout
    <3>4. QED
      BY <3>1, <3>2, <3>3 DEF HilbertCount
  <2>3. HilbertCount(s) \in Nat /\ HilbertCount(S) \in Nat
    BY <1>3, HilbertCountNat
  <2>4. CASE ~use_hilb
    <3>1. UNCHANGED <<use_hilb, hilb_n_in_degree, flushed>>
      BY <2>1, <2>4 DEF InsertGb
    <3>2. QED
      BY <1>4, <2>1, <2>4, <3>1 DEF HilbertInv, NothingNewFlushed
  <2>5. CASE use_hilb /\ hilb_n_in_degree - 1 = 0
    <3>1. /\ hilb_n_in_degree' = hilb_n_in_degree - 1 /\ use_hilb'
          /\ flushed' = flushed \cup InDegree(s)
      BY <2>1, <2>5 DEF InsertGb, NoneExpected
    <3>2. HilbertCount(s) = 0
      BY <1>4, <2>2, <2>3, <2>5
    <3>3. \A q \in InDegree(s) : ~spair[q].new
      <4>1. {q \in InDegree(s) : spair[q].new} \in SUBSET Pairs
        BY <1>3 DEF SPairSetOK, SPairSet, InDegree
      <4>2. {q \in InDegree(s) : spair[q].new} = {}
        BY <3>2, <4>1, CountNone DEF HilbertCount
      <4>3. QED
        BY <4>2
    <3>4. NothingNewFlushed'
      BY <2>1, <3>1, <3>3 DEF HilbertInv, NothingNewFlushed
    <3>5. QED
      BY <1>4, <2>1, <2>5, <3>1, <3>4 DEF HilbertInv
  <2>6. CASE use_hilb /\ hilb_n_in_degree - 1 # 0
    <3>1. /\ hilb_n_in_degree' = hilb_n_in_degree - 1 /\ use_hilb'
          /\ flushed' = flushed /\ S' = s
      BY <2>1, <2>6 DEF InsertGb, NoneExpected
    <3>2. HilbertCount(S)' = HilbertCount(s)
      BY <2>1, <3>1 DEF HilbertCount, InDegree
    <3>3. NothingNewFlushed'
      BY <2>1, <3>1 DEF HilbertInv, NothingNewFlushed
    <3>4. hilb_n_in_degree' <= 0 \/ hilb_n_in_degree' = HilbertCount(S)'
      BY <1>4, <2>2, <2>3, <2>6, <3>1, <3>2
    <3>5. QED
      BY <1>4, <2>1, <3>1, <3>3, <3>4 DEF HilbertInv
  <2>7. QED
    BY <2>4, <2>5, <2>6
<1>11. QED
  BY <1>5, <1>7, <1>8, <1>9, <1>10 DEF ProcessSpair

LEMMA HilbertInductive ==
  PairsInv /\ HilbertInv /\ [Next]_vars => HilbertInv'
<1> SUFFICES ASSUME PairsInv, HilbertInv, [Next]_vars PROVE HilbertInv'
  OBVIOUS
<1>1. CASE \/ Call \/ Interrupt \/ LoopHead \/ NewPairsEnd \/ Hilb \/ NewDegreeResumed
           \/ SpairsEnd \/ AutoReduce \/ AutoReduceEnd \/ UNCHANGED vars
  <2>1. /\ UNCHANGED <<spair, S, gaps, flushed, hilb_n_in_degree>>
        /\ use_hilb' \/ use_hilb' = use_hilb
    BY <1>1 DEF Call, Interrupt, LoopHead, NewPairsEnd, Hilb, NewDegreeResumed, SpairsEnd,
                AutoReduce, AutoReduceEnd, vars, hilbert, bounds
  <2>2. {p \in InDegree(S') : spair'[p].new} = {p \in InDegree(S) : spair[p].new}
    BY <2>1
  <2>3. QED
    BY <2>1, <2>2, HilbertUntouched
<1>2. CASE NewDegreeDone
  <2>1. /\ UNCHANGED <<spair, gaps, flushed, hilb_n_in_degree, use_hilb>> /\ S.n_in_degree = 0
    BY <1>2 DEF NewDegreeDone, hilbert, bounds
  <2>2. InDegree(S') \subseteq InDegree(S)
    <3>1. S \in SPairSet
      BY DEF PairsInv, SPairSetOK
    <3>2. S' = [S EXCEPT !.spair_list = {}, !.spair_deferred_list = {}, !.gen_list = {},
                         !.gen_deferred_list = {}]
      BY <1>2 DEF NewDegreeDone
    <3>3. QED
      BY <3>1, <3>2 DEF SPairSet, InDegree
  <2>3. InDegree(S) = {}
    <3>1. InDegree(S) \in SUBSET Pairs /\ Cardinality(InDegree(S)) = 0
      BY <2>1 DEF PairsInv, SPairSetOK, SPairSet, InDegree
    <3>2. QED
      BY <3>1, CountNone
  <2>4. {p \in InDegree(S') : spair'[p].new} = {p \in InDegree(S) : spair[p].new}
    BY <2>2, <2>3
  <2>5. QED
    BY <2>1, <2>4, HilbertUntouched
<1>3. CASE NewPairs
  <2>1. UNCHANGED <<gaps, flushed, hilb_n_in_degree, use_hilb>>
    BY <1>3 DEF NewPairs, hilbert, bounds
  <2>2. InDegree(S') = InDegree(S) /\ \A q \in Made : spair'[q] = spair[q]
    <3>1. CASE UNCHANGED <<spair, S>>
      BY <3>1
    <3>2. CASE UpdatePairs(gb[np_i + 1])
      <4>1. gb[np_i + 1] \in ElementRecord
        BY <1>3, PairsInvParts DEF NewPairs, PairsInv, TypeOK, n_gb
      <4>2. InDegree(S)' = InDegree(S) /\ \A q \in Made : spair'[q] = spair[q]
        BY <2>1, <3>2, <4>1, UpdatePairsEffect
      <4>3. QED
        BY <4>2 DEF InDegree
    <3>3. QED
      BY <1>3, <3>1, <3>2 DEF NewPairs
  <2>3. InDegree(S) \subseteq Made
    BY DEF PairsInv, TypeOK
  <2>4. {p \in InDegree(S') : spair'[p].new} = {p \in InDegree(S) : spair[p].new}
    BY <2>2, <2>3
  <2>5. QED
    BY <2>1, <2>2, <2>4, HilbertUntouched
<1>4. CASE NewDegree
  BY <1>4, HilbertNewDegree
<1>5. CASE Spairs
  BY <1>5, HilbertSpairs
<1>6. QED
  BY <1>1, <1>2, <1>3, <1>4, <1>5 DEF Next, Compute

\* flush_pairs deletes no pair that gives a new element, and a computation that is done
\* has paired every element, when the Hilbert function is that of the ideal, is given with
\* the first call, and the ideal is homogeneous.
THEOREM FlushAlwaysSound ==
  HintGivenFirst /\ MaxGaps = 0 => (Spec => []FlushSound)
<1> SUFFICES ASSUME HintGivenFirst, MaxGaps = 0 PROVE Spec => []FlushSound
  OBVIOUS
<1>1. Init => HilbertInv
  BY HilbertInit
<1>2. Spec => []HilbertInv
  BY <1>1, HilbertInductive, PairsInvariant, PTL DEF Spec
<1>3. StatusInv /\ HilbertInv => FlushSound
  BY DEF StatusInv, StatusTruthful, HilbertInv, FlushSound
<1>4. Spec => []StatusInv
  BY StatusInvariant
<1>5. QED
  BY <1>2, <1>3, <1>4, PTL
=============================================================================
