--------------------------- MODULE HashTablesProofs ---------------------------
(***************************************************************************)
(* Proofs about HashTables.                                                *)
(***************************************************************************)
EXTENDS HashTables, FiniteSetTheorems, FunctionTheorems, SequenceTheorems, WellFoundedInduction, TLAPS

-----------------------------------------------------------------------------
(* Lengths.                                                                 *)

\* A length is even,
LEMMA LengthEven ==
  ASSUME NEW len \in Nat, IsLength(len)
  PROVE  len % 2 = 0
<1>1. len \in 3 .. len /\ 1 \in 1 .. len /\ len * 1 = len
  BY DEF IsLength, MinLength
<1>2. QED
  BY <1>1 DEF IsLength

\* and so is twice a length a length,
LEMMA LengthDoubled ==
  ASSUME NEW len \in Nat, IsLength(len)
  PROVE  IsLength(2 * len)
<1>1. 2 * len \in Nat /\ 2 * len >= MinLength
  BY DEF IsLength, MinLength
<1>2. SUFFICES ASSUME NEW d \in 3 .. 2 * len, NEW q \in 1 .. 2 * len, d * q = 2 * len, d % 2 # 0
               PROVE  FALSE
  BY <1>1 DEF IsLength
<1>3. PICK e \in Nat : d = 2 * e + 1
  <2>1. d \in Nat /\ d = 2 * (d \div 2) + 1 /\ d \div 2 \in Nat
    BY <1>2
  <2>2. QED
    BY <2>1
<1>4. /\ d \in Nat /\ q \in Nat /\ e * q \in Int
      /\ d * q = 2 * (e * q) + q
  BY <1>2, <1>3
<1>5. PICK p \in Int : q = 2 * p /\ p = len - e * q
  BY <1>2, <1>4
<1>6. /\ d * p \in Int /\ d * q = 2 * (d * p)
  BY <1>4, <1>5
<1>7. d * p = len
  BY <1>2, <1>6
<1>8. p \in 1 .. len /\ d <= len
  <2>1. p >= 1
    BY <1>5, <1>2
  <2>2. d * p >= d /\ d * p >= p
    BY <1>4, <1>2, <2>1
  <2>3. QED
    BY <1>2, <1>4, <1>7, <2>1, <2>2
<1>9. QED
  BY <1>2, <1>7, <1>8 DEF IsLength

\* and half of it, if it is not the first one.
LEMMA LengthHalved ==
  ASSUME NEW len \in Nat, IsLength(len), len > MinLength
  PROVE  len \div 2 \in Nat /\ 2 * (len \div 2) = len /\ IsLength(len \div 2)
<1> DEFINE m == len \div 2
<1>1. m \in Nat /\ 2 * m = len /\ m >= 3
  BY LengthEven DEF MinLength
<1> HIDE DEF m
<1>2. m # 3
  <2>1. SUFFICES ASSUME m = 3 PROVE FALSE
    OBVIOUS
  <2>2. len = 6
    BY <1>1, <2>1
  <2>3. 3 \in 3 .. len /\ 2 \in 1 .. len /\ 3 * 2 = len /\ 3 % 2 = 1
    BY <2>2
  <2>4. QED
    BY <2>3 DEF IsLength
<1>3. ASSUME NEW d \in 3 .. m, NEW q \in 1 .. m, d * q = m PROVE d % 2 = 0
  <2>1. d \in 3 .. len /\ 2 * q \in 1 .. len
    BY <1>1
  <2>2. d * (2 * q) = len
    <3>1. d * q \in Int /\ d * (2 * q) = 2 * (d * q)
      BY <1>1
    <3>2. QED
      BY <1>1, <1>3, <3>1
  <2>3. QED
    BY <2>1, <2>2 DEF IsLength
<1>4. IsLength(m)
  BY <1>1, <1>2, <1>3 DEF IsLength, MinLength
<1>5. QED
  BY <1>1, <1>4 DEF m

\* So a length is a multiple of four, and of eight if it is not the first one.
LEMMA LengthFactors ==
  ASSUME NEW len \in Nat, IsLength(len)
  PROVE  /\ \E m \in Nat : len = 4 * m
         /\ len > MinLength => \E m \in Nat : len = 8 * m
<1>1. ASSUME NEW n \in Nat, IsLength(n) PROVE \E m \in Nat : n = 4 * m
  <2>1. CASE n = MinLength
    BY <2>1 DEF MinLength
  <2>2. CASE n > MinLength
    <3>1. n \div 2 \in Nat /\ 2 * (n \div 2) = n /\ (n \div 2) % 2 = 0
      BY <1>1, <2>2, LengthHalved, LengthEven
    <3>2. PICK h \in Nat : n = 2 * h /\ h % 2 = 0
      BY <3>1
    <3>3. h = 2 * (h \div 2) /\ h \div 2 \in Nat
      BY <3>2
    <3>4. QED
      BY <3>2, <3>3
  <2>3. QED
    BY <1>1, <2>1, <2>2 DEF IsLength, MinLength
<1>2. ASSUME len > MinLength PROVE \E m \in Nat : len = 8 * m
  <2>1. len \div 2 \in Nat /\ 2 * (len \div 2) = len /\ IsLength(len \div 2)
    BY <1>2, LengthHalved
  <2>2. PICK m \in Nat : len \div 2 = 4 * m
    BY <1>1, <2>1
  <2>3. QED
    BY <2>1, <2>2
<1>3. QED
  BY <1>1, <1>2

-----------------------------------------------------------------------------
(* Tables.                                                                  *)

\* What the invariant says of a table with so many buckets.
GoodBucket(b, h, len) ==
  b \in Seq(Entries) /\ Distinct(b) /\ \A k \in KeysIn(b) : Index(k, len) = h

GoodTable(t, len) ==
  /\ len \in Nat /\ IsLength(len)
  /\ DOMAIN t = 0 .. len - 1 /\ t = [h \in 0 .. len - 1 |-> t[h]]
  /\ \A h \in 0 .. len - 1 : GoodBucket(t[h], h, len)

\* What a bucket holds under a key.
Found(b, k) == IF k \in KeysIn(b) THEN b[Place(b, k)].value ELSE NotFound

PresentKeys(t) == UNION {KeysIn(t[h]) : h \in DOMAIN t}

\* The bucket of a key is one of the table's.
LEMMA IndexRange ==
  ASSUME NEW k \in Keys, NEW len \in Nat, len > 0
  PROVE  Index(k, len) \in 0 .. len - 1
<1>1. HashOf[k] \in Nat
  BY HashAssumption
<1>2. QED
  BY <1>1 DEF Index

\* The number of buckets of a table.
LEMMA TableLength ==
  ASSUME NEW t, NEW len \in Nat, IsLength(len), DOMAIN t = 0 .. len - 1
  PROVE  Cardinality(DOMAIN t) = len /\ len \in Nat /\ len >= 4
<1>1. len >= 4
  BY DEF IsLength, MinLength
<1>2. Cardinality(0 .. len - 1) = IF 0 > len - 1 THEN 0 ELSE (len - 1) - 0 + 1
  BY FS_Interval
<1>3. QED
  BY <1>1, <1>2

\* A bucket holds, under the key of one of its entries, the value of that entry,
LEMMA FoundIs ==
  ASSUME NEW b, Distinct(b), NEW n \in DOMAIN b
  PROVE  b[n].key \in KeysIn(b) /\ Place(b, b[n].key) = n /\ Found(b, b[n].key) = b[n].value
<1> DEFINE k == b[n].key
<1>1. k \in KeysIn(b)
  BY DEF KeysIn
<1>2. Place(b, k) \in DOMAIN b /\ b[Place(b, k)].key = k
  BY DEF Place
<1>3. Place(b, k) = n
  BY <1>2 DEF Distinct
<1>4. QED
  BY <1>1, <1>3 DEF Found

\* and every key of it is that of an entry.
LEMMA PlaceIs ==
  ASSUME NEW b, NEW k \in KeysIn(b)
  PROVE  Place(b, k) \in DOMAIN b /\ b[Place(b, k)].key = k
<1>1. PICK n \in DOMAIN b : b[n].key = k
  BY DEF KeysIn
<1>2. QED
  BY <1>1 DEF Place

\* Two buckets with the same entries but for those of one key hold the same under the others.
LEMMA SameFound ==
  ASSUME NEW b, NEW c, Distinct(b), Distinct(c), NEW k,
         \A n \in DOMAIN b : b[n].key # k => \E m \in DOMAIN c : c[m] = b[n],
         \A m \in DOMAIN c : c[m].key # k => \E n \in DOMAIN b : b[n] = c[m],
         NEW j, j # k
  PROVE  (j \in KeysIn(c) <=> j \in KeysIn(b)) /\ Found(c, j) = Found(b, j)
<1>1. j \in KeysIn(c) <=> j \in KeysIn(b)
  BY DEF KeysIn
<1>2. CASE j \in KeysIn(b)
  <2>1. PICK n \in DOMAIN b : b[n].key = j
    BY <1>2 DEF KeysIn
  <2>2. PICK m \in DOMAIN c : c[m] = b[n]
    BY <2>1
  <2>3. Found(b, j) = b[n].value
    BY <2>1, FoundIs
  <2>4. Found(c, j) = c[m].value
    BY <2>1, <2>2, FoundIs
  <2>5. QED
    BY <1>1, <2>2, <2>3, <2>4
<1>3. CASE j \notin KeysIn(b)
  BY <1>1, <1>3 DEF Found
<1>4. QED
  BY <1>1, <1>2, <1>3

\* What a table holds is what the bucket of the key holds.
LEMMA ContentIs ==
  ASSUME NEW t, NEW len \in Nat, GoodTable(t, len), NEW k \in Keys
  PROVE  /\ Index(k, len) \in 0 .. len - 1
         /\ Content(t, k) = Found(t[Index(k, len)], k)
<1>1. Cardinality(DOMAIN t) = len /\ len >= 4
  BY TableLength DEF GoodTable
<1>2. Content(t, k) = Found(t[Index(k, len)], k)
  BY <1>1 DEF Content, Found
<1>3. QED
  BY <1>1, <1>2, IndexRange

\* It is a value of the key, and tells whether the key is present.
LEMMA ContentType ==
  ASSUME NEW t, NEW len \in Nat, GoodTable(t, len), NEW k \in Keys
  PROVE  /\ k \in PresentKeys(t) <=> k \in KeysIn(t[Index(k, len)])
         /\ k \in PresentKeys(t) => Content(t, k) \in Values[k] /\ Content(t, k) # NotFound
         /\ k \notin PresentKeys(t) => Content(t, k) = NotFound
         /\ Content(t, k) \in AllValues \cup {NotFound}
<1> DEFINE h == Index(k, len)
<1>1. h \in 0 .. len - 1 /\ Content(t, k) = Found(t[h], k)
  BY ContentIs
<1>2. k \in PresentKeys(t) <=> k \in KeysIn(t[h])
  <2>1. DOMAIN t = 0 .. len - 1
    BY DEF GoodTable
  <2>2. ASSUME NEW g \in 0 .. len - 1, k \in KeysIn(t[g]) PROVE g = h
    BY <2>2 DEF GoodTable, GoodBucket
  <2>3. QED
    BY <1>1, <2>1, <2>2 DEF PresentKeys
<1>3. ASSUME k \in KeysIn(t[h]) PROVE Content(t, k) \in Values[k]
  <2>1. PICK n \in DOMAIN t[h] : n = Place(t[h], k) /\ t[h][n].key = k
    BY <1>3, PlaceIs
  <2>2. t[h] \in Seq(Entries)
    BY <1>1 DEF GoodTable, GoodBucket
  <2>3. t[h][n] \in Entries
    BY <2>1, <2>2, ElementOfSeq, LenProperties
  <2>4. t[h][n].value \in Values[k]
    BY <2>1, <2>3 DEF Entries
  <2>5. QED
    BY <1>1, <1>3, <2>1, <2>4 DEF Found
<1>4. k \notin KeysIn(t[h]) => Content(t, k) = NotFound
  BY <1>1 DEF Found
<1>5. NotFound \notin Values[k] /\ Values[k] \subseteq AllValues
  BY HashAssumption DEF AllValues
<1>6. QED
  BY <1>2, <1>3, <1>4, <1>5

\* The keys that are present are finitely many.
LEMMA PresentFinite ==
  ASSUME NEW t, NEW len \in Nat, GoodTable(t, len)
  PROVE  /\ PresentKeys(t) \subseteq Keys
         /\ IsFiniteSet(PresentKeys(t)) /\ Cardinality(PresentKeys(t)) \in Nat
         /\ Cardinality(PresentKeys(t)) <= Cardinality(Keys)
<1>1. ASSUME NEW k \in PresentKeys(t) PROVE k \in Keys
  <2>1. PICK h \in 0 .. len - 1 : k \in KeysIn(t[h])
    BY DEF PresentKeys, GoodTable
  <2>2. PICK n \in DOMAIN t[h] : t[h][n].key = k
    BY <2>1 DEF KeysIn
  <2>3. t[h][n] \in Entries
    BY <2>1, <2>2, ElementOfSeq, LenProperties DEF GoodTable, GoodBucket
  <2>4. QED
    BY <2>2, <2>3 DEF Entries
<1>2. PresentKeys(t) \in SUBSET Keys /\ IsFiniteSet(Keys)
  BY <1>1, HashAssumption
<1>3. QED
  BY <1>2, FS_Subset, FS_CardinalityType

-----------------------------------------------------------------------------
(* A write to one bucket.                                                   *)

\* The table stays good, and the other buckets hold what they held.
LEMMA OneBucket ==
  ASSUME NEW t, NEW len \in Nat, GoodTable(t, len), NEW h \in 0 .. len - 1,
         NEW c, GoodBucket(c, h, len)
  PROVE  LET u == [t EXCEPT ![h] = c]
         IN  /\ GoodTable(u, len)
             /\ u[h] = c /\ \A g \in 0 .. len - 1 : g # h => u[g] = t[g]
<1> DEFINE u == [t EXCEPT ![h] = c]
<1>1. DOMAIN t = 0 .. len - 1 /\ t = [g \in 0 .. len - 1 |-> t[g]]
  BY DEF GoodTable
<1>2. DOMAIN u = 0 .. len - 1 /\ u = [g \in 0 .. len - 1 |-> u[g]]
  BY <1>1
<1>3. u[h] = c /\ \A g \in 0 .. len - 1 : g # h => u[g] = t[g]
  BY <1>1
<1>4. ASSUME NEW g \in 0 .. len - 1 PROVE GoodBucket(u[g], g, len)
  BY <1>3 DEF GoodTable
<1>5. QED
  BY <1>2, <1>3, <1>4 DEF GoodTable

\* If the bucket of a key changes for that key alone, the table changes for it alone.
LEMMA OneKey ==
  ASSUME NEW t, NEW len \in Nat, GoodTable(t, len), NEW k \in Keys,
         NEW c, GoodBucket(c, Index(k, len), len),
         \A n \in DOMAIN t[Index(k, len)] : t[Index(k, len)][n].key # k => \E m \in DOMAIN c : c[m] = t[Index(k, len)][n],
         \A m \in DOMAIN c : c[m].key # k => \E n \in DOMAIN t[Index(k, len)] : t[Index(k, len)][n] = c[m]
  PROVE  LET u == [t EXCEPT ![Index(k, len)] = c]
         IN  /\ GoodTable(u, len)
             /\ Content(u, k) = Found(c, k)
             /\ \A j \in Keys : j # k => Content(u, j) = Content(t, j)
             /\ \A j \in Keys : j # k => (j \in PresentKeys(u) <=> j \in PresentKeys(t))
             /\ k \in PresentKeys(u) <=> k \in KeysIn(c)
<1> DEFINE h == Index(k, len)
           u == [t EXCEPT ![h] = c]
<1>1. h \in 0 .. len - 1
  BY ContentIs
<1>2. GoodTable(u, len) /\ u[h] = c /\ \A g \in 0 .. len - 1 : g # h => u[g] = t[g]
  BY <1>1, OneBucket
<1>3. Distinct(c) /\ Distinct(t[h])
  BY <1>1 DEF GoodTable, GoodBucket
<1> HIDE DEF u
<1>4. Content(u, k) = Found(c, k) /\ (k \in PresentKeys(u) <=> k \in KeysIn(c))
  BY <1>2, ContentIs, ContentType
<1>5. ASSUME NEW j \in Keys, j # k
      PROVE  Content(u, j) = Content(t, j) /\ (j \in PresentKeys(u) <=> j \in PresentKeys(t))
  <2> DEFINE g == Index(j, len)
  <2>1. /\ g \in 0 .. len - 1
        /\ Content(u, j) = Found(u[g], j) /\ Content(t, j) = Found(t[g], j)
        /\ j \in PresentKeys(u) <=> j \in KeysIn(u[g])
        /\ j \in PresentKeys(t) <=> j \in KeysIn(t[g])
    BY <1>2, ContentIs, ContentType
  <2>2. CASE g # h
    BY <1>2, <2>1, <2>2
  <2>3. CASE g = h
    <3>1. (j \in KeysIn(c) <=> j \in KeysIn(t[h])) /\ Found(c, j) = Found(t[h], j)
      BY <1>3, <1>5, SameFound
    <3>2. QED
      BY <1>2, <2>1, <2>3, <3>1
  <2>4. QED
    BY <2>2, <2>3
<1>6. QED
  BY <1>2, <1>4, <1>5 DEF u

\* An entry of the table.
LEMMA EntryType ==
  ASSUME NEW k \in Keys, NEW v \in Values[k]
  PROVE  [key |-> k, value |-> v] \in Entries
<1>1. v \in AllValues
  BY DEF AllValues
<1>2. QED
  BY <1>1 DEF Entries

\* Storing under a key that is there.
LEMMA BucketStores ==
  ASSUME NEW b, NEW h, NEW len, GoodBucket(b, h, len), NEW k \in Keys, NEW v \in Values[k], k \in KeysIn(b)
  PROVE  LET c == BucketStored(b, k, v)
         IN  /\ GoodBucket(c, h, len) /\ k \in KeysIn(c) /\ Found(c, k) = v
             /\ \A n \in DOMAIN b : b[n].key # k => \E m \in DOMAIN c : c[m] = b[n]
             /\ \A m \in DOMAIN c : c[m].key # k => \E n \in DOMAIN b : b[n] = c[m]
<1> DEFINE c == BucketStored(b, k, v)
<1>1. b \in Seq(Entries) /\ Len(b) \in Nat /\ DOMAIN b = 1 .. Len(b) /\ Distinct(b)
  BY LenProperties DEF GoodBucket
<1>2. ASSUME NEW n \in DOMAIN b
      PROVE  b[n] \in Entries /\ b[n] = [key |-> b[n].key, value |-> b[n].value]
  BY <1>1, ElementOfSeq DEF Entries
<1>3. DOMAIN c = DOMAIN b
  BY DEF BucketStored
<1>4. ASSUME NEW n \in DOMAIN b
      PROVE  /\ b[n].key # k => c[n] = b[n]
             /\ b[n].key = k => c[n] = [key |-> k, value |-> v]
             /\ c[n] \in Entries /\ c[n].key = b[n].key
  <2>1. c[n] = IF b[n].key = k THEN [b[n] EXCEPT !.value = v] ELSE b[n]
    BY DEF BucketStored
  <2>2. CASE b[n].key = k
    <3>1. c[n] = [key |-> k, value |-> v]
      BY <1>2, <2>1, <2>2
    <3>2. QED
      BY <2>2, <3>1, EntryType
  <2>3. CASE b[n].key # k
    BY <1>2, <2>1, <2>3
  <2>4. QED
    BY <2>2, <2>3
<1>5. c \in Seq(Entries)
  <2>1. c = [n \in 1 .. Len(b) |-> c[n]]
    BY <1>1 DEF BucketStored
  <2>2. c \in [1 .. Len(b) -> Entries]
    BY <1>1, <1>4, <2>1
  <2>3. QED
    BY <1>1, <2>2, SeqDef
<1> HIDE DEF c
<1>6. Distinct(c) /\ KeysIn(c) = KeysIn(b)
  BY <1>1, <1>3, <1>4 DEF Distinct, KeysIn
<1>7. GoodBucket(c, h, len)
  BY <1>5, <1>6 DEF GoodBucket
<1>8. Found(c, k) = v
  <2>1. PICK n \in DOMAIN c : c[n].key = k
    BY <1>6 DEF KeysIn
  <2>2. c[n].value = v
    BY <1>3, <1>4, <2>1
  <2>3. QED
    BY <1>6, <2>1, <2>2, FoundIs
<1>9. \A n \in DOMAIN b : b[n].key # k => \E m \in DOMAIN c : c[m] = b[n]
  BY <1>3, <1>4
<1>10. \A m \in DOMAIN c : c[m].key # k => \E n \in DOMAIN b : b[n] = c[m]
  BY <1>3, <1>4
<1>11. QED
  BY <1>6, <1>7, <1>8, <1>9, <1>10 DEF c

\* A new entry in front.
LEMMA BucketLinks ==
  ASSUME NEW b, NEW len, NEW k \in Keys, GoodBucket(b, Index(k, len), len), NEW v \in Values[k], k \notin KeysIn(b)
  PROVE  LET c == <<[key |-> k, value |-> v]>> \o b
         IN  /\ GoodBucket(c, Index(k, len), len) /\ k \in KeysIn(c) /\ Found(c, k) = v
             /\ \A n \in DOMAIN b : b[n].key # k => \E m \in DOMAIN c : c[m] = b[n]
             /\ \A m \in DOMAIN c : c[m].key # k => \E n \in DOMAIN b : b[n] = c[m]
<1> DEFINE e == [key |-> k, value |-> v]
           c == <<e>> \o b
<1>1. b \in Seq(Entries) /\ Len(b) \in Nat /\ DOMAIN b = 1 .. Len(b) /\ Distinct(b)
  BY LenProperties DEF GoodBucket
<1>2. e \in Entries /\ e.key = k /\ e.value = v
  BY EntryType
<1> HIDE DEF e
<1>3. <<e>> \in Seq(Entries) /\ Len(<<e>>) = 1 /\ <<e>>[1] = e
  BY <1>2
<1>4. /\ c \in Seq(Entries) /\ Len(c) = 1 + Len(b) /\ DOMAIN c = 1 .. Len(c)
      /\ \A i \in 1 .. 1 + Len(b) : c[i] = IF i <= 1 THEN <<e>>[i] ELSE b[i - 1]
  BY <1>1, <1>3, ConcatProperties, LenProperties
<1> HIDE DEF c
<1>5. 1 \in DOMAIN c /\ c[1] = e
  BY <1>1, <1>3, <1>4
<1>6. ASSUME NEW n \in DOMAIN b PROVE n + 1 \in DOMAIN c /\ c[n + 1] = b[n]
  <2>1. n \in Nat /\ n + 1 \in 1 .. 1 + Len(b) /\ ~(n + 1 <= 1) /\ (n + 1) - 1 = n
    BY <1>1
  <2>2. QED
    BY <1>4, <2>1
<1>7. ASSUME NEW m \in DOMAIN c, m # 1 PROVE m - 1 \in DOMAIN b /\ c[m] = b[m - 1]
  BY <1>1, <1>4, <1>7
<1>8. Distinct(c)
  <2>1. SUFFICES ASSUME NEW m \in DOMAIN c, NEW n \in DOMAIN c, c[m].key = c[n].key PROVE m = n
    BY DEF Distinct
  <2>2. CASE m = 1 /\ n # 1
    <3>1. c[n].key \in KeysIn(b)
      BY <1>7, <2>2 DEF KeysIn
    <3>2. QED
      BY <1>2, <1>5, <2>1, <2>2, <3>1
  <2>3. CASE m # 1 /\ n = 1
    <3>1. c[m].key \in KeysIn(b)
      BY <1>7, <2>3 DEF KeysIn
    <3>2. QED
      BY <1>2, <1>5, <2>1, <2>3, <3>1
  <2>4. CASE m # 1 /\ n # 1
    <3>1. m - 1 = n - 1
      BY <1>1, <1>7, <2>1, <2>4 DEF Distinct
    <3>2. m \in Int /\ n \in Int
      BY <1>4
    <3>3. QED
      BY <3>1, <3>2
  <2>5. QED
    BY <2>2, <2>3, <2>4
<1>9. k \in KeysIn(c) /\ Found(c, k) = v
  <2>1. k \in KeysIn(c)
    BY <1>2, <1>5 DEF KeysIn
  <2>2. Found(c, c[1].key) = c[1].value
    BY <1>5, <1>8, FoundIs
  <2>3. QED
    BY <1>2, <1>5, <2>1, <2>2
<1>10. ASSUME NEW j \in KeysIn(c) PROVE Index(j, len) = Index(k, len)
  <2>1. PICK m \in DOMAIN c : c[m].key = j
    BY DEF KeysIn
  <2>2. CASE m = 1
    BY <1>2, <1>5, <2>1, <2>2
  <2>3. CASE m # 1
    <3>1. j \in KeysIn(b)
      BY <1>7, <2>1, <2>3 DEF KeysIn
    <3>2. QED
      BY <3>1 DEF GoodBucket
  <2>4. QED
    BY <2>2, <2>3
<1>11. GoodBucket(c, Index(k, len), len)
  BY <1>4, <1>8, <1>10 DEF GoodBucket
<1>12. \A n \in DOMAIN b : b[n].key # k => \E m \in DOMAIN c : c[m] = b[n]
  BY <1>6
<1>13. \A m \in DOMAIN c : c[m].key # k => \E n \in DOMAIN b : b[n] = c[m]
  BY <1>2, <1>5, <1>7
<1>14. QED
  BY <1>9, <1>11, <1>12, <1>13 DEF c, e

\* What is left of a sequence without one of its places.
LEMMA RemoveAtIs ==
  ASSUME NEW S, NEW s \in Seq(S), NEW p \in DOMAIN s
  PROVE  LET c == RemoveAt(s, p)
         IN  /\ c \in Seq(S) /\ DOMAIN c = 1 .. Len(s) - 1
             /\ \A n \in DOMAIN s : n < p => n \in DOMAIN c /\ c[n] = s[n]
             /\ \A n \in DOMAIN s : n > p => n - 1 \in DOMAIN c /\ c[n - 1] = s[n]
             /\ \A m \in DOMAIN c : \/ m < p /\ m \in DOMAIN s /\ c[m] = s[m]
                                    \/ m >= p /\ m + 1 \in DOMAIN s /\ c[m] = s[m + 1]
<1> DEFINE N == Len(s)
           a == SubSeq(s, 1, p - 1)
           z == SubSeq(s, p + 1, N)
           c == RemoveAt(s, p)
<1>1. N \in Nat /\ DOMAIN s = 1 .. N /\ p \in 1 .. N
  BY LenProperties
<1>2. \A i \in 1 .. N : s[i] \in S
  BY ElementOfSeq
<1>3. /\ a \in Seq(S) /\ Len(a) = p - 1
      /\ \A i \in 1 .. p - 1 : a[i] = s[i]
  <2>1. \A i \in 1 .. p - 1 : s[i] \in S
    BY <1>1, <1>2
  <2>2. /\ a \in Seq(S)
        /\ Len(a) = IF 1 <= p - 1 THEN (p - 1) - 1 + 1 ELSE 0
        /\ \A i \in 1 .. (p - 1) - 1 + 1 : a[i] = s[1 + i - 1]
    BY <1>1, <2>1, SubSeqProperties
  <2> HIDE DEF a
  <2>3. Len(a) = p - 1
    BY <1>1, <2>2
  <2>4. ASSUME NEW i \in 1 .. p - 1 PROVE a[i] = s[i]
    <3>1. i \in 1 .. (p - 1) - 1 + 1 /\ 1 + i - 1 = i
      BY <1>1
    <3>2. a[i] = s[1 + i - 1]
      BY <2>2, <3>1
    <3>3. QED
      BY <3>1, <3>2
  <2>5. QED
    BY <2>2, <2>3, <2>4
<1>4. /\ z \in Seq(S) /\ Len(z) = N - p
      /\ \A i \in 1 .. N - p : z[i] = s[p + i]
  <2>1. \A i \in p + 1 .. N : s[i] \in S
    BY <1>1, <1>2
  <2>2. /\ z \in Seq(S)
        /\ Len(z) = IF p + 1 <= N THEN N - (p + 1) + 1 ELSE 0
        /\ \A i \in 1 .. N - (p + 1) + 1 : z[i] = s[(p + 1) + i - 1]
    BY <1>1, <2>1, SubSeqProperties
  <2> HIDE DEF z
  <2>3. Len(z) = N - p
    BY <1>1, <2>2
  <2>4. ASSUME NEW i \in 1 .. N - p PROVE z[i] = s[p + i]
    <3>1. i \in 1 .. N - (p + 1) + 1 /\ (p + 1) + i - 1 = p + i
      BY <1>1
    <3>2. z[i] = s[(p + 1) + i - 1]
      BY <2>2, <3>1
    <3>3. QED
      BY <3>1, <3>2
  <2>5. QED
    BY <2>2, <2>3, <2>4
<1>5. c = a \o z
  BY DEF RemoveAt
<1> HIDE DEF a, z, c
<1>6. /\ c \in Seq(S) /\ Len(c) = (p - 1) + (N - p)
      /\ \A i \in 1 .. (p - 1) + (N - p) : c[i] = IF i <= p - 1 THEN a[i] ELSE z[i - (p - 1)]
  <2>1. a \in Seq(S) /\ z \in Seq(S)
    BY <1>3, <1>4
  <2>2. /\ a \o z \in Seq(S) /\ Len(a \o z) = Len(a) + Len(z)
        /\ \A i \in 1 .. Len(a) + Len(z) : (a \o z)[i] = IF i <= Len(a) THEN a[i] ELSE z[i - Len(a)]
    BY <2>1, ConcatProperties
  <2>3. Len(a) = p - 1 /\ Len(z) = N - p
    BY <1>3, <1>4
  <2>4. QED
    BY <1>5, <2>2, <2>3
<1>7. DOMAIN c = 1 .. N - 1
  <2>1. (p - 1) + (N - p) = N - 1
    BY <1>1
  <2>2. QED
    BY <1>6, <2>1, LenProperties
<1>8. ASSUME NEW n \in DOMAIN s, n < p PROVE n \in DOMAIN c /\ c[n] = s[n]
  BY <1>1, <1>3, <1>6, <1>7, <1>8
<1>9. ASSUME NEW n \in DOMAIN s, n > p PROVE n - 1 \in DOMAIN c /\ c[n - 1] = s[n]
  <2>1. n \in 1 .. N
    BY <1>1
  <2>2. n - 1 \in 1 .. (p - 1) + (N - p) /\ n - 1 \in 1 .. N - 1 /\ ~(n - 1 <= p - 1) /\ (n - 1) - (p - 1) = n - p
    BY <1>1, <1>9, <2>1
  <2>3. c[n - 1] = z[n - p]
    BY <1>6, <2>2
  <2>4. n - p \in 1 .. N - p /\ p + (n - p) = n
    BY <1>1, <1>9, <2>1
  <2>5. QED
    BY <1>4, <1>7, <2>2, <2>3, <2>4
<1>10. ASSUME NEW m \in DOMAIN c
       PROVE  \/ m < p /\ m \in DOMAIN s /\ c[m] = s[m]
              \/ m >= p /\ m + 1 \in DOMAIN s /\ c[m] = s[m + 1]
  <2>1. m \in 1 .. N - 1
    BY <1>7
  <2>2. CASE m < p
    BY <1>1, <1>8, <2>1, <2>2
  <2>3. CASE m >= p
    <3>1. m + 1 \in DOMAIN s /\ m + 1 > p /\ (m + 1) - 1 = m
      BY <1>1, <2>1, <2>3
    <3>2. QED
      BY <1>9, <2>3, <3>1
  <2>4. QED
    BY <1>1, <2>1, <2>2, <2>3
<1>11. QED
  BY <1>6, <1>7, <1>8, <1>9, <1>10 DEF c

\* Taking the entry of a key out.
LEMMA BucketUnlinks ==
  ASSUME NEW b, NEW h, NEW len, GoodBucket(b, h, len), NEW k \in KeysIn(b)
  PROVE  LET c == BucketUnlinked(b, k)
         IN  /\ GoodBucket(c, h, len) /\ k \notin KeysIn(c) /\ Found(c, k) = NotFound
             /\ \A n \in DOMAIN b : b[n].key # k => \E m \in DOMAIN c : c[m] = b[n]
             /\ \A m \in DOMAIN c : c[m].key # k => \E n \in DOMAIN b : b[n] = c[m]
<1> DEFINE p == Place(b, k)
           c == RemoveAt(b, p)
<1>1. b \in Seq(Entries) /\ Len(b) \in Nat /\ DOMAIN b = 1 .. Len(b) /\ Distinct(b)
  BY LenProperties DEF GoodBucket
<1>2. p \in DOMAIN b /\ b[p].key = k
  BY PlaceIs
<1> HIDE DEF p
<1>3. /\ c \in Seq(Entries) /\ DOMAIN c = 1 .. Len(b) - 1
      /\ \A n \in DOMAIN b : n < p => n \in DOMAIN c /\ c[n] = b[n]
      /\ \A n \in DOMAIN b : n > p => n - 1 \in DOMAIN c /\ c[n - 1] = b[n]
      /\ \A m \in DOMAIN c : \/ m < p /\ m \in DOMAIN b /\ c[m] = b[m]
                             \/ m >= p /\ m + 1 \in DOMAIN b /\ c[m] = b[m + 1]
  BY <1>1, <1>2, RemoveAtIs
<1>4. c = BucketUnlinked(b, k)
  BY DEF BucketUnlinked, p
<1> HIDE DEF c
<1>5. ASSUME NEW m \in DOMAIN c
      PROVE  \E n \in DOMAIN b : n # p /\ c[m] = b[n] /\ n = IF m < p THEN m ELSE m + 1
  <2>1. m \in Int /\ p \in Int
    BY <1>1, <1>2, <1>3
  <2>2. QED
    BY <1>3, <2>1
<1>6. ASSUME NEW n \in DOMAIN b, n # p PROVE \E m \in DOMAIN c : c[m] = b[n]
  <2>1. n < p \/ n > p
    BY <1>1, <1>2, <1>6
  <2>2. QED
    BY <1>3, <2>1
<1>7. Distinct(c)
  <2>1. SUFFICES ASSUME NEW m \in DOMAIN c, NEW n \in DOMAIN c, c[m].key = c[n].key PROVE m = n
    BY DEF Distinct
  <2>2. PICK i \in DOMAIN b : c[m] = b[i] /\ i = IF m < p THEN m ELSE m + 1
    BY <1>5
  <2>3. PICK j \in DOMAIN b : c[n] = b[j] /\ j = IF n < p THEN n ELSE n + 1
    BY <1>5
  <2>4. i = j
    BY <1>1, <2>1, <2>2, <2>3 DEF Distinct
  <2>5. m \in Int /\ n \in Int /\ p \in Int
    BY <1>1, <1>2, <1>3
  <2>6. QED
    BY <2>2, <2>3, <2>4, <2>5
<1>8. ASSUME NEW j \in KeysIn(c) PROVE j # k /\ j \in KeysIn(b)
  <2>1. PICK m \in DOMAIN c : c[m].key = j
    BY DEF KeysIn
  <2>2. PICK n \in DOMAIN b : n # p /\ c[m] = b[n]
    BY <1>5
  <2>3. j # k
    BY <1>1, <1>2, <2>1, <2>2 DEF Distinct
  <2>4. QED
    BY <2>1, <2>2, <2>3 DEF KeysIn
<1>9. GoodBucket(c, h, len)
  BY <1>3, <1>7, <1>8 DEF GoodBucket
<1>10. k \notin KeysIn(c) /\ Found(c, k) = NotFound
  BY <1>8 DEF Found
<1>11. \A n \in DOMAIN b : b[n].key # k => \E m \in DOMAIN c : c[m] = b[n]
  BY <1>2, <1>6
<1>12. \A m \in DOMAIN c : c[m].key # k => \E n \in DOMAIN b : b[n] = c[m]
  BY <1>5
<1>13. QED
  BY <1>4, <1>9, <1>10, <1>11, <1>12

-----------------------------------------------------------------------------
(* What the writes do to the table: the keys and what it holds under them.  *)

\* The table changes under one key alone, to what is stored or to nothing.
Changed(t, u, len, k, v) ==
  /\ GoodTable(u, len)
  /\ Content(u, k) = v
  /\ \A j \in Keys : j # k => Content(u, j) = Content(t, j)
  /\ PresentKeys(u) = IF v = NotFound THEN PresentKeys(t) \ {k} ELSE PresentKeys(t) \cup {k}

\* What is left to show of each such write.
LEMMA ChangedIs ==
  ASSUME NEW t, NEW len \in Nat, GoodTable(t, len), NEW k \in Keys,
         NEW c, GoodBucket(c, Index(k, len), len), NEW v, Found(c, k) = v,
         k \in KeysIn(c) <=> v # NotFound,
         \A n \in DOMAIN t[Index(k, len)] : t[Index(k, len)][n].key # k => \E m \in DOMAIN c : c[m] = t[Index(k, len)][n],
         \A m \in DOMAIN c : c[m].key # k => \E n \in DOMAIN t[Index(k, len)] : t[Index(k, len)][n] = c[m]
  PROVE  Changed(t, [t EXCEPT ![Index(k, len)] = c], len, k, v)
<1> DEFINE u == [t EXCEPT ![Index(k, len)] = c]
<1>1. /\ GoodTable(u, len)
      /\ Content(u, k) = Found(c, k)
      /\ \A j \in Keys : j # k => Content(u, j) = Content(t, j)
      /\ \A j \in Keys : j # k => (j \in PresentKeys(u) <=> j \in PresentKeys(t))
      /\ k \in PresentKeys(u) <=> k \in KeysIn(c)
  BY OneKey
<1> HIDE DEF u
<1>2. PresentKeys(u) \subseteq Keys /\ PresentKeys(t) \subseteq Keys
  BY <1>1, PresentFinite
<1>3. ASSUME NEW j
      PROVE  j \in PresentKeys(u) <=> j \in IF v = NotFound THEN PresentKeys(t) \ {k} ELSE PresentKeys(t) \cup {k}
  BY <1>1, <1>2
<1>4. PresentKeys(u) = IF v = NotFound THEN PresentKeys(t) \ {k} ELSE PresentKeys(t) \cup {k}
  BY <1>3
<1>5. QED
  BY <1>1, <1>4 DEF Changed, u

\* p.value = value
LEMMA StoreChanges ==
  ASSUME NEW t, NEW len \in Nat, GoodTable(t, len), NEW k \in PresentKeys(t), k \in Keys, NEW v \in Values[k]
  PROVE  Changed(t, [t EXCEPT ![Index(k, len)] = BucketStored(t[Index(k, len)], k, v)], len, k, v)
<1> DEFINE b == t[Index(k, len)]
           c == BucketStored(b, k, v)
<1>1. GoodBucket(b, Index(k, len), len) /\ k \in KeysIn(b)
  BY ContentIs, ContentType DEF GoodTable
<1> HIDE DEF b
<1>2. /\ GoodBucket(c, Index(k, len), len) /\ k \in KeysIn(c) /\ Found(c, k) = v
      /\ \A n \in DOMAIN b : b[n].key # k => \E m \in DOMAIN c : c[m] = b[n]
      /\ \A m \in DOMAIN c : c[m].key # k => \E n \in DOMAIN b : b[n] = c[m]
  BY <1>1, BucketStores
<1>3. v # NotFound
  BY HashAssumption
<1> HIDE DEF c
<1>4. QED
  BY <1>2, <1>3, ChangedIs DEF b, c

\* The new entry.
LEMMA LinkChanges ==
  ASSUME NEW t, NEW len \in Nat, GoodTable(t, len), NEW k \in Keys, k \notin PresentKeys(t), NEW v \in Values[k]
  PROVE  Changed(t, [t EXCEPT ![Index(k, len)] = <<[key |-> k, value |-> v]>> \o t[Index(k, len)]], len, k, v)
<1> DEFINE b == t[Index(k, len)]
           c == <<[key |-> k, value |-> v]>> \o b
<1>1. GoodBucket(b, Index(k, len), len) /\ k \notin KeysIn(b)
  BY ContentIs, ContentType DEF GoodTable
<1> HIDE DEF b
<1>2. /\ GoodBucket(c, Index(k, len), len) /\ k \in KeysIn(c) /\ Found(c, k) = v
      /\ \A n \in DOMAIN b : b[n].key # k => \E m \in DOMAIN c : c[m] = b[n]
      /\ \A m \in DOMAIN c : c[m].key # k => \E n \in DOMAIN b : b[n] = c[m]
  BY <1>1, BucketLinks
<1>3. v # NotFound
  BY HashAssumption
<1> HIDE DEF c
<1>4. QED
  BY <1>2, <1>3, ChangedIs DEF b, c

\* prev.next = p.next
LEMMA UnlinkChanges ==
  ASSUME NEW t, NEW len \in Nat, GoodTable(t, len), NEW k \in PresentKeys(t), k \in Keys
  PROVE  Changed(t, [t EXCEPT ![Index(k, len)] = BucketUnlinked(t[Index(k, len)], k)], len, k, NotFound)
<1> DEFINE b == t[Index(k, len)]
           c == BucketUnlinked(b, k)
<1>1. GoodBucket(b, Index(k, len), len) /\ k \in KeysIn(b)
  BY ContentIs, ContentType DEF GoodTable
<1> HIDE DEF b
<1>2. /\ GoodBucket(c, Index(k, len), len) /\ k \notin KeysIn(c) /\ Found(c, k) = NotFound
      /\ \A n \in DOMAIN b : b[n].key # k => \E m \in DOMAIN c : c[m] = b[n]
      /\ \A m \in DOMAIN c : c[m].key # k => \E n \in DOMAIN b : b[n] = c[m]
  BY <1>1, BucketUnlinks
<1> HIDE DEF c
<1>3. QED
  BY <1>2, ChangedIs DEF b, c

-----------------------------------------------------------------------------
(* enlarge and shrink.                                                      *)

\* The cells that are not visited before a cell: their number is its place in the new list.
Rank(S, c) == {d \in S : ~Before(d, c)}

\* The order in which the cells are visited.
LEMMA BeforeTotal ==
  ASSUME NEW c \in Nat \X Nat, NEW d \in Nat \X Nat, NEW e \in Nat \X Nat
  PROVE  /\ ~Before(c, c)
         /\ c # d => Before(c, d) \/ Before(d, c)
         /\ Before(c, d) => ~Before(d, c)
         /\ Before(c, d) /\ Before(d, e) => Before(c, e)
<1>1. /\ c[1] \in Nat /\ c[2] \in Nat /\ d[1] \in Nat /\ d[2] \in Nat /\ e[1] \in Nat /\ e[2] \in Nat
      /\ c = <<c[1], c[2]>> /\ d = <<d[1], d[2]>>
  OBVIOUS
<1>2. c # d => c[1] # d[1] \/ c[2] # d[2]
  BY <1>1
<1>3. QED
  BY <1>1, <1>2 DEF Before

\* Each place is that of exactly one cell.
LEMMA PlacesOfCells ==
  ASSUME NEW S \in SUBSET (Nat \X Nat), IsFiniteSet(S)
  PROVE  /\ Cardinality(S) \in Nat
         /\ \A n \in 1 .. Cardinality(S) : \E c \in S : Cardinality(Rank(S, c)) = n
         /\ \A c, d \in S : Cardinality(Rank(S, c)) = Cardinality(Rank(S, d)) => c = d
         /\ \A c \in S : Cardinality(Rank(S, c)) \in 1 .. Cardinality(S)
<1> DEFINE N == Cardinality(S)
           f == [c \in S |-> Cardinality(Rank(S, c))]
<1>1. N \in Nat
  BY FS_CardinalityType
<1>2. ASSUME NEW c \in S
      PROVE  /\ Rank(S, c) \in SUBSET S /\ IsFiniteSet(Rank(S, c)) /\ c \in Rank(S, c)
             /\ Cardinality(Rank(S, c)) \in 1 .. N
  <2>1. Rank(S, c) \in SUBSET S /\ c \in Rank(S, c)
    BY BeforeTotal DEF Rank
  <2>2. IsFiniteSet(Rank(S, c)) /\ Cardinality(Rank(S, c)) <= N /\ Cardinality(Rank(S, c)) \in Nat
    BY <2>1, FS_Subset, FS_CardinalityType
  <2>3. Cardinality(Rank(S, c)) # 0
    BY <2>1, <2>2, FS_EmptySet
  <2>4. QED
    BY <1>1, <2>1, <2>2, <2>3
<1>3. ASSUME NEW c \in S, NEW d \in S, Before(c, d) PROVE Cardinality(Rank(S, d)) < Cardinality(Rank(S, c))
  <2>1. Rank(S, d) \subseteq Rank(S, c)
    <3>1. SUFFICES ASSUME NEW e \in S, ~Before(e, d) PROVE ~Before(e, c)
      BY DEF Rank
    <3>2. c \in Nat \X Nat /\ d \in Nat \X Nat /\ e \in Nat \X Nat
      OBVIOUS
    <3>3. QED
      BY <1>3, <3>1, <3>2, BeforeTotal
  <2>2. c \notin Rank(S, d) /\ c \in Rank(S, c)
    BY <1>2, <1>3 DEF Rank
  <2>3. Rank(S, d) \in SUBSET Rank(S, c) /\ IsFiniteSet(Rank(S, c)) /\ Rank(S, d) # Rank(S, c)
    BY <1>2, <2>1, <2>2
  <2>4. Cardinality(Rank(S, d)) <= Cardinality(Rank(S, c)) /\ Cardinality(Rank(S, d)) # Cardinality(Rank(S, c))
    BY <2>3, FS_Subset
  <2>5. QED
    BY <1>1, <1>2, <2>4
<1>4. ASSUME NEW c \in S, NEW d \in S, Cardinality(Rank(S, c)) = Cardinality(Rank(S, d)) PROVE c = d
  <2>1. c \in Nat \X Nat /\ d \in Nat \X Nat
    OBVIOUS
  <2>2. c # d => Before(c, d) \/ Before(d, c)
    BY <2>1, BeforeTotal
  <2>3. Cardinality(Rank(S, c)) \in Int /\ Cardinality(Rank(S, d)) \in Int
    BY <1>2
  <2>4. QED
    BY <1>3, <1>4, <2>2, <2>3
<1>5. f \in [S -> 1 .. N] /\ \A c \in S : f[c] = Cardinality(Rank(S, c))
  BY <1>2
<1> HIDE DEF f
<1>11. f \in Injection(S, 1 .. N)
  <2>1. \A c, d \in S : f[c] = f[d] => c = d
    BY <1>4, <1>5
  <2>2. QED
    BY <1>5, <2>1, Fun_IsInj
<1>6. IsFiniteSet(1 .. N) /\ Cardinality(1 .. N) = N
  <2>1. N \in Int
    BY <1>1
  <2>2. IsFiniteSet(1 .. N) /\ Cardinality(1 .. N) = IF 1 > N THEN 0 ELSE N - 1 + 1
    BY <2>1, FS_Interval
  <2>3. QED
    BY <1>1, <2>2
<1>7. f \in Surjection(S, 1 .. N)
  BY <1>11, <1>6, FS_Injection
<1>8. \A n \in 1 .. N : \E c \in S : f[c] = n
  BY <1>7, Fun_SurjectionProperties
<1>9. \A n \in 1 .. N : \E c \in S : Cardinality(Rank(S, c)) = n
  BY <1>5, <1>8
<1>10. \A c, d \in S : Cardinality(Rank(S, c)) = Cardinality(Rank(S, d)) => c = d
  BY <1>4
<1>12. QED
  BY <1>1, <1>2, <1>9, <1>10

\* The cells of the table: no two of them hold the same key.
LEMMA CellsAre ==
  ASSUME NEW len \in Nat, GoodTable(table, len)
  PROVE  /\ Cells \in SUBSET (Nat \X Nat) /\ IsFiniteSet(Cells)
         /\ \A c \in Cells : c[1] \in 0 .. len - 1 /\ c[2] \in DOMAIN table[c[1]] /\ Entry(c) \in Entries
         /\ \A c, d \in Cells : Entry(c).key = Entry(d).key => c = d
         /\ \A h \in 0 .. len - 1 : \A n \in DOMAIN table[h] : \E c \in Cells : Entry(c) = table[h][n]
<1> DEFINE row(h)  == {h} \X DOMAIN table[h]
           rows    == {row(h) : h \in DOMAIN table}
<1>1. DOMAIN table = 0 .. len - 1
  BY DEF GoodTable
<1>2. ASSUME NEW h \in 0 .. len - 1
      PROVE  /\ table[h] \in Seq(Entries) /\ Len(table[h]) \in Nat /\ DOMAIN table[h] = 1 .. Len(table[h])
             /\ Distinct(table[h]) /\ \A n \in DOMAIN table[h] : table[h][n] \in Entries /\ Index(table[h][n].key, len) = h
  <2>1. GoodBucket(table[h], h, len)
    BY DEF GoodTable
  <2>2. table[h] \in Seq(Entries) /\ Len(table[h]) \in Nat /\ DOMAIN table[h] = 1 .. Len(table[h])
    BY <2>1, LenProperties DEF GoodBucket
  <2>3. \A n \in DOMAIN table[h] : table[h][n] \in Entries
    BY <2>2, ElementOfSeq
  <2>4. QED
    BY <2>1, <2>2, <2>3 DEF GoodBucket, KeysIn
<1>3. Cells = UNION rows
  BY DEF Cells
<1>4. ASSUME NEW c \in Cells
      PROVE  c \in Nat \X Nat /\ c[1] \in 0 .. len - 1 /\ c[2] \in DOMAIN table[c[1]] /\ c = <<c[1], c[2]>>
  <2>1. PICK h \in 0 .. len - 1 : c \in row(h)
    BY <1>1, <1>3
  <2>2. c[1] = h /\ c[2] \in DOMAIN table[h] /\ c = <<c[1], c[2]>>
    BY <2>1
  <2>3. c[1] \in Nat /\ c[2] \in Nat
    BY <1>2, <2>2
  <2>4. QED
    BY <2>2, <2>3
<1>5. IsFiniteSet(Cells)
  <2>1. ASSUME NEW h \in 0 .. len - 1 PROVE IsFiniteSet(row(h))
    <3>1. IsFiniteSet({h}) /\ IsFiniteSet(1 .. Len(table[h]))
      <4>1. 1 \in Int /\ Len(table[h]) \in Int
        BY <1>2
      <4>2. QED
        BY <4>1, FS_Singleton, FS_Interval
    <3>2. IsFiniteSet({h} \X (1 .. Len(table[h])))
      BY <3>1, FS_Product
    <3>3. QED
      BY <1>2, <3>2
  <2>2. IsFiniteSet(0 .. len - 1)
    BY FS_Interval
  <2>3. IsFiniteSet(rows)
    <3> DEFINE f == [h \in 0 .. len - 1 |-> row(h)]
    <3>1. f \in [0 .. len - 1 -> rows] /\ \A r \in rows : \E h \in 0 .. len - 1 : f[h] = r
      BY <1>1
    <3> HIDE DEF f, rows
    <3>2. f \in Surjection(0 .. len - 1, rows)
      BY <3>1, Fun_IsSurj
    <3>3. QED
      BY <2>2, <3>2, FS_Surjection
  <2>4. \A T \in rows : IsFiniteSet(T)
    BY <1>1, <2>1
  <2> HIDE DEF rows
  <2>5. QED
    BY <1>3, <2>3, <2>4, FS_UNION
<1>6. ASSUME NEW c \in Cells PROVE Entry(c) \in Entries /\ Index(Entry(c).key, len) = c[1]
  BY <1>2, <1>4 DEF Entry
<1>7. ASSUME NEW c \in Cells, NEW d \in Cells, Entry(c).key = Entry(d).key PROVE c = d
  <2>1. c[1] = d[1]
    BY <1>6, <1>7
  <2>2. c[2] = d[2]
    BY <1>2, <1>4, <1>7, <2>1 DEF Entry, Distinct
  <2>3. QED
    BY <1>4, <2>1, <2>2
<1>8. ASSUME NEW h \in 0 .. len - 1, NEW n \in DOMAIN table[h] PROVE \E c \in Cells : Entry(c) = table[h][n]
  <2>1. <<h, n>> \in row(h)
    OBVIOUS
  <2>2. <<h, n>> \in Cells
    BY <1>1, <1>3, <2>1
  <2>3. QED
    BY <2>2 DEF Entry
<1>9. QED
  BY <1>4, <1>5, <1>6, <1>7, <1>8

\* A new bucket holds the entries of its cells, each once.
LEMMA StackedIs ==
  ASSUME NEW len \in Nat, GoodTable(table, len), NEW S \in SUBSET Cells
  PROVE  /\ Stacked(S) \in Seq(Entries) /\ Distinct(Stacked(S))
         /\ \A n \in DOMAIN Stacked(S) : \E c \in S : Stacked(S)[n] = Entry(c)
         /\ \A c \in S : \E n \in DOMAIN Stacked(S) : Stacked(S)[n] = Entry(c)
<1> DEFINE N == Cardinality(S)
           at(n) == CHOOSE c \in S : Cardinality(Rank(S, c)) = n
           s == Stacked(S)
<1>1. S \in SUBSET (Nat \X Nat) /\ IsFiniteSet(S)
  BY CellsAre, FS_Subset
<1>2. /\ N \in Nat
      /\ \A n \in 1 .. N : \E c \in S : Cardinality(Rank(S, c)) = n
      /\ \A c, d \in S : Cardinality(Rank(S, c)) = Cardinality(Rank(S, d)) => c = d
      /\ \A c \in S : Cardinality(Rank(S, c)) \in 1 .. N
  BY <1>1, PlacesOfCells
<1>3. s = [n \in 1 .. N |-> Entry(at(n))]
  BY DEF Stacked, Rank
<1>4. ASSUME NEW n \in 1 .. N PROVE at(n) \in S /\ Cardinality(Rank(S, at(n))) = n /\ s[n] = Entry(at(n))
  BY <1>2, <1>3
<1>5. DOMAIN s = 1 .. N
  BY <1>3
<1> HIDE DEF s, at
<1>6. \A c \in S : Entry(c) \in Entries
  BY CellsAre
<1>7. s \in Seq(Entries)
  <2>1. s \in [1 .. N -> Entries]
    BY <1>3, <1>4, <1>6
  <2>2. QED
    BY <1>2, <2>1, SeqDef
<1>8. ASSUME NEW m \in DOMAIN s, NEW n \in DOMAIN s, s[m].key = s[n].key PROVE m = n
  <2>1. at(m) = at(n)
    BY <1>4, <1>5, <1>8, CellsAre
  <2>2. QED
    BY <1>4, <1>5, <2>1
<1>9. ASSUME NEW c \in S PROVE \E n \in DOMAIN s : s[n] = Entry(c)
  <2>1. PICK n \in 1 .. N : n = Cardinality(Rank(S, c))
    BY <1>2
  <2>2. at(n) = c
    BY <1>2, <1>4, <2>1
  <2>3. QED
    BY <1>4, <1>5, <2>2
<1>10. \A n \in DOMAIN s : \E c \in S : s[n] = Entry(c)
  BY <1>4, <1>5
<1>11. QED
  BY <1>7, <1>8, <1>9, <1>10 DEF s, Distinct

\* enlarge and shrink lose no key and change no value: a table of the new length holds under
\* each key what the old one held.
LEMMA RehashKeeps ==
  ASSUME NEW len \in Nat, GoodTable(table, len), NEW new \in Nat, IsLength(new)
  PROVE  /\ GoodTable(Rehashed(new), new)
         /\ PresentKeys(Rehashed(new)) = PresentKeys(table)
         /\ \A k \in Keys : Content(Rehashed(new), k) = Content(table, k)
<1> DEFINE u == Rehashed(new)
           S(h) == {c \in Cells : Index(Entry(c).key, new) = h}
<1>1. DOMAIN u = 0 .. new - 1 /\ u = [h \in 0 .. new - 1 |-> u[h]] /\ \A h \in 0 .. new - 1 : u[h] = Stacked(S(h))
  BY DEF Rehashed
<1> HIDE DEF u
<1>2. ASSUME NEW h \in 0 .. new - 1
      PROVE  /\ u[h] \in Seq(Entries) /\ Distinct(u[h])
             /\ \A n \in DOMAIN u[h] : \E c \in Cells : u[h][n] = Entry(c) /\ Index(Entry(c).key, new) = h
             /\ \A c \in Cells : Index(Entry(c).key, new) = h => \E n \in DOMAIN u[h] : u[h][n] = Entry(c)
  <2>1. S(h) \in SUBSET Cells
    OBVIOUS
  <2>2. /\ Stacked(S(h)) \in Seq(Entries) /\ Distinct(Stacked(S(h)))
        /\ \A n \in DOMAIN Stacked(S(h)) : \E c \in S(h) : Stacked(S(h))[n] = Entry(c)
        /\ \A c \in S(h) : \E n \in DOMAIN Stacked(S(h)) : Stacked(S(h))[n] = Entry(c)
    BY <2>1, StackedIs
  <2>3. QED
    BY <1>1, <2>2
<1>3. GoodTable(u, new)
  <2>1. ASSUME NEW h \in 0 .. new - 1 PROVE GoodBucket(u[h], h, new)
    BY <1>2 DEF GoodBucket, KeysIn
  <2>2. QED
    BY <1>1, <2>1 DEF GoodTable
<1>4. ASSUME NEW k \in Keys
      PROVE  (k \in PresentKeys(u) <=> k \in PresentKeys(table)) /\ Content(u, k) = Content(table, k)
  <2> DEFINE g == Index(k, len)
             h == Index(k, new)
  <2>1. /\ g \in 0 .. len - 1 /\ Content(table, k) = Found(table[g], k)
        /\ k \in PresentKeys(table) <=> k \in KeysIn(table[g])
        /\ Distinct(table[g])
    <3>1. g \in 0 .. len - 1 /\ Content(table, k) = Found(table[g], k)
      BY ContentIs
    <3>2. k \in PresentKeys(table) <=> k \in KeysIn(table[g])
      BY ContentType
    <3>3. Distinct(table[g])
      BY <3>1 DEF GoodTable, GoodBucket
    <3>4. QED
      BY <3>1, <3>2, <3>3
  <2>2. /\ h \in 0 .. new - 1 /\ Content(u, k) = Found(u[h], k)
        /\ k \in PresentKeys(u) <=> k \in KeysIn(u[h])
        /\ Distinct(u[h])
    <3>1. h \in 0 .. new - 1 /\ Content(u, k) = Found(u[h], k)
      BY <1>3, ContentIs
    <3>2. k \in PresentKeys(u) <=> k \in KeysIn(u[h])
      BY <1>3, ContentType
    <3>3. QED
      BY <1>2, <3>1, <3>2
  <2> HIDE DEF g, h
  <2>3. CASE k \in KeysIn(table[g])
    <3>1. PICK n \in DOMAIN table[g] : table[g][n].key = k
      BY <2>3 DEF KeysIn
    <3>2. PICK c \in Cells : Entry(c) = table[g][n]
      BY <2>1, CellsAre
    <3>3. PICK m \in DOMAIN u[h] : u[h][m] = Entry(c)
      BY <1>2, <2>2, <3>1, <3>2 DEF h
    <3>4. k \in KeysIn(u[h])
      BY <3>1, <3>2, <3>3 DEF KeysIn
    <3>5. Found(u[h], k) = Entry(c).value /\ Found(table[g], k) = Entry(c).value
      BY <2>1, <2>2, <3>1, <3>2, <3>3, FoundIs
    <3>6. QED
      BY <2>1, <2>2, <2>3, <3>4, <3>5
  <2>4. CASE k \notin KeysIn(table[g])
    <3>1. k \notin KeysIn(u[h])
      <4>1. SUFFICES ASSUME NEW n \in DOMAIN u[h], u[h][n].key = k PROVE FALSE
        BY DEF KeysIn
      <4>2. PICK c \in Cells : u[h][n] = Entry(c)
        BY <1>2, <2>2
      <4>3. c[1] \in 0 .. len - 1 /\ c[2] \in DOMAIN table[c[1]] /\ Entry(c) = table[c[1]][c[2]]
        BY CellsAre DEF Entry
      <4>4. k \in PresentKeys(table)
        <5>1. k \in KeysIn(table[c[1]])
          BY <4>1, <4>2, <4>3 DEF KeysIn
        <5>2. QED
          BY <4>3, <5>1 DEF PresentKeys, GoodTable
      <4>5. QED
        BY <2>1, <2>4, <4>4
    <3>2. QED
      BY <2>1, <2>2, <2>4, <3>1 DEF Found
  <2>5. QED
    BY <2>3, <2>4
<1>5. PresentKeys(u) \subseteq Keys /\ PresentKeys(table) \subseteq Keys
  BY <1>3, PresentFinite
<1>6. PresentKeys(u) = PresentKeys(table)
  BY <1>4, <1>5
<1>7. QED
  BY <1>3, <1>4, <1>6 DEF u

-----------------------------------------------------------------------------
(* What a write does to a lookup under way.                                 *)

ReaderType ==
  [pc : {"idle", "bucket", "walk", "outside"}, key : Keys \cup {NotFound}, len : Nat,
   ahead : Seq(Ahead), seen : SUBSET (AllValues \cup {NotFound}), straddled : BOOLEAN]

\* The reader after a write that leaves these cells before it and this table.
Noted(x, s, u) == [x EXCEPT !.ahead = s, !.seen = @ \cup {Content(u, x.key)}]

\* It goes on being truthful if the cells that are not gone are those of the new table, those
\* of its key are what it has seen or sees now, and its key is lost only to a removal.
LEMMA ReaderFollows ==
  ASSUME NEW x \in ReaderType, NEW t, ReaderOK(x, t), x.pc # "idle", NEW u,
         Content(u, x.key) \in AllValues \cup {NotFound},
         NEW s \in Seq(Ahead), Distinct(s), x.ahead = << >> => s = << >>,
         \A n \in DOMAIN s : ~s[n].gone => s[n].value = Content(u, s[n].key),
         \A n \in DOMAIN s : s[n].key = x.key => s[n].value \in x.seen \cup {Content(u, x.key)},
         x.key \in KeysIn(x.ahead) => x.key \in KeysIn(s) \/ Content(u, x.key) = NotFound
  PROVE  Noted(x, s, u) \in ReaderType /\ ReaderOK(Noted(x, s, u), u)
<1> DEFINE y == Noted(x, s, u)
<1>1. /\ y.pc = x.pc /\ y.key = x.key /\ y.len = x.len /\ y.ahead = s
      /\ y.seen = x.seen \cup {Content(u, x.key)} /\ y.straddled = x.straddled
      /\ y \in ReaderType
  BY DEF Noted, ReaderType
<1> HIDE DEF y
<1>2. Content(u, y.key) \in y.seen
  BY <1>1
<1>3. /\ x.key \in Keys
      /\ x.pc = "bucket" => x.len > 0 /\ x.ahead = << >>
      /\ x.pc = "walk" => x.key \in KeysIn(x.ahead) \/ NotFound \in x.seen \/ x.straddled
  BY DEF ReaderOK
<1>4. y.pc = "walk" => y.key \in KeysIn(y.ahead) \/ NotFound \in y.seen \/ y.straddled
  BY <1>1, <1>3
<1>5. ReaderOK(y, u)
  BY <1>1, <1>2, <1>3, <1>4 DEF ReaderOK
<1>6. QED
  BY <1>1, <1>5 DEF y

\* What is known of the cells before a reader.
LEMMA AheadIs ==
  ASSUME NEW x \in ReaderType, NEW t, ReaderOK(x, t)
  PROVE  /\ x.ahead \in Seq(Ahead) /\ Len(x.ahead) \in Nat /\ DOMAIN x.ahead = 1 .. Len(x.ahead)
         /\ Distinct(x.ahead)
         /\ \A n \in DOMAIN x.ahead :
              /\ x.ahead[n] \in Ahead /\ x.ahead[n].key \in Keys
              /\ x.ahead[n].value \in Values[x.ahead[n].key] /\ x.ahead[n].value # NotFound
              /\ x.ahead[n] = [key |-> x.ahead[n].key, value |-> x.ahead[n].value, gone |-> x.ahead[n].gone]
              /\ ~x.ahead[n].gone => x.ahead[n].value = Content(t, x.ahead[n].key)
              /\ x.ahead[n].key = x.key => x.ahead[n].value \in x.seen
         /\ x.pc # "idle" => x.key \in Keys
<1>1. x.ahead \in Seq(Ahead)
  BY DEF ReaderType
<1>2. Len(x.ahead) \in Nat /\ DOMAIN x.ahead = 1 .. Len(x.ahead)
  BY <1>1, LenProperties
<1>3. ASSUME NEW n \in DOMAIN x.ahead
      PROVE  /\ x.ahead[n] \in Ahead /\ x.ahead[n].key \in Keys
             /\ x.ahead[n].value \in Values[x.ahead[n].key] /\ x.ahead[n].value # NotFound
             /\ x.ahead[n] = [key |-> x.ahead[n].key, value |-> x.ahead[n].value, gone |-> x.ahead[n].gone]
  <2>1. x.ahead[n] \in Ahead
    BY <1>1, <1>2, ElementOfSeq
  <2>2. x.ahead[n].key \in Keys /\ x.ahead[n].value \in Values[x.ahead[n].key]
    BY <2>1 DEF Ahead
  <2>3. x.ahead[n] = [key |-> x.ahead[n].key, value |-> x.ahead[n].value, gone |-> x.ahead[n].gone]
    BY <2>1 DEF Ahead
  <2>4. QED
    BY <2>1, <2>2, <2>3, HashAssumption
<1>4. QED
  BY <1>1, <1>2, <1>3 DEF ReaderOK

\* A cell as it is before a reader.
LEMMA AheadType ==
  ASSUME NEW k \in Keys, NEW v \in Values[k], NEW g \in BOOLEAN
  PROVE  [key |-> k, value |-> v, gone |-> g] \in Ahead
<1>1. v \in AllValues
  BY DEF AllValues
<1>2. QED
  BY <1>1 DEF Ahead

\* A cell that is gone is as it was.
LEMMA GoneCell ==
  ASSUME NEW e \in Ahead, NEW d, d = [e EXCEPT !.gone = TRUE]
  PROVE  d \in Ahead /\ d.key = e.key /\ d.value = e.value /\ d.gone = TRUE
  BY DEF Ahead

\* The value of a key is replaced: the reader sees it in the cell.
LEMMA FollowsStore ==
  ASSUME NEW x \in ReaderType, NEW t, NEW len \in Nat, GoodTable(t, len), ReaderOK(x, t), x.pc # "idle",
         NEW k \in Keys, NEW v \in Values[k], NEW u, Changed(t, u, len, k, v)
  PROVE  /\ Noted(x, AheadStored(x.ahead, k, v), u) \in ReaderType
         /\ ReaderOK(Noted(x, AheadStored(x.ahead, k, v), u), u)
<1> DEFINE a == x.ahead
           s == AheadStored(a, k, v)
<1>1. /\ a \in Seq(Ahead) /\ Len(a) \in Nat /\ DOMAIN a = 1 .. Len(a) /\ Distinct(a)
      /\ \A n \in DOMAIN a :
           /\ a[n] \in Ahead /\ a[n].key \in Keys
           /\ a[n].value \in Values[a[n].key] /\ a[n].value # NotFound
           /\ a[n] = [key |-> a[n].key, value |-> a[n].value, gone |-> a[n].gone]
           /\ ~a[n].gone => a[n].value = Content(t, a[n].key)
           /\ a[n].key = x.key => a[n].value \in x.seen
      /\ x.key \in Keys
  BY AheadIs
<1> HIDE DEF a
<1>2. /\ Content(u, k) = v /\ v # NotFound /\ GoodTable(u, len)
      /\ \A j \in Keys : j # k => Content(u, j) = Content(t, j)
  BY HashAssumption DEF Changed
<1>3. DOMAIN s = DOMAIN a /\ s = [n \in 1 .. Len(a) |-> s[n]]
  BY <1>1 DEF AheadStored
<1>4. ASSUME NEW n \in DOMAIN a
      PROVE  /\ a[n].key = k /\ ~a[n].gone => s[n] = [key |-> k, value |-> v, gone |-> FALSE]
             /\ ~(a[n].key = k /\ ~a[n].gone) => s[n] = a[n]
  <2>1. s[n] = IF a[n].key = k /\ ~a[n].gone THEN [a[n] EXCEPT !.value = v] ELSE a[n]
    BY DEF AheadStored
  <2>2. CASE a[n].key = k /\ ~a[n].gone
    <3>1. a[n] = [key |-> k, value |-> a[n].value, gone |-> a[n].gone] /\ a[n].gone \in BOOLEAN
      BY <1>1, <2>2 DEF Ahead
    <3>2. s[n] = [a[n] EXCEPT !.value = v]
      BY <2>1, <2>2
    <3>3. a[n].gone = FALSE
      BY <2>2, <3>1
    <3>4. QED
      BY <2>2, <3>1, <3>2, <3>3
  <2>3. QED
    BY <2>1, <2>2
<1> HIDE DEF s
<1>5. ASSUME NEW n \in DOMAIN a PROVE s[n] \in Ahead /\ s[n].key = a[n].key
  <2>1. [key |-> k, value |-> v, gone |-> FALSE] \in Ahead
    BY AheadType
  <2>2. QED
    BY <1>1, <1>4, <2>1
<1>6. s \in Seq(Ahead)
  <2>1. s \in [1 .. Len(a) -> Ahead]
    BY <1>1, <1>3, <1>5
  <2>2. QED
    BY <1>1, <2>1, SeqDef
<1>7. Distinct(s) /\ KeysIn(s) = KeysIn(a)
  BY <1>1, <1>3, <1>5 DEF Distinct, KeysIn
<1>8. a = << >> => s = << >>
  <2>1. SUFFICES ASSUME a = << >> PROVE s = << >>
    OBVIOUS
  <2>2. Len(a) = 0
    BY <2>1
  <2>3. DOMAIN s = 1 .. Len(s) /\ Len(s) \in Nat /\ DOMAIN s = {}
    BY <1>1, <1>3, <1>6, <2>2, LenProperties
  <2>4. QED
    BY <1>6, <2>3, EmptySeq
<1>9. ASSUME NEW n \in DOMAIN s, ~s[n].gone PROVE s[n].value = Content(u, s[n].key)
  <2>1. CASE a[n].key = k /\ ~a[n].gone
    <3>1. s[n] = [key |-> k, value |-> v, gone |-> FALSE]
      BY <1>3, <1>4, <2>1
    <3>2. s[n].key = k /\ s[n].value = v
      BY <3>1
    <3>3. QED
      BY <1>2, <3>2
  <2>2. CASE ~(a[n].key = k /\ ~a[n].gone)
    BY <1>1, <1>2, <1>3, <1>4, <1>9, <2>2
  <2>3. QED
    BY <2>1, <2>2
<1>10. ASSUME NEW n \in DOMAIN s, s[n].key = x.key PROVE s[n].value \in x.seen \cup {Content(u, x.key)}
  <2>1. CASE a[n].key = k /\ ~a[n].gone
    <3>1. s[n] = [key |-> k, value |-> v, gone |-> FALSE]
      BY <1>3, <1>4, <2>1
    <3>2. s[n].key = k /\ s[n].value = v
      BY <3>1
    <3>3. QED
      BY <1>2, <1>10, <3>2
  <2>2. CASE ~(a[n].key = k /\ ~a[n].gone)
    BY <1>1, <1>3, <1>4, <1>10, <2>2
  <2>3. QED
    BY <2>1, <2>2
<1>11. Content(u, x.key) \in AllValues \cup {NotFound}
  BY <1>1, <1>2, ContentType
<1>12. /\ \A n \in DOMAIN s : ~s[n].gone => s[n].value = Content(u, s[n].key)
       /\ \A n \in DOMAIN s : s[n].key = x.key => s[n].value \in x.seen \cup {Content(u, x.key)}
       /\ x.ahead = << >> => s = << >>
       /\ x.key \in KeysIn(x.ahead) => x.key \in KeysIn(s)
  BY <1>7, <1>8, <1>9, <1>10 DEF a
<1>13. Noted(x, s, u) \in ReaderType /\ ReaderOK(Noted(x, s, u), u)
  BY <1>6, <1>7, <1>11, <1>12, ReaderFollows
<1>14. QED
  BY <1>13 DEF s, a

\* A new entry is in front of what is before the reader, which keeps its cells: none that is
\* not gone has the new key.
LEMMA FollowsLink ==
  ASSUME NEW x \in ReaderType, NEW t, NEW len \in Nat, GoodTable(t, len), ReaderOK(x, t), x.pc # "idle",
         NEW k \in Keys, k \notin PresentKeys(t), NEW v, NEW u, Changed(t, u, len, k, v)
  PROVE  Noted(x, x.ahead, u) \in ReaderType /\ ReaderOK(Noted(x, x.ahead, u), u)
<1> DEFINE a == x.ahead
<1>1. /\ a \in Seq(Ahead) /\ Distinct(a)
      /\ \A n \in DOMAIN a :
           /\ a[n].key \in Keys /\ a[n].value # NotFound
           /\ ~a[n].gone => a[n].value = Content(t, a[n].key)
           /\ a[n].key = x.key => a[n].value \in x.seen
      /\ x.key \in Keys
  BY AheadIs
<1>2. GoodTable(u, len) /\ \A j \in Keys : j # k => Content(u, j) = Content(t, j)
  BY DEF Changed
<1>3. Content(t, k) = NotFound
  BY ContentType
<1>4. \A n \in DOMAIN a : ~a[n].gone => a[n].value = Content(u, a[n].key)
  BY <1>1, <1>2, <1>3
<1>5. \A n \in DOMAIN a : a[n].key = x.key => a[n].value \in x.seen \cup {Content(u, x.key)}
  BY <1>1
<1>6. Content(u, x.key) \in AllValues \cup {NotFound}
  BY <1>1, <1>2, ContentType
<1> HIDE DEF a
<1>7. (x.ahead = << >> => a = << >>) /\ (x.key \in KeysIn(x.ahead) => x.key \in KeysIn(a))
  BY DEF a
<1>8. Noted(x, a, u) \in ReaderType /\ ReaderOK(Noted(x, a, u), u)
  BY <1>1, <1>4, <1>5, <1>6, <1>7, ReaderFollows
<1>9. QED
  BY <1>8 DEF a

\* The cell of a key is passed over, or is gone and stays before a reader that is at it: the
\* reader sees that the key is removed.
LEMMA FollowsUnlink ==
  ASSUME NEW x \in ReaderType, NEW t, NEW len \in Nat, GoodTable(t, len), ReaderOK(x, t), x.pc # "idle",
         NEW k \in Keys, NEW u, Changed(t, u, len, k, NotFound)
  PROVE  /\ Noted(x, AheadUnlinked(x.ahead, k), u) \in ReaderType
         /\ ReaderOK(Noted(x, AheadUnlinked(x.ahead, k), u), u)
<1> DEFINE a  == x.ahead
           at == {n \in DOMAIN a : a[n].key = k /\ ~a[n].gone}
           p  == CHOOSE n \in at : TRUE
           s  == AheadUnlinked(a, k)
<1>1. /\ a \in Seq(Ahead) /\ Len(a) \in Nat /\ DOMAIN a = 1 .. Len(a) /\ Distinct(a)
      /\ \A n \in DOMAIN a :
           /\ a[n] \in Ahead /\ a[n].key \in Keys
           /\ a[n].value \in Values[a[n].key] /\ a[n].value # NotFound
           /\ a[n] = [key |-> a[n].key, value |-> a[n].value, gone |-> a[n].gone]
           /\ ~a[n].gone => a[n].value = Content(t, a[n].key)
           /\ a[n].key = x.key => a[n].value \in x.seen
      /\ x.key \in Keys
  BY AheadIs
<1>2. /\ Content(u, k) = NotFound /\ GoodTable(u, len)
      /\ \A j \in Keys : j # k => Content(u, j) = Content(t, j)
  BY DEF Changed
<1>3. Content(u, x.key) \in AllValues \cup {NotFound}
  BY <1>1, <1>2, ContentType
<1>4. s = IF at = {} THEN a
          ELSE IF p = 1 \/ a[p - 1].gone THEN [a EXCEPT ![p].gone = TRUE] ELSE RemoveAt(a, p)
  BY DEF AheadUnlinked
<1>5. x.ahead = a
  OBVIOUS
<1> HIDE DEF a
<1>6. at # {} => p \in DOMAIN a /\ a[p].key = k /\ ~a[p].gone
  OBVIOUS
<1> HIDE DEF p, s
\* what is left before the reader: cells that were there, and the removed one only if it is gone
<1>7. SUFFICES /\ s \in Seq(Ahead) /\ Distinct(s) /\ (a = << >> => s = << >>)
               /\ \A m \in DOMAIN s : \E n \in DOMAIN a :
                    /\ s[m].key = a[n].key /\ s[m].value = a[n].value
                    /\ ~s[m].gone => ~a[n].gone /\ a[n].key # k
               /\ \A n \in DOMAIN a : a[n].key # k => \E m \in DOMAIN s : s[m].key = a[n].key
               /\ (\A n \in DOMAIN a : a[n].key = k => a[n].gone) => s = a
  <2>1. \A n \in DOMAIN s : ~s[n].gone => s[n].value = Content(u, s[n].key)
    BY <1>1, <1>2, <1>7
  <2>2. \A n \in DOMAIN s : s[n].key = x.key => s[n].value \in x.seen \cup {Content(u, x.key)}
    BY <1>1, <1>7
  <2>3. x.key \in KeysIn(x.ahead) => x.key \in KeysIn(s) \/ Content(u, x.key) = NotFound
    <3>1. SUFFICES ASSUME x.key \in KeysIn(a), x.key # k PROVE x.key \in KeysIn(s)
      BY <1>2, <1>5
    <3>2. PICK n \in DOMAIN a : a[n].key = x.key
      BY <3>1 DEF KeysIn
    <3>3. PICK m \in DOMAIN s : s[m].key = x.key
      BY <1>7, <3>1, <3>2
    <3>4. QED
      BY <3>3 DEF KeysIn
  <2>4. Noted(x, s, u) \in ReaderType /\ ReaderOK(Noted(x, s, u), u)
    BY <1>3, <1>5, <1>7, <2>1, <2>2, <2>3, ReaderFollows
  <2>5. QED
    BY <1>5, <2>4 DEF s
<1>8. CASE at = {}
  <2>1. s = a
    BY <1>4, <1>8
  <2>2. \A n \in DOMAIN a : ~a[n].gone => a[n].key # k
    BY <1>8
  <2>3. QED
    BY <1>1, <2>1, <2>2
<1>9. CASE at # {} /\ (p = 1 \/ a[p - 1].gone)
  <2>1. s = [a EXCEPT ![p].gone = TRUE] /\ p \in DOMAIN a /\ a[p].key = k /\ ~a[p].gone
    BY <1>4, <1>6, <1>9
  <2>2. DOMAIN s = DOMAIN a /\ \A n \in DOMAIN a : n # p => s[n] = a[n]
    BY <2>1
  <2>3. s[p] = [a[p] EXCEPT !.gone = TRUE]
    BY <2>1
  <2>4. s[p] \in Ahead /\ s[p].key = a[p].key /\ s[p].value = a[p].value /\ s[p].gone = TRUE
    <3>1. a[p] \in Ahead
      BY <1>1, <2>1
    <3>2. QED
      BY <2>3, <3>1, GoneCell
  <2>5. s \in Seq(Ahead)
    <3>1. s[p] \in Ahead
      BY <2>4
    <3>2. s = [n \in 1 .. Len(a) |-> s[n]]
      BY <1>1, <2>1
    <3>3. s \in [1 .. Len(a) -> Ahead]
      BY <1>1, <2>2, <3>1, <3>2
    <3>4. QED
      BY <1>1, <3>3, SeqDef
  <2>6. \A n \in DOMAIN a : s[n].key = a[n].key /\ s[n].value = a[n].value
    BY <2>1, <2>2, <2>4
  <2>7. Distinct(s)
    BY <1>1, <2>2, <2>6 DEF Distinct
  <2>8. \A n \in DOMAIN a : ~s[n].gone => ~a[n].gone /\ a[n].key # k
    <3>1. SUFFICES ASSUME NEW n \in DOMAIN a, ~s[n].gone PROVE ~a[n].gone /\ a[n].key # k
      OBVIOUS
    <3>2. n # p
      BY <2>4, <3>1
    <3>3. a[n].key # a[p].key
      BY <1>1, <2>1, <3>2 DEF Distinct
    <3>4. QED
      BY <2>1, <2>2, <3>1, <3>2, <3>3
  <2>9. a # << >>
    BY <2>1
  <2>10. \A m \in DOMAIN s : \E n \in DOMAIN a :
           /\ s[m].key = a[n].key /\ s[m].value = a[n].value
           /\ ~s[m].gone => ~a[n].gone /\ a[n].key # k
    BY <2>2, <2>6, <2>8
  <2>11. \A n \in DOMAIN a : a[n].key # k => \E m \in DOMAIN s : s[m].key = a[n].key
    BY <2>2, <2>6
  <2>12. QED
    BY <2>1, <2>5, <2>7, <2>9, <2>10, <2>11
<1>10. CASE at # {} /\ ~(p = 1 \/ a[p - 1].gone)
  <2>1. s = RemoveAt(a, p) /\ p \in DOMAIN a /\ a[p].key = k /\ ~a[p].gone
    BY <1>4, <1>6, <1>10
  <2>2. /\ s \in Seq(Ahead) /\ DOMAIN s = 1 .. Len(a) - 1
        /\ \A n \in DOMAIN a : n < p => n \in DOMAIN s /\ s[n] = a[n]
        /\ \A n \in DOMAIN a : n > p => n - 1 \in DOMAIN s /\ s[n - 1] = a[n]
        /\ \A m \in DOMAIN s : \/ m < p /\ m \in DOMAIN a /\ s[m] = a[m]
                               \/ m >= p /\ m + 1 \in DOMAIN a /\ s[m] = a[m + 1]
    <3> DEFINE c == RemoveAt(a, p)
    <3>1. a \in Seq(Ahead) /\ p \in DOMAIN a
      BY <1>1, <2>1
    <3>2. /\ c \in Seq(Ahead) /\ DOMAIN c = 1 .. Len(a) - 1
          /\ \A n \in DOMAIN a : n < p => n \in DOMAIN c /\ c[n] = a[n]
          /\ \A n \in DOMAIN a : n > p => n - 1 \in DOMAIN c /\ c[n - 1] = a[n]
          /\ \A m \in DOMAIN c : \/ m < p /\ m \in DOMAIN a /\ c[m] = a[m]
                                 \/ m >= p /\ m + 1 \in DOMAIN a /\ c[m] = a[m + 1]
      BY <3>1, RemoveAtIs
    <3>3. s = c
      BY <2>1
    <3> HIDE DEF c
    <3>4. QED
      BY <3>2, <3>3
  <2>3. ASSUME NEW m \in DOMAIN s
        PROVE  \E n \in DOMAIN a : n # p /\ s[m] = a[n] /\ n = IF m < p THEN m ELSE m + 1
    <3>1. m \in Int /\ p \in Int
      BY <1>1, <2>1, <2>2
    <3>2. QED
      BY <2>2, <3>1
  <2>4. ASSUME NEW n \in DOMAIN a, a[n].key # k PROVE \E m \in DOMAIN s : s[m] = a[n]
    <3>1. n < p \/ n > p
      BY <1>1, <2>1, <2>4
    <3>2. QED
      BY <2>2, <3>1
  <2>5. Distinct(s)
    <3>1. SUFFICES ASSUME NEW m \in DOMAIN s, NEW n \in DOMAIN s, s[m].key = s[n].key PROVE m = n
      BY DEF Distinct
    <3>2. PICK i \in DOMAIN a : s[m] = a[i] /\ i = IF m < p THEN m ELSE m + 1
      BY <2>3
    <3>3. PICK j \in DOMAIN a : s[n] = a[j] /\ j = IF n < p THEN n ELSE n + 1
      BY <2>3
    <3>4. i = j
      BY <1>1, <3>1, <3>2, <3>3 DEF Distinct
    <3>5. m \in Int /\ n \in Int /\ p \in Int
      BY <1>1, <2>1, <2>2
    <3>6. QED
      BY <3>2, <3>3, <3>4, <3>5
  <2>6. ASSUME NEW m \in DOMAIN s
        PROVE  \E n \in DOMAIN a : s[m] = a[n] /\ a[n].key # k
    <3>1. PICK n \in DOMAIN a : n # p /\ s[m] = a[n]
      BY <2>3
    <3>2. a[n].key # a[p].key
      BY <1>1, <2>1, <3>1 DEF Distinct
    <3>3. QED
      BY <2>1, <3>1, <3>2
  <2>7. a # << >>
    BY <2>1
  <2>8. \A m \in DOMAIN s : \E n \in DOMAIN a :
          /\ s[m].key = a[n].key /\ s[m].value = a[n].value
          /\ ~s[m].gone => ~a[n].gone /\ a[n].key # k
    BY <2>6
  <2>9. \A n \in DOMAIN a : a[n].key # k => \E m \in DOMAIN s : s[m].key = a[n].key
    BY <2>4
  <2>10. QED
    BY <2>1, <2>2, <2>5, <2>7, <2>8, <2>9
<1>11. QED
  BY <1>8, <1>9, <1>10

\* enlarge and shrink leave a reader with the cells of the old table.
LEMMA FollowsRehash ==
  ASSUME NEW x \in ReaderType, NEW t, ReaderOK(x, t), x.pc # "idle", NEW u, NEW len \in Nat, GoodTable(u, len)
  PROVE  /\ Noted(x, AheadLeft(x.ahead), u) \in ReaderType
         /\ ReaderOK(Noted(x, AheadLeft(x.ahead), u), u)
<1> DEFINE a == x.ahead
           s == AheadLeft(a)
<1>1. /\ a \in Seq(Ahead) /\ Len(a) \in Nat /\ DOMAIN a = 1 .. Len(a) /\ Distinct(a)
      /\ \A n \in DOMAIN a :
           /\ a[n] \in Ahead /\ a[n].key \in Keys
           /\ a[n].value \in Values[a[n].key] /\ a[n].value # NotFound
           /\ a[n] = [key |-> a[n].key, value |-> a[n].value, gone |-> a[n].gone]
           /\ a[n].key = x.key => a[n].value \in x.seen
      /\ x.key \in Keys
  BY AheadIs
<1>2. x.ahead = a
  OBVIOUS
<1> HIDE DEF a
<1>3. DOMAIN s = DOMAIN a /\ s = [n \in 1 .. Len(a) |-> s[n]]
  BY <1>1 DEF AheadLeft
<1>4. ASSUME NEW n \in DOMAIN a
      PROVE  /\ s[n].key = a[n].key /\ s[n].value = a[n].value /\ s[n].gone = TRUE
             /\ s[n] \in Ahead
  <2>1. s[n] = [a[n] EXCEPT !.gone = TRUE]
    BY DEF AheadLeft
  <2>2. a[n] \in Ahead
    BY <1>1
  <2>3. QED
    BY <2>1, <2>2, GoneCell
<1>5. s \in Seq(Ahead)
  <2>1. s \in [1 .. Len(a) -> Ahead]
    BY <1>1, <1>3, <1>4
  <2>2. QED
    BY <1>1, <2>1, SeqDef
<1>6. a = << >> => s = << >>
  <2>1. SUFFICES ASSUME a = << >> PROVE s = << >>
    OBVIOUS
  <2>2. Len(a) = 0
    BY <2>1
  <2>3. DOMAIN s = 1 .. Len(s) /\ Len(s) \in Nat /\ DOMAIN s = {}
    BY <1>1, <1>3, <1>5, <2>2, LenProperties
  <2>4. QED
    BY <1>5, <2>3, EmptySeq
<1> HIDE DEF s
<1>7. \A n \in DOMAIN a : s[n].key = a[n].key /\ s[n].value = a[n].value /\ s[n].gone = TRUE
  BY <1>4
<1>8. Distinct(s) /\ KeysIn(s) = KeysIn(a)
  BY <1>1, <1>3, <1>7 DEF Distinct, KeysIn
<1>9. /\ \A n \in DOMAIN s : ~s[n].gone => s[n].value = Content(u, s[n].key)
      /\ \A n \in DOMAIN s : s[n].key = x.key => s[n].value \in x.seen \cup {Content(u, x.key)}
  BY <1>1, <1>3, <1>7
<1>10. Content(u, x.key) \in AllValues \cup {NotFound}
  BY <1>1, ContentType
<1>11. Noted(x, s, u) \in ReaderType /\ ReaderOK(Noted(x, s, u), u)
  BY <1>2, <1>5, <1>6, <1>8, <1>9, <1>10, ReaderFollows
<1>12. QED
  BY <1>2, <1>11 DEF s

-----------------------------------------------------------------------------
(* The invariant, before and after a step of a writer.                      *)

WriterType ==
  [pc : {"idle", "link", "count", "unlink", "shrink", "unlock"},
   key : Keys \cup {NotFound}, value : AllValues \cup {NotFound}]

\* A writer is about to change the number of buckets.
Pending == \E w \in Writers : writer[w].pc \in {"link", "shrink"}

\* What the invariant says, put together.
LEMMA Now ==
  ASSUME IInv
  PROVE  /\ Size \in Nat /\ Size >= 4 /\ GoodTable(table, Size)
         /\ \A k \in Keys : Present(k) <=> k \in PresentKeys(table)
         /\ IsFiniteSet(PresentKeys(table)) /\ Cardinality(PresentKeys(table)) \in Nat
         /\ numEntries \in Nat
         /\ numEntries = Cardinality(PresentKeys(table)) - IF Between THEN 1 ELSE 0
         /\ 4 * Cardinality(PresentKeys(table)) <= 3 * Size
         /\ Size = MinLength \/ 8 * Cardinality(PresentKeys(table)) > 3 * Size \/ Pending
<1>1. /\ IsLength(Size) /\ Size \in Nat /\ Size >= 4
      /\ table \in [0 .. Size - 1 -> Seq(Entries)] /\ numEntries \in Nat
  BY DEF IInv, StateInv, IsLength, MinLength
<1>2. GoodTable(table, Size)
  <2>1. DOMAIN table = 0 .. Size - 1 /\ table = [h \in 0 .. Size - 1 |-> table[h]]
    BY <1>1
  <2>2. ASSUME NEW h \in 0 .. Size - 1 PROVE GoodBucket(table[h], h, Size)
    <3>1. table[h] \in Seq(Entries)
      BY <1>1
    <3>2. Distinct(table[h]) /\ \A k \in KeysIn(table[h]) : Index(k, Size) = h
      BY <2>1 DEF IInv, EachKeyInItsBucket
    <3>3. QED
      BY <3>1, <3>2 DEF GoodBucket
  <2>3. QED
    BY <1>1, <2>1, <2>2 DEF GoodTable
<1>3. \A k \in Keys : Present(k) <=> k \in PresentKeys(table)
  BY <1>1, <1>2, ContentType DEF Present
<1>4. IsFiniteSet(PresentKeys(table)) /\ Cardinality(PresentKeys(table)) \in Nat
  BY <1>1, <1>2, PresentFinite
<1>5. numEntries = Cardinality(PresentKeys(table)) - IF Between THEN 1 ELSE 0
  BY DEF IInv, CountTruthful, KeysPresent, PresentKeys
<1>6. /\ 4 * (numEntries + IF Between THEN 1 ELSE 0) <= 3 * Size
      /\ Size = MinLength \/ 8 * (numEntries + IF Between THEN 1 ELSE 0) > 3 * Size \/ Pending
  BY DEF IInv, SizeInv, Pending
<1>7. numEntries + (IF Between THEN 1 ELSE 0) = Cardinality(PresentKeys(table))
  BY <1>1, <1>4, <1>5
<1>8. QED
  BY <1>1, <1>2, <1>3, <1>4, <1>5, <1>6, <1>7

\* Who has the lock, or can take it, is the only writer in the middle of a call.
LEMMA Alone ==
  ASSUME WriterInv, NEW w \in Writers, lock = NoThread \/ lock = w
  PROVE  /\ \A v \in Writers : v # w => writer[v].pc = "idle"
         /\ Between <=> writer[w].pc \in {"count", "unlink"}
         /\ Pending <=> writer[w].pc \in {"link", "shrink"}
         /\ lock = NoThread => writer[w].pc = "idle"
         /\ lock = w => writer[w].pc # "idle"
<1>1. NoThread \notin Writers
  BY HashAssumption
<1>2. \A v \in Writers : writer[v].pc = "idle" <=> lock # v
  BY DEF WriterInv
<1>3. \A v \in Writers : v # w => writer[v].pc = "idle"
  BY <1>1, <1>2
<1>4. Between <=> writer[w].pc \in {"count", "unlink"}
  BY <1>3 DEF Between
<1>5. Pending <=> writer[w].pc \in {"link", "shrink"}
  BY <1>3 DEF Pending
<1>6. QED
  BY <1>1, <1>2, <1>3, <1>4, <1>5

\* What is left to show of a step of a writer that has the lock then.
LEMMA StepKeeps ==
  ASSUME StateInv, WriterInv, NEW w \in Writers, lock = NoThread \/ lock = w, lock' = w,
         NEW x \in WriterType, x.pc # "idle", writer' = [writer EXCEPT ![w] = x],
         NEW len \in Nat, GoodTable(table', len),
         reader' \in [Readers -> ReaderType], ReaderInv',
         numEntries' \in Nat,
         numEntries' = Cardinality(PresentKeys(table')) - IF x.pc \in {"count", "unlink"} THEN 1 ELSE 0,
         4 * Cardinality(PresentKeys(table')) <= 3 * len,
         len = MinLength \/ 8 * Cardinality(PresentKeys(table')) > 3 * len \/ x.pc \in {"link", "shrink"},
         x.pc = "link" => x.key \in Keys /\ x.value \in Values[x.key] /\ x.key \notin PresentKeys(table')
                          /\ 8 * numEntries' = 3 * len,
         x.pc = "unlink" => x.key \in Keys /\ x.key \in PresentKeys(table'),
         x.pc = "shrink" => 8 * numEntries' = 3 * len /\ len > MinLength
  PROVE  IInv'
<1> DEFINE N == Cardinality(PresentKeys(table'))
<1>1. /\ IsLength(len) /\ DOMAIN table' = 0 .. len - 1 /\ table' = [h \in 0 .. len - 1 |-> table'[h]]
      /\ \A h \in 0 .. len - 1 : GoodBucket(table'[h], h, len)
  BY DEF GoodTable
<1>2. Size' = len
  BY <1>1, TableLength DEF Size
<1>3. writer \in [Writers -> WriterType]
  BY DEF StateInv, WriterType
<1>4. writer' \in [Writers -> WriterType] /\ writer'[w] = x /\ \A v \in Writers : v # w => writer'[v] = writer[v]
  BY <1>3
<1>5. \A v \in Writers : v # w => writer'[v].pc = "idle"
  BY <1>4, Alone
<1>6. Between' <=> x.pc \in {"count", "unlink"}
  BY <1>4, <1>5 DEF Between
<1>7. (\E v \in Writers : writer[v].pc \in {"link", "shrink"})' <=> x.pc \in {"link", "shrink"}
  BY <1>4, <1>5
<1>8. table' \in [0 .. len - 1 -> Seq(Entries)]
  BY <1>1 DEF GoodBucket
<1>9. StateInv'
  BY <1>1, <1>2, <1>4, <1>8 DEF StateInv, WriterType, ReaderType
<1>10. EachKeyInItsBucket'
  BY <1>1, <1>2 DEF EachKeyInItsBucket, GoodBucket
<1>11. KeysPresent' = PresentKeys(table')
  BY DEF KeysPresent, PresentKeys
<1>12. N \in Nat
  BY PresentFinite
<1> HIDE DEF N
<1>13. numEntries' = N - IF Between' THEN 1 ELSE 0
  BY <1>6 DEF N
<1>14. CountTruthful'
  BY <1>11, <1>13 DEF CountTruthful, N
<1>15. numEntries' + (IF Between' THEN 1 ELSE 0) = N
  BY <1>12, <1>13
<1>16. SizeInv'
  BY <1>2, <1>7, <1>15 DEF SizeInv, N
<1>17. \A k \in Keys : Present(k)' <=> k \in PresentKeys(table')
  <2>1. ASSUME NEW k \in Keys PROVE k \in PresentKeys(table') <=> k \in KeysIn(table'[Index(k, len)])
    BY ContentType
  <2>2. QED
    BY <1>2, <2>1 DEF Present
<1>18. WriterInv'
  <2>1. ASSUME NEW v \in Writers, v # w
        PROVE  writer'[v].pc = "idle" /\ lock' # v
    BY <1>5, <2>1
  <2>2. writer'[w].pc # "idle" /\ lock' = w
    BY <1>4
  <2>3. /\ x.pc = "link" => x.key \in Keys /\ x.value \in Values[x.key] /\ ~Present(x.key)'
                            /\ 8 * numEntries' = 3 * Size'
        /\ x.pc = "unlink" => x.key \in Keys /\ Present(x.key)'
        /\ x.pc = "shrink" => 8 * numEntries' = 3 * Size' /\ Size' > MinLength
    BY <1>2, <1>17
  <2>4. QED
    BY <1>4, <2>1, <2>2, <2>3 DEF WriterInv, Present, Size
<1>19. QED
  BY <1>9, <1>10, <1>14, <1>16, <1>18 DEF IInv

\* The readers after a write.
LEMMA ReadersFollow ==
  ASSUME StateInv, ReaderInv, NEW f,
         reader' = [r \in Readers |-> IF reader[r].pc = "idle" THEN reader[r] ELSE Noted(reader[r], f[r], table')],
         \A r \in Readers : reader[r].pc # "idle" =>
            Noted(reader[r], f[r], table') \in ReaderType /\ ReaderOK(Noted(reader[r], f[r], table'), table')
  PROVE  reader' \in [Readers -> ReaderType] /\ ReaderInv'
<1>1. reader \in [Readers -> ReaderType]
  BY DEF StateInv, ReaderType
<1>2. reader' \in [Readers -> ReaderType]
  BY <1>1
<1>3. ASSUME NEW r \in Readers PROVE ReaderOK(reader'[r], table')
  <2>1. CASE reader[r].pc = "idle"
    <3>1. reader'[r] = reader[r] /\ ReaderOK(reader[r], table)
      BY <2>1 DEF ReaderInv
    <3>2. reader[r].ahead = << >>
      BY <2>1, <3>1 DEF ReaderOK
    <3>3. QED
      BY <2>1, <3>1, <3>2 DEF ReaderOK
  <2>2. CASE reader[r].pc # "idle"
    BY <2>2
  <2>3. QED
    BY <2>1, <2>2
<1>4. QED
  BY <1>2, <1>3 DEF ReaderInv

\* A step that leaves the table and the readers.
LEMMA ReadersStay ==
  ASSUME StateInv, ReaderInv, UNCHANGED <<table, reader>>
  PROVE  reader' \in [Readers -> ReaderType] /\ ReaderInv'
<1>1. reader' \in [Readers -> ReaderType]
  BY DEF StateInv, ReaderType
<1>2. ReaderInv'
  BY DEF ReaderInv
<1>3. QED
  BY <1>1, <1>2

-----------------------------------------------------------------------------
(* One step of a writer.                                                    *)

\* Where a writer goes.
LEMMA WriterGoes ==
  ASSUME NEW pc \in {"idle", "link", "count", "unlink", "shrink", "unlock"},
         NEW k \in Keys \cup {NotFound}, NEW v \in AllValues \cup {NotFound}
  PROVE  /\ [pc |-> pc, key |-> k, value |-> v] \in WriterType
         /\ [Idle EXCEPT !.pc = pc] = [pc |-> pc, key |-> NotFound, value |-> NotFound]
         /\ [Idle EXCEPT !.pc = pc] \in WriterType
  BY DEF WriterType, Idle

\* storeInHashTable puts another value under a key.
LEMMA StoreValueStep ==
  ASSUME IInv, NEW w \in Writers, NEW k \in Keys, NEW v \in Values[k], StoreValue(w, k, v)
  PROVE  IInv'
<1> DEFINE x == [Idle EXCEPT !.pc = "unlock"]
           f == [r \in Readers |-> AheadStored(reader[r].ahead, k, v)]
           N == Cardinality(PresentKeys(table))
<1>1. /\ Size \in Nat /\ GoodTable(table, Size) /\ k \in PresentKeys(table)
      /\ N \in Nat /\ numEntries \in Nat /\ lock = NoThread /\ lock' = w /\ numEntries' = numEntries
      /\ StateInv /\ WriterInv /\ ReaderInv
  BY Now DEF StoreValue, Lock, IInv
<1>2. /\ ~Between /\ ~Pending
  BY <1>1, Alone
<1>3. numEntries = N /\ 4 * N <= 3 * Size /\ (Size = MinLength \/ 8 * N > 3 * Size)
  BY <1>1, <1>2, Now
<1>4. table' = [table EXCEPT ![Index(k, Size)] = BucketStored(table[Index(k, Size)], k, v)]
  BY DEF StoreValue, Write
<1>5. Changed(table, table', Size, k, v)
  BY <1>1, <1>4, StoreChanges
<1>6. GoodTable(table', Size) /\ PresentKeys(table') = PresentKeys(table)
  BY <1>1, <1>5, HashAssumption DEF Changed
<1>7. reader' = [r \in Readers |-> IF reader[r].pc = "idle" THEN reader[r] ELSE Noted(reader[r], f[r], table')]
  BY DEF StoreValue, Write, Noted
<1>8. ASSUME NEW r \in Readers, reader[r].pc # "idle"
      PROVE  Noted(reader[r], f[r], table') \in ReaderType /\ ReaderOK(Noted(reader[r], f[r], table'), table')
  <2>1. reader[r] \in ReaderType /\ ReaderOK(reader[r], table)
    BY <1>1 DEF StateInv, ReaderType, ReaderInv
  <2>2. f[r] = AheadStored(reader[r].ahead, k, v)
    OBVIOUS
  <2> HIDE DEF f
  <2>3. QED
    BY <1>1, <1>5, <1>8, <2>1, <2>2, FollowsStore
<1> HIDE DEF f
<1>9. reader' \in [Readers -> ReaderType] /\ ReaderInv'
  BY <1>1, <1>7, <1>8, ReadersFollow
<1>10. writer' = [writer EXCEPT ![w] = x] /\ x.pc = "unlock" /\ x \in WriterType
  BY WriterGoes DEF StoreValue, Goto, Idle
<1> HIDE DEF x, N
<1>11. numEntries' = Cardinality(PresentKeys(table')) - IF x.pc \in {"count", "unlink"} THEN 1 ELSE 0
  BY <1>1, <1>3, <1>6, <1>10 DEF N
<1>12. /\ 4 * Cardinality(PresentKeys(table')) <= 3 * Size
       /\ Size = MinLength \/ 8 * Cardinality(PresentKeys(table')) > 3 * Size
  BY <1>3, <1>6 DEF N
<1>13. QED
  BY <1>1, <1>6, <1>9, <1>10, <1>11, <1>12, StepKeeps

\* The table is full and grows.
LEMMA EnlargeStep ==
  ASSUME IInv, NEW w \in Writers, NEW k \in Keys, NEW v \in Values[k], Enlarge(w, k, v)
  PROVE  IInv'
<1> DEFINE x == [pc |-> "link", key |-> k, value |-> v]
           f == [r \in Readers |-> AheadLeft(reader[r].ahead)]
           N == Cardinality(PresentKeys(table))
           new == 2 * Size
<1>1. /\ Size \in Nat /\ GoodTable(table, Size) /\ k \notin PresentKeys(table)
      /\ N \in Nat /\ numEntries \in Nat /\ lock = NoThread /\ lock' = w /\ numEntries' = numEntries
      /\ StateInv /\ WriterInv /\ ReaderInv
  BY Now DEF Enlarge, Lock, IInv
<1>2. /\ ~Between /\ ~Pending
  BY <1>1, Alone
<1>3. numEntries = N /\ 4 * N = 3 * Size
  BY <1>1, <1>2, Now DEF Enlarge, Full
<1>4. new \in Nat /\ IsLength(new)
  BY <1>1, LengthDoubled DEF GoodTable
<1>5. table' = Rehashed(new)
  BY DEF Enlarge, Write
<1>6. GoodTable(table', new) /\ PresentKeys(table') = PresentKeys(table)
  BY <1>1, <1>4, <1>5, RehashKeeps
<1>7. reader' = [r \in Readers |-> IF reader[r].pc = "idle" THEN reader[r] ELSE Noted(reader[r], f[r], table')]
  BY DEF Enlarge, Write, Noted
<1>8. ASSUME NEW r \in Readers, reader[r].pc # "idle"
      PROVE  Noted(reader[r], f[r], table') \in ReaderType /\ ReaderOK(Noted(reader[r], f[r], table'), table')
  <2>1. reader[r] \in ReaderType /\ ReaderOK(reader[r], table)
    BY <1>1 DEF StateInv, ReaderType, ReaderInv
  <2>2. f[r] = AheadLeft(reader[r].ahead)
    OBVIOUS
  <2> HIDE DEF f, new
  <2>3. QED
    BY <1>4, <1>6, <1>8, <2>1, <2>2, FollowsRehash
<1> HIDE DEF f
<1>9. reader' \in [Readers -> ReaderType] /\ ReaderInv'
  BY <1>1, <1>7, <1>8, ReadersFollow
<1>10. writer' = [writer EXCEPT ![w] = x] /\ x.pc = "link" /\ x.key = k /\ x.value = v /\ x \in WriterType
  BY WriterGoes DEF Enlarge, GotoWith, AllValues
<1> HIDE DEF x
<1>11. /\ numEntries' = Cardinality(PresentKeys(table')) - IF x.pc \in {"count", "unlink"} THEN 1 ELSE 0
       /\ 4 * Cardinality(PresentKeys(table')) <= 3 * new
       /\ 8 * numEntries' = 3 * new
  BY <1>1, <1>3, <1>6, <1>10
<1> HIDE DEF N, new
<1>12. QED
  BY <1>1, <1>4, <1>6, <1>9, <1>10, <1>11, StepKeeps

\* A new entry, linked by a writer that has the lock then.
LEMMA LinkEntryStep ==
  ASSUME IInv, NEW w \in Writers, lock = NoThread \/ lock = w, lock' = w,
         NEW k \in Keys, NEW v \in Values[k], LinkEntry(w, k, v),
         k \notin PresentKeys(table), ~Between, 4 * numEntries < 3 * Size,
         Size = MinLength \/ 8 * numEntries >= 3 * Size
  PROVE  IInv'
<1> DEFINE x == [Idle EXCEPT !.pc = "count"]
           f == [r \in Readers |-> reader[r].ahead]
           N == Cardinality(PresentKeys(table))
<1>1. /\ Size \in Nat /\ GoodTable(table, Size)
      /\ N \in Nat /\ numEntries \in Nat /\ numEntries' = numEntries
      /\ StateInv /\ WriterInv /\ ReaderInv
  BY Now DEF LinkEntry, IInv
<1>2. numEntries = N /\ 4 * N < 3 * Size
  BY <1>1, Now
<1>3. 4 * (N + 1) <= 3 * Size
  <2>1. PICK m \in Nat : Size = 4 * m
    BY <1>1, LengthFactors DEF GoodTable
  <2>2. QED
    BY <1>1, <1>2, <2>1
<1>4. table' = [table EXCEPT ![Index(k, Size)] = <<[key |-> k, value |-> v]>> \o table[Index(k, Size)]]
  BY DEF LinkEntry, Write, Linked
<1>5. Changed(table, table', Size, k, v)
  BY <1>1, <1>4, LinkChanges
<1>6. GoodTable(table', Size) /\ PresentKeys(table') = PresentKeys(table) \cup {k}
  BY <1>1, <1>5, HashAssumption DEF Changed
<1>7. Cardinality(PresentKeys(table')) = N + 1
  <2> DEFINE P == PresentKeys(table)
  <2>1. IsFiniteSet(P) /\ k \notin P
    BY Now
  <2> HIDE DEF P
  <2>2. Cardinality(P \cup {k}) = Cardinality(P) + 1
    BY <2>1, FS_AddElement
  <2>3. QED
    BY <1>6, <2>2 DEF P
<1>8. reader' = [r \in Readers |-> IF reader[r].pc = "idle" THEN reader[r] ELSE Noted(reader[r], f[r], table')]
  BY DEF LinkEntry, Linked, Write, Noted
<1>9. ASSUME NEW r \in Readers, reader[r].pc # "idle"
      PROVE  Noted(reader[r], f[r], table') \in ReaderType /\ ReaderOK(Noted(reader[r], f[r], table'), table')
  <2>1. reader[r] \in ReaderType /\ ReaderOK(reader[r], table)
    BY <1>1 DEF StateInv, ReaderType, ReaderInv
  <2>2. f[r] = reader[r].ahead
    OBVIOUS
  <2> HIDE DEF f
  <2>3. QED
    BY <1>1, <1>5, <1>9, <2>1, <2>2, FollowsLink
<1> HIDE DEF f
<1>10. reader' \in [Readers -> ReaderType] /\ ReaderInv'
  BY <1>1, <1>8, <1>9, ReadersFollow
<1>11. writer' = [writer EXCEPT ![w] = x] /\ x.pc = "count" /\ x \in WriterType
  BY WriterGoes DEF LinkEntry, Goto, Idle
<1> HIDE DEF x, N
<1>12. /\ numEntries' = Cardinality(PresentKeys(table')) - IF x.pc \in {"count", "unlink"} THEN 1 ELSE 0
       /\ 4 * Cardinality(PresentKeys(table')) <= 3 * Size
       /\ Size = MinLength \/ 8 * Cardinality(PresentKeys(table')) > 3 * Size
  BY <1>1, <1>2, <1>3, <1>7, <1>11
<1>13. numEntries' \in Nat
  BY <1>1
<1>14. QED
  BY <1>1, <1>6, <1>10, <1>11, <1>12, <1>13, StepKeeps

\* At once,
LEMMA LinkStep ==
  ASSUME IInv, NEW w \in Writers, NEW k \in Keys, NEW v \in Values[k], Link(w, k, v)
  PROVE  IInv'
<1>1. lock = NoThread /\ lock' = w /\ k \notin PresentKeys(table) /\ ~Full /\ LinkEntry(w, k, v)
  BY Now DEF Link, Lock
<1>2. ~Between /\ ~Pending
  BY <1>1, Alone DEF IInv
<1>3. /\ Size \in Nat /\ numEntries \in Nat /\ Cardinality(PresentKeys(table)) \in Nat
      /\ numEntries = Cardinality(PresentKeys(table)) - IF Between THEN 1 ELSE 0
      /\ 4 * Cardinality(PresentKeys(table)) <= 3 * Size
      /\ Size = MinLength \/ 8 * Cardinality(PresentKeys(table)) > 3 * Size
  BY <1>2, Now
<1>4. 4 * numEntries < 3 * Size /\ (Size = MinLength \/ 8 * numEntries >= 3 * Size)
  BY <1>1, <1>2, <1>3 DEF Full
<1>5. QED
  BY <1>1, <1>2, <1>4, LinkEntryStep

\* or after enlarge.
LEMMA LinkAfterEnlargeStep ==
  ASSUME IInv, NEW w \in Writers, LinkAfterEnlarge(w)
  PROVE  IInv'
<1> DEFINE k == writer[w].key
           v == writer[w].value
<1>1. writer[w].pc = "link" /\ lock' = lock /\ LinkEntry(w, k, v)
  BY DEF LinkAfterEnlarge, Holds
<1>2. /\ lock = w
      /\ k \in Keys /\ v \in Values[k] /\ ~Present(k) /\ 8 * numEntries = 3 * Size
  BY <1>1 DEF IInv, WriterInv
<1>3. k \notin PresentKeys(table) /\ Size \in Nat /\ Size >= 4 /\ numEntries \in Nat
  BY <1>2, Now
<1>4. ~Between
  BY <1>1, <1>2, Alone DEF IInv
<1>5. 4 * numEntries < 3 * Size /\ 8 * numEntries >= 3 * Size
  BY <1>2, <1>3
<1> HIDE DEF k, v
<1>6. QED
  BY <1>1, <1>2, <1>3, <1>4, <1>5, LinkEntryStep

\* The new entry is counted.
LEMMA CountStep ==
  ASSUME IInv, NEW w \in Writers, Count(w)
  PROVE  IInv'
<1> DEFINE x == [Idle EXCEPT !.pc = "unlock"]
           N == Cardinality(PresentKeys(table))
<1>1. /\ Size \in Nat /\ GoodTable(table, Size) /\ N \in Nat /\ numEntries \in Nat
      /\ writer[w].pc = "count" /\ lock' = lock /\ numEntries' = numEntries + 1 /\ UNCHANGED <<table, reader>>
      /\ StateInv /\ WriterInv /\ ReaderInv
  BY Now DEF Count, Holds, IInv
<1>2. lock = w
  BY <1>1 DEF WriterInv
<1>3. Between /\ ~Pending
  BY <1>1, <1>2, Alone
<1>4. numEntries = N - 1 /\ 4 * N <= 3 * Size /\ (Size = MinLength \/ 8 * N > 3 * Size)
  BY <1>1, <1>3, Now
<1>5. reader' \in [Readers -> ReaderType] /\ ReaderInv'
  BY <1>1, ReadersStay
<1>6. writer' = [writer EXCEPT ![w] = x] /\ x.pc = "unlock" /\ x \in WriterType
  BY WriterGoes DEF Count, Goto, Idle
<1>7. GoodTable(table', Size) /\ PresentKeys(table') = PresentKeys(table) /\ table' = table
  BY <1>1
<1> HIDE DEF x, N
<1>8. /\ numEntries' = Cardinality(PresentKeys(table')) - IF x.pc \in {"count", "unlink"} THEN 1 ELSE 0
      /\ 4 * Cardinality(PresentKeys(table')) <= 3 * Size
      /\ Size = MinLength \/ 8 * Cardinality(PresentKeys(table')) > 3 * Size
      /\ numEntries' \in Nat
  BY <1>1, <1>4, <1>6, <1>7 DEF N
<1>9. QED
  BY <1>1, <1>2, <1>5, <1>6, <1>7, <1>8, StepKeeps

\* remove counts an entry off,
LEMMA CountOffStep ==
  ASSUME IInv, NEW w \in Writers, NEW k \in Keys, CountOff(w, k)
  PROVE  IInv'
<1> DEFINE x == [pc |-> "unlink", key |-> k, value |-> NotFound]
           N == Cardinality(PresentKeys(table))
<1>1. /\ Size \in Nat /\ GoodTable(table, Size) /\ N \in Nat /\ numEntries \in Nat /\ k \in PresentKeys(table)
      /\ lock = NoThread /\ lock' = w /\ numEntries' = numEntries - 1 /\ UNCHANGED <<table, reader>>
      /\ StateInv /\ WriterInv /\ ReaderInv
  BY Now DEF CountOff, Lock, IInv
<1>2. ~Between /\ ~Pending
  BY <1>1, Alone
<1>3. numEntries = N /\ 4 * N <= 3 * Size /\ (Size = MinLength \/ 8 * N > 3 * Size)
  BY <1>1, <1>2, Now
<1>4. N # 0
  BY <1>1, Now, FS_EmptySet
<1>5. reader' \in [Readers -> ReaderType] /\ ReaderInv'
  BY <1>1, ReadersStay
<1>6. writer' = [writer EXCEPT ![w] = x] /\ x.pc = "unlink" /\ x.key = k /\ x \in WriterType
  BY WriterGoes DEF CountOff, GotoWith
<1>7. GoodTable(table', Size) /\ PresentKeys(table') = PresentKeys(table) /\ table' = table
  BY <1>1
<1> HIDE DEF x, N
<1>8. /\ numEntries' = Cardinality(PresentKeys(table')) - IF x.pc \in {"count", "unlink"} THEN 1 ELSE 0
      /\ 4 * Cardinality(PresentKeys(table')) <= 3 * Size
      /\ Size = MinLength \/ 8 * Cardinality(PresentKeys(table')) > 3 * Size
      /\ numEntries' \in Nat
  BY <1>1, <1>3, <1>4, <1>6, <1>7 DEF N
<1>9. QED
  BY <1>1, <1>5, <1>6, <1>7, <1>8, StepKeeps

\* and takes it out of its bucket;
LEMMA UnlinkStep ==
  ASSUME IInv, NEW w \in Writers, Unlink(w)
  PROVE  IInv'
<1> DEFINE k == writer[w].key
           pc == IF Sparse THEN "shrink" ELSE "unlock"
           x == [Idle EXCEPT !.pc = pc]
           f == [r \in Readers |-> AheadUnlinked(reader[r].ahead, k)]
           N == Cardinality(PresentKeys(table))
<1>1. /\ Size \in Nat /\ Size >= 4 /\ GoodTable(table, Size) /\ N \in Nat /\ numEntries \in Nat
      /\ writer[w].pc = "unlink" /\ lock' = lock /\ numEntries' = numEntries
      /\ StateInv /\ WriterInv /\ ReaderInv
  BY Now DEF Unlink, Holds, IInv
<1>2. lock = w /\ k \in Keys /\ k \in PresentKeys(table)
  BY <1>1, Now DEF WriterInv
<1>3. Between /\ ~Pending
  BY <1>1, <1>2, Alone
<1>4. numEntries = N - 1 /\ 4 * N <= 3 * Size /\ (Size = MinLength \/ 8 * N > 3 * Size)
  BY <1>1, <1>3, Now
<1>5. table' = [table EXCEPT ![Index(k, Size)] = BucketUnlinked(table[Index(k, Size)], k)]
  BY DEF Unlink, Write
<1> HIDE DEF k
<1>6. Changed(table, table', Size, k, NotFound)
  BY <1>1, <1>2, <1>5, UnlinkChanges
<1>7. GoodTable(table', Size) /\ PresentKeys(table') = PresentKeys(table) \ {k}
  BY <1>6 DEF Changed
<1>8. Cardinality(PresentKeys(table')) = N - 1
  BY <1>2, <1>7, Now, FS_RemoveElement
<1>9. reader' = [r \in Readers |-> IF reader[r].pc = "idle" THEN reader[r] ELSE Noted(reader[r], f[r], table')]
  BY DEF Unlink, Write, Noted, k
<1>10. ASSUME NEW r \in Readers, reader[r].pc # "idle"
       PROVE  Noted(reader[r], f[r], table') \in ReaderType /\ ReaderOK(Noted(reader[r], f[r], table'), table')
  <2>1. reader[r] \in ReaderType /\ ReaderOK(reader[r], table)
    BY <1>1 DEF StateInv, ReaderType, ReaderInv
  <2>2. f[r] = AheadUnlinked(reader[r].ahead, k)
    OBVIOUS
  <2> HIDE DEF f
  <2>3. QED
    BY <1>1, <1>2, <1>6, <1>10, <2>1, <2>2, FollowsUnlink
<1> HIDE DEF f
<1>11. reader' \in [Readers -> ReaderType] /\ ReaderInv'
  BY <1>1, <1>9, <1>10, ReadersFollow
<1>12. writer' = [writer EXCEPT ![w] = x] /\ x.pc = pc /\ x \in WriterType
  BY WriterGoes DEF Unlink, Goto, Idle
<1> HIDE DEF x, N
<1>13. pc = "shrink" => 8 * (N - 1) = 3 * Size /\ Size > MinLength
  BY <1>1, <1>4 DEF Sparse
<1>14. Size = MinLength \/ 8 * (N - 1) > 3 * Size \/ pc = "shrink"
  <2>1. SUFFICES ASSUME Size # MinLength, ~Sparse PROVE 8 * (N - 1) > 3 * Size
    OBVIOUS
  <2>2. Size > MinLength
    BY <1>1, <2>1 DEF MinLength
  <2>3. PICK m \in Nat : Size = 8 * m
    BY <1>1, <2>2, LengthFactors DEF GoodTable
  <2>4. 8 * (N - 1) # 3 * Size
    BY <1>4, <2>1, <2>2 DEF Sparse
  <2>5. QED
    BY <1>1, <1>4, <2>1, <2>3, <2>4
<1>15. pc \in {"shrink", "unlock"}
  OBVIOUS
<1> HIDE DEF pc
<1>16. /\ numEntries' = Cardinality(PresentKeys(table')) - IF x.pc \in {"count", "unlink"} THEN 1 ELSE 0
       /\ 4 * Cardinality(PresentKeys(table')) <= 3 * Size
       /\ Size = MinLength \/ 8 * Cardinality(PresentKeys(table')) > 3 * Size \/ x.pc \in {"link", "shrink"}
       /\ numEntries' \in Nat
       /\ x.pc = "shrink" => 8 * numEntries' = 3 * Size /\ Size > MinLength
       /\ x.pc # "idle" /\ x.pc # "link" /\ x.pc # "unlink"
  BY <1>1, <1>4, <1>8, <1>12, <1>13, <1>14, <1>15
<1>17. QED
  BY <1>1, <1>2, <1>7, <1>11, <1>12, <1>16, StepKeeps

\* the table shrinks, if it has become so empty.
LEMMA ShrinkStep ==
  ASSUME IInv, NEW w \in Writers, Shrink(w)
  PROVE  IInv'
<1> DEFINE x == [Idle EXCEPT !.pc = "unlock"]
           f == [r \in Readers |-> AheadLeft(reader[r].ahead)]
           N == Cardinality(PresentKeys(table))
           new == Size \div 2
<1>1. /\ Size \in Nat /\ Size >= 4 /\ GoodTable(table, Size) /\ N \in Nat /\ numEntries \in Nat
      /\ writer[w].pc = "shrink" /\ lock' = lock /\ numEntries' = numEntries
      /\ StateInv /\ WriterInv /\ ReaderInv
  BY Now DEF Shrink, Holds, IInv
<1>2. lock = w /\ 8 * numEntries = 3 * Size /\ Size > MinLength
  BY <1>1 DEF WriterInv
<1>3. ~Between
  BY <1>1, <1>2, Alone
<1>4. numEntries = N
  BY <1>1, <1>3, Now
<1>5. new \in Nat /\ 2 * new = Size /\ IsLength(new)
  BY <1>1, <1>2, LengthHalved DEF GoodTable
<1>6. table' = Rehashed(new)
  BY DEF Shrink, Write
<1> HIDE DEF new
<1>7. GoodTable(table', new) /\ PresentKeys(table') = PresentKeys(table)
  BY <1>1, <1>5, <1>6, RehashKeeps
<1>8. reader' = [r \in Readers |-> IF reader[r].pc = "idle" THEN reader[r] ELSE Noted(reader[r], f[r], table')]
  BY DEF Shrink, Write, Noted
<1>9. ASSUME NEW r \in Readers, reader[r].pc # "idle"
      PROVE  Noted(reader[r], f[r], table') \in ReaderType /\ ReaderOK(Noted(reader[r], f[r], table'), table')
  <2>1. reader[r] \in ReaderType /\ ReaderOK(reader[r], table)
    BY <1>1 DEF StateInv, ReaderType, ReaderInv
  <2>2. f[r] = AheadLeft(reader[r].ahead)
    OBVIOUS
  <2> HIDE DEF f
  <2>3. QED
    BY <1>5, <1>7, <1>9, <2>1, <2>2, FollowsRehash
<1> HIDE DEF f
<1>10. reader' \in [Readers -> ReaderType] /\ ReaderInv'
  BY <1>1, <1>8, <1>9, ReadersFollow
<1>11. writer' = [writer EXCEPT ![w] = x] /\ x.pc = "unlock" /\ x \in WriterType
  BY WriterGoes DEF Shrink, Goto, Idle
<1> HIDE DEF x, N
<1>12. /\ numEntries' = Cardinality(PresentKeys(table')) - IF x.pc \in {"count", "unlink"} THEN 1 ELSE 0
       /\ 4 * Cardinality(PresentKeys(table')) <= 3 * new
       /\ 8 * Cardinality(PresentKeys(table')) > 3 * new
       /\ numEntries' \in Nat
  BY <1>1, <1>2, <1>4, <1>5, <1>7, <1>11 DEF N
<1>13. QED
  BY <1>1, <1>2, <1>5, <1>7, <1>10, <1>11, <1>12, StepKeeps

\* There is nothing to remove.
LEMMA NothingToRemoveStep ==
  ASSUME IInv, NEW w \in Writers, NEW k \in Keys, NothingToRemove(w, k)
  PROVE  IInv'
<1> DEFINE x == [Idle EXCEPT !.pc = "unlock"]
           N == Cardinality(PresentKeys(table))
<1>1. /\ Size \in Nat /\ GoodTable(table, Size) /\ N \in Nat /\ numEntries \in Nat
      /\ lock = NoThread /\ lock' = w /\ numEntries' = numEntries /\ UNCHANGED <<table, reader>>
      /\ StateInv /\ WriterInv /\ ReaderInv
  BY Now DEF NothingToRemove, Lock, IInv
<1>2. ~Between /\ ~Pending
  BY <1>1, Alone
<1>3. numEntries = N /\ 4 * N <= 3 * Size /\ (Size = MinLength \/ 8 * N > 3 * Size)
  BY <1>1, <1>2, Now
<1>4. reader' \in [Readers -> ReaderType] /\ ReaderInv'
  BY <1>1, ReadersStay
<1>5. writer' = [writer EXCEPT ![w] = x] /\ x.pc = "unlock" /\ x \in WriterType
  BY WriterGoes DEF NothingToRemove, Goto, Idle
<1>6. GoodTable(table', Size) /\ PresentKeys(table') = PresentKeys(table) /\ table' = table
  BY <1>1
<1> HIDE DEF x, N
<1>7. /\ numEntries' = Cardinality(PresentKeys(table')) - IF x.pc \in {"count", "unlink"} THEN 1 ELSE 0
      /\ 4 * Cardinality(PresentKeys(table')) <= 3 * Size
      /\ Size = MinLength \/ 8 * Cardinality(PresentKeys(table')) > 3 * Size
      /\ numEntries' \in Nat
  BY <1>1, <1>3, <1>5, <1>6 DEF N
<1>8. QED
  BY <1>1, <1>4, <1>5, <1>6, <1>7, StepKeeps

\* The lock is given back.
LEMMA UnlockStep ==
  ASSUME IInv, NEW w \in Writers, Unlock(w)
  PROVE  IInv'
<1>1. /\ StateInv /\ EachKeyInItsBucket /\ CountTruthful /\ WriterInv /\ SizeInv /\ ReaderInv
      /\ writer[w].pc = "unlock" /\ lock' = NoThread /\ UNCHANGED <<table, numEntries, reader>>
      /\ writer' = [writer EXCEPT ![w] = [Idle EXCEPT !.pc = "idle"]]
  BY DEF Unlock, Goto, IInv
<1>2. lock = w
  BY <1>1 DEF WriterInv
<1>3. /\ \A v \in Writers : v # w => writer[v].pc = "idle"
      /\ ~Between /\ ~Pending
  BY <1>1, <1>2, Alone
<1>4. writer \in [Writers -> WriterType]
  BY <1>1 DEF StateInv, WriterType
<1>5. /\ writer' \in [Writers -> WriterType]
      /\ \A v \in Writers : writer'[v].pc = "idle"
  <2>1. [Idle EXCEPT !.pc = "idle"] \in WriterType /\ [Idle EXCEPT !.pc = "idle"].pc = "idle"
    BY WriterGoes DEF Idle
  <2>2. QED
    BY <1>1, <1>3, <1>4, <2>1
<1>6. Size' = Size
  BY <1>1 DEF Size
<1>7. StateInv'
  BY <1>1, <1>5, <1>6 DEF StateInv, WriterType
<1>8. ~Between' /\ ~Pending'
  BY <1>5 DEF Between, Pending
<1>9. CountTruthful' /\ SizeInv' /\ EachKeyInItsBucket' /\ ReaderInv'
  <2>1. KeysPresent' = KeysPresent
    BY <1>1 DEF KeysPresent
  <2>2. CountTruthful'
    BY <1>1, <1>3, <1>8, <2>1 DEF CountTruthful
  <2>3. SizeInv'
    BY <1>1, <1>3, <1>6, <1>8 DEF SizeInv, Pending
  <2>4. EachKeyInItsBucket' /\ ReaderInv'
    BY <1>1, <1>6 DEF EachKeyInItsBucket, ReaderInv
  <2>5. QED
    BY <2>2, <2>3, <2>4
<1>10. WriterInv'
  <2>1. \A v \in Writers : lock' # v
    BY <1>1, HashAssumption
  <2>2. QED
    BY <1>5, <2>1 DEF WriterInv
<1>11. QED
  BY <1>7, <1>9, <1>10 DEF IInv

-----------------------------------------------------------------------------
(* One step of a reader.                                                    *)

\* What is left to show of it.
LEMMA ReadKeeps ==
  ASSUME IInv, NEW r \in Readers, NEW x \in ReaderType, ReaderOK(x, table), Read(r, x)
  PROVE  IInv'
<1>1. /\ StateInv /\ EachKeyInItsBucket /\ CountTruthful /\ WriterInv /\ SizeInv /\ ReaderInv
      /\ UNCHANGED <<table, numEntries, lock, writer>> /\ reader' = [reader EXCEPT ![r] = x]
  BY DEF Read, IInv
<1>2. Size' = Size
  BY <1>1 DEF Size
<1>3. reader \in [Readers -> ReaderType]
  BY <1>1 DEF StateInv, ReaderType
<1>4. reader' \in [Readers -> ReaderType] /\ reader'[r] = x /\ \A q \in Readers : q # r => reader'[q] = reader[q]
  BY <1>1, <1>3
<1>5. StateInv'
  BY <1>1, <1>2, <1>4 DEF StateInv, ReaderType
<1>6. ReaderInv'
  BY <1>1, <1>4 DEF ReaderInv
<1>7. EachKeyInItsBucket' /\ CountTruthful'
  BY <1>1, <1>2 DEF EachKeyInItsBucket, CountTruthful, KeysPresent, Between
<1>8. WriterInv'
  BY <1>1, <1>2 DEF WriterInv, Present
<1>9. SizeInv'
  BY <1>1, <1>2 DEF SizeInv, Between
<1>10. QED
  BY <1>5, <1>6, <1>7, <1>8, <1>9 DEF IInv

\* A lookup begins,
LEMMA LookupStep ==
  ASSUME IInv, NEW r \in Readers, NEW k \in Sought, Lookup(r, k)
  PROVE  IInv'
<1> DEFINE x == [reader[r] EXCEPT !.pc = "bucket", !.key = k, !.len = Size, !.seen = {Content(table, k)}]
<1>1. /\ reader[r] \in ReaderType /\ ReaderOK(reader[r], table) /\ reader[r].pc = "idle" /\ Read(r, x)
      /\ k \in Keys
  BY HashAssumption DEF Lookup, IInv, StateInv, ReaderType, ReaderInv
<1>2. reader[r].ahead = << >>
  BY <1>1 DEF ReaderOK
<1>3. Content(table, k) \in AllValues \cup {NotFound} /\ Size \in Nat /\ Size > 0
  BY <1>1, Now, ContentType
<1>4. /\ x \in ReaderType
      /\ x.pc = "bucket" /\ x.key = k /\ x.len = Size /\ x.seen = {Content(table, k)} /\ x.ahead = << >>
  BY <1>1, <1>2, <1>3 DEF ReaderType
<1> HIDE DEF x
<1>5. DOMAIN x.ahead = {}
  BY <1>4
<1>6. ReaderOK(x, table)
  BY <1>1, <1>3, <1>4, <1>5 DEF ReaderOK, Distinct
<1>7. QED
  BY <1>1, <1>4, <1>6, ReadKeeps

\* (a cell that it can reach then is as it is in the table)
LEMMA PresentCell ==
  ASSUME NEW e \in Entries, NEW d, d = [key |-> e.key, value |-> e.value, gone |-> FALSE]
  PROVE  d \in Ahead /\ d.key = e.key /\ d.value = e.value
  BY DEF Entries, Ahead

\* The cells from the head of a bucket on, as they are before a reader.
CellsFrom(b) == [n \in DOMAIN b |-> [key |-> b[n].key, value |-> b[n].value, gone |-> FALSE]]

\* (they are those of the bucket,
LEMMA CellsFromIs ==
  ASSUME NEW b, NEW h, NEW len, GoodBucket(b, h, len)
  PROVE  /\ CellsFrom(b) \in Seq(Ahead) /\ DOMAIN CellsFrom(b) = DOMAIN b
         /\ Distinct(CellsFrom(b)) /\ KeysIn(CellsFrom(b)) = KeysIn(b)
         /\ \A n \in DOMAIN b : CellsFrom(b)[n].key = b[n].key /\ CellsFrom(b)[n].value = b[n].value
<1> DEFINE a == CellsFrom(b)
<1>1. b \in Seq(Entries) /\ Len(b) \in Nat /\ DOMAIN b = 1 .. Len(b) /\ Distinct(b)
  BY LenProperties DEF GoodBucket
<1>2. DOMAIN a = DOMAIN b /\ a = [n \in 1 .. Len(b) |-> a[n]]
  BY <1>1 DEF CellsFrom
<1>3. ASSUME NEW n \in DOMAIN b PROVE a[n] \in Ahead /\ a[n].key = b[n].key /\ a[n].value = b[n].value
  <2>1. a[n] = [key |-> b[n].key, value |-> b[n].value, gone |-> FALSE]
    BY DEF CellsFrom
  <2>2. b[n] \in Entries
    BY <1>1, ElementOfSeq
  <2>3. QED
    BY <2>1, <2>2, PresentCell
<1> HIDE DEF a
<1>4. a \in Seq(Ahead)
  <2>1. a \in [1 .. Len(b) -> Ahead]
    BY <1>1, <1>2, <1>3
  <2>2. QED
    BY <1>1, <2>1, SeqDef
<1>5. Distinct(a) /\ KeysIn(a) = KeysIn(b)
  BY <1>1, <1>2, <1>3 DEF Distinct, KeysIn
<1>6. QED
  BY <1>2, <1>3, <1>4, <1>5 DEF a

\* with the values the table holds)
LEMMA CellsFromContent ==
  ASSUME NEW t, NEW len \in Nat, GoodTable(t, len), NEW h \in 0 .. len - 1
  PROVE  \A n \in DOMAIN CellsFrom(t[h]) : CellsFrom(t[h])[n].value = Content(t, CellsFrom(t[h])[n].key)
<1> DEFINE b == t[h]
<1>1. GoodBucket(b, h, len)
  BY DEF GoodTable
<1>2. b \in Seq(Entries) /\ Distinct(b) /\ \A n \in DOMAIN b : b[n] \in Entries /\ Index(b[n].key, len) = h
  BY <1>1, LenProperties, ElementOfSeq DEF GoodBucket, KeysIn
<1>3. ASSUME NEW n \in DOMAIN b PROVE b[n].value = Content(t, b[n].key)
  <2>1. b[n].key \in Keys /\ Index(b[n].key, len) = h
    BY <1>2 DEF Entries
  <2>2. Content(t, b[n].key) = Found(b, b[n].key)
    BY <2>1, ContentIs
  <2>3. QED
    BY <1>2, <2>2, FoundIs
<1> HIDE DEF b
<1>4. /\ DOMAIN CellsFrom(b) = DOMAIN b
      /\ \A n \in DOMAIN b : CellsFrom(b)[n].key = b[n].key /\ CellsFrom(b)[n].value = b[n].value
  BY <1>1, CellsFromIs
<1>5. \A n \in DOMAIN CellsFrom(b) : CellsFrom(b)[n].value = Content(t, CellsFrom(b)[n].key)
  BY <1>3, <1>4
<1>6. QED
  BY <1>5 DEF b

\* reads the bucket,
LEMMA ReadBucketStep ==
  ASSUME IInv, NEW r \in Readers, ReadBucket(r)
  PROVE  IInv'
<1> DEFINE y == reader[r]
           k == y.key
           h == Index(k, y.len)
           b == table[h]
           a == [n \in DOMAIN b |-> [key |-> b[n].key, value |-> b[n].value, gone |-> FALSE]]
           out == [y EXCEPT !.len = 0, !.straddled = (y.len # Size), !.pc = "outside"]
           in  == [y EXCEPT !.len = 0, !.straddled = (y.len # Size), !.pc = "walk", !.ahead = a]
<1>1. y \in ReaderType /\ ReaderOK(y, table) /\ y.pc = "bucket"
  BY DEF ReadBucket, IInv, StateInv, ReaderType, ReaderInv
<1>2. k \in Keys /\ y.len > 0 /\ y.ahead = << >> /\ Content(table, k) \in y.seen
  BY <1>1 DEF ReaderOK
<1>3. Size \in Nat /\ GoodTable(table, Size) /\ DOMAIN table = 0 .. Size - 1
  BY Now DEF GoodTable
<1>4. CASE h \notin DOMAIN table
  <2>1. Read(r, out)
    BY <1>4 DEF ReadBucket
  <2>2. /\ out \in ReaderType
        /\ out.pc = "outside" /\ out.key = k /\ out.seen = y.seen /\ out.ahead = << >>
    BY <1>1, <1>2 DEF ReaderType
  <2> HIDE DEF out, k, y
  <2>3. ReaderOK(out, table)
    BY <1>2, <2>2 DEF ReaderOK, Distinct
  <2>4. QED
    BY <2>1, <2>2, <2>3, ReadKeeps
<1>5. CASE h \in DOMAIN table
  <2>1. Read(r, in)
    BY <1>5 DEF ReadBucket
  <2>2. GoodBucket(b, h, Size) /\ h \in 0 .. Size - 1
    BY <1>3, <1>5 DEF GoodTable
  <2>3. a = CellsFrom(b)
    BY DEF CellsFrom
  <2> HIDE DEF a
  <2>4. a \in Seq(Ahead) /\ Distinct(a) /\ KeysIn(a) = KeysIn(b)
    BY <2>2, <2>3, CellsFromIs
  <2>5. \A n \in DOMAIN a : a[n].value = Content(table, a[n].key)
    BY <1>3, <2>2, <2>3, CellsFromContent
  <2>6. y.len = Size => k \in KeysIn(a) \/ Content(table, k) = NotFound
    <3>1. SUFFICES ASSUME y.len = Size, k \notin KeysIn(b) PROVE Content(table, k) = NotFound
      BY <2>4
    <3>2. Content(table, k) = Found(b, k)
      BY <1>2, <1>3, <3>1, ContentIs
    <3>3. QED
      BY <3>1, <3>2 DEF Found
  <2>7. /\ in \in ReaderType
         /\ in.pc = "walk" /\ in.key = k /\ in.seen = y.seen /\ in.ahead = a
         /\ in.straddled = (y.len # Size)
    BY <1>1, <2>4 DEF ReaderType
  <2> HIDE DEF in, b, h, k
  <2>8. ReaderOK(in, table)
    BY <1>2, <2>4, <2>5, <2>6, <2>7 DEF ReaderOK
  <2>9. QED
    BY <2>1, <2>7, <2>8, ReadKeeps
<1>6. QED
  BY <1>4, <1>5

\* goes along it,
LEMMA WalkStep ==
  ASSUME IInv, NEW r \in Readers, Walk(r)
  PROVE  IInv'
<1> DEFINE y == reader[r]
           a == y.ahead
           s == Tail(a)
           x == [y EXCEPT !.ahead = s]
<1>1. y \in ReaderType /\ ReaderOK(y, table) /\ y.pc = "walk" /\ Read(r, x)
      /\ a # << >> /\ Head(a).key # y.key
  BY DEF Walk, AtResult, NextCell, IInv, StateInv, ReaderType, ReaderInv
<1>2. a \in Seq(Ahead) /\ Len(a) \in Nat /\ DOMAIN a = 1 .. Len(a) /\ Distinct(a)
  BY <1>1, LenProperties DEF ReaderType, ReaderOK
<1>3. /\ s \in Seq(Ahead) /\ Len(s) = Len(a) - 1 /\ \A i \in 1 .. Len(s) : s[i] = a[i + 1]
      /\ Head(a) = a[1]
  BY <1>1, <1>2, HeadTailProperties
<1>4. DOMAIN s = 1 .. Len(s)
  BY <1>3, LenProperties
<1>5. /\ x \in ReaderType
      /\ x.pc = "walk" /\ x.key = y.key /\ x.seen = y.seen /\ x.ahead = s /\ x.straddled = y.straddled
  BY <1>1, <1>3 DEF ReaderType
<1>6. y.ahead = a
  OBVIOUS
<1> HIDE DEF x, s, a, y
<1>7. ASSUME NEW i \in DOMAIN s PROVE i + 1 \in DOMAIN a /\ s[i] = a[i + 1] /\ i \in Int
  BY <1>2, <1>3, <1>4
<1>8. Distinct(s)
  <2>1. SUFFICES ASSUME NEW i \in DOMAIN s, NEW j \in DOMAIN s, s[i].key = s[j].key PROVE i = j
    BY DEF Distinct
  <2>2. i + 1 = j + 1
    BY <1>2, <1>7, <2>1 DEF Distinct
  <2>3. QED
    BY <1>7, <2>2
<1>9. y.key \in KeysIn(a) => y.key \in KeysIn(s)
  <2>1. SUFFICES ASSUME NEW n \in DOMAIN a, a[n].key = y.key PROVE y.key \in KeysIn(s)
    BY DEF KeysIn
  <2>2. n # 1
    BY <1>1, <1>3, <2>1
  <2>3. n - 1 \in 1 .. Len(s) /\ (n - 1) + 1 = n
    BY <1>2, <1>3, <2>2
  <2>4. s[n - 1] = a[n]
    BY <1>3, <2>3
  <2>5. QED
    BY <1>4, <2>1, <2>3, <2>4 DEF KeysIn
<1>10. ReaderOK(x, table)
  BY <1>1, <1>5, <1>6, <1>7, <1>8, <1>9 DEF ReaderOK
<1>11. QED
  BY <1>1, <1>5, <1>10, ReadKeeps

\* and returns.
LEMMA ReturnStep ==
  ASSUME IInv, NEW r \in Readers, Return(r)
  PROVE  IInv'
<1> DEFINE x == [reader[r] EXCEPT !.pc = "idle", !.key = NotFound, !.ahead = << >>, !.seen = {}, !.straddled = FALSE]
<1>1. reader[r] \in ReaderType /\ Read(r, x)
  BY DEF Return, IInv, StateInv, ReaderType
<1>2. << >> \in Seq(Ahead)
  BY EmptySeq
<1>3. x \in ReaderType /\ x.pc = "idle" /\ x.ahead = << >>
  BY <1>1, <1>2 DEF ReaderType
<1> HIDE DEF x
<1>4. ReaderOK(x, table)
  BY <1>3 DEF ReaderOK, Distinct
<1>5. QED
  BY <1>1, <1>3, <1>4, ReadKeeps

-----------------------------------------------------------------------------
(* The theorems.                                                            *)

\* An empty table, with nobody at it.
LEMMA InitKeeps ==
  ASSUME Init
  PROVE  IInv
<1>1. IsLength(4) /\ 4 \in Nat
  <2>1. ASSUME NEW d \in 3 .. 4, NEW q \in 1 .. 4, d * q = 4 PROVE d % 2 = 0
    <3>1. (d = 3 \/ d = 4) /\ (q = 1 \/ q = 2 \/ q = 3 \/ q = 4)
      OBVIOUS
    <3>2. d = 4
      BY <2>1, <3>1
    <3>3. QED
      BY <3>2
  <2>2. QED
    BY <2>1 DEF IsLength, MinLength
<1>2. table = [h \in 0 .. 4 - 1 |-> << >>] /\ DOMAIN table = 0 .. 4 - 1
  BY DEF Init, MinLength
<1>3. Size = 4
  BY <1>1, <1>2, TableLength DEF Size
<1>4. DOMAIN << >> = {} /\ << >> \in Seq(Entries) /\ << >> \in Seq(Ahead)
  BY EmptySeq
<1>5. /\ numEntries = 0 /\ lock = NoThread /\ \A w \in Writers : writer[w].pc = "idle"
      /\ writer \in [Writers -> WriterType]
  BY DEF Init, Idle, WriterType
<1>6. StateInv
  <2>1. table \in [0 .. Size - 1 -> Seq(Entries)]
    BY <1>2, <1>3, <1>4
  <2>2. reader \in [Readers -> ReaderType]
    BY <1>4 DEF Init, ReaderType
  <2>3. QED
    BY <1>1, <1>3, <1>5, <2>1, <2>2 DEF StateInv, WriterType, ReaderType
<1>7. \A h \in DOMAIN table : KeysIn(table[h]) = {} /\ Distinct(table[h])
  BY <1>2, <1>4 DEF KeysIn, Distinct
<1>8. EachKeyInItsBucket
  BY <1>7 DEF EachKeyInItsBucket
<1>9. KeysPresent = {}
  BY <1>7 DEF KeysPresent
<1>10. ~Between
  BY <1>5 DEF Between
<1>11. CountTruthful /\ SizeInv
  <2>1. Cardinality({}) = 0
    BY FS_EmptySet
  <2>2. QED
    BY <1>3, <1>5, <1>9, <1>10, <2>1 DEF CountTruthful, SizeInv, MinLength
<1>12. WriterInv
  BY <1>5, HashAssumption DEF WriterInv
<1>13. ReaderInv
  <2>1. ASSUME NEW r \in Readers PROVE reader[r].pc = "idle" /\ reader[r].ahead = << >>
    BY DEF Init
  <2>2. QED
    BY <1>4, <2>1 DEF ReaderInv, ReaderOK, Distinct
<1>14. QED
  BY <1>6, <1>8, <1>11, <1>12, <1>13 DEF IInv

\* Every step of storeInHashTable, remove, enlarge, shrink and lookup1 keeps the invariant.
LEMMA NextKeeps ==
  ASSUME IInv, [Next]_vars
  PROVE  IInv'
<1>1. CASE Next
  <2>1. ASSUME NEW w \in Writers, NEW k \in Keys, NEW v \in Values[k],
               StoreValue(w, k, v) \/ Enlarge(w, k, v) \/ Link(w, k, v)
        PROVE  IInv'
    BY <2>1, StoreValueStep, EnlargeStep, LinkStep
  <2>2. ASSUME NEW w \in Writers, NEW k \in Keys, CountOff(w, k) \/ NothingToRemove(w, k)
        PROVE  IInv'
    BY <2>2, CountOffStep, NothingToRemoveStep
  <2>3. ASSUME NEW w \in Writers, LinkAfterEnlarge(w) \/ Count(w) \/ Unlink(w) \/ Shrink(w) \/ Unlock(w)
        PROVE  IInv'
    BY <2>3, LinkAfterEnlargeStep, CountStep, UnlinkStep, ShrinkStep, UnlockStep
  <2>4. ASSUME NEW r \in Readers, NEW k \in Sought, Lookup(r, k) PROVE IInv'
    BY <2>4, LookupStep
  <2>5. ASSUME NEW r \in Readers, ReadBucket(r) \/ Walk(r) \/ Return(r) PROVE IInv'
    BY <2>5, ReadBucketStep, WalkStep, ReturnStep
  <2>6. QED
    BY <1>1, <2>1, <2>2, <2>3, <2>4, <2>5 DEF Next
<1>2. CASE UNCHANGED vars
  <2>1. /\ table' = table /\ numEntries' = numEntries /\ lock' = lock /\ writer' = writer /\ reader' = reader
    BY <1>2 DEF vars
  <2>2. StateInv' = StateInv /\ EachKeyInItsBucket' = EachKeyInItsBucket /\ CountTruthful' = CountTruthful
    BY <2>1 DEF StateInv, EachKeyInItsBucket, CountTruthful, KeysPresent, Between, Size
  <2>3. WriterInv' = WriterInv /\ SizeInv' = SizeInv /\ ReaderInv' = ReaderInv
    BY <2>1 DEF WriterInv, SizeInv, ReaderInv, Present, Between, Size
  <2>4. QED
    BY <2>2, <2>3 DEF IInv
<1>3. QED
  BY <1>1, <1>2

\* The table, its lock, its count and the lookups under way are related as the code needs it,
\* at every moment, for any keys, hashes, writers and readers.
THEOREM HashInvariant == Spec => []IInv
<1>1. Init => IInv
  BY InitKeeps
<1>2. IInv /\ [Next]_vars => IInv'
  BY NextKeeps
<1>3. QED
  BY <1>1, <1>2, PTL DEF Spec

\* storeInHashTable, remove, enlarge and shrink: between any two of their writes each key is in
\* the table once at most and where a lookup seeks it, and numEntries counts them.
THEOREM TableAlwaysSound == Spec => []TableSound
<1>1. ASSUME IInv PROVE TableSound
  <2>1. /\ Size \in Nat /\ GoodTable(table, Size)
        /\ numEntries \in Nat
        /\ Cardinality(PresentKeys(table)) \in Nat
        /\ numEntries = Cardinality(PresentKeys(table)) - IF Between THEN 1 ELSE 0
    BY <1>1, Now
  <2>2. numEntries \in 0 .. Cardinality(Keys)
    <3>1. Cardinality(PresentKeys(table)) <= Cardinality(Keys) /\ Cardinality(Keys) \in Nat
      BY <2>1, PresentFinite, FS_CardinalityType, HashAssumption
    <3>2. QED
      BY <2>1, <3>1
  <2>3. ASSUME NEW h \in DOMAIN table, NEW e \in ToSet(table[h])
        PROVE  e.key \in Keys /\ e.value \in Values[e.key]
    <3>1. table[h] \in Seq(Entries)
      BY <2>1 DEF GoodTable, GoodBucket
    <3>2. PICK n \in DOMAIN table[h] : e = table[h][n]
      BY DEF ToSet
    <3>3. e \in Entries
      BY <3>1, <3>2, LenProperties, ElementOfSeq
    <3>4. QED
      BY <3>3 DEF Entries
  <2>4. ASSUME NEW r \in Readers
        PROVE  /\ reader[r].pc \in {"idle", "bucket", "walk", "outside"}
               /\ \A e \in ToSet(reader[r].ahead) : e.value \in Values[e.key] /\ e.gone \in BOOLEAN
    <3>1. reader[r] \in ReaderType
      BY <1>1 DEF IInv, StateInv, ReaderType
    <3>2. reader[r].pc \in {"idle", "bucket", "walk", "outside"} /\ reader[r].ahead \in Seq(Ahead)
      BY <3>1 DEF ReaderType
    <3>3. ASSUME NEW e \in ToSet(reader[r].ahead) PROVE e.value \in Values[e.key] /\ e.gone \in BOOLEAN
      <4>1. PICK n \in DOMAIN reader[r].ahead : e = reader[r].ahead[n]
        BY DEF ToSet
      <4>2. e \in Ahead
        BY <3>2, <4>1, LenProperties, ElementOfSeq
      <4>3. QED
        BY <4>2 DEF Ahead
    <3>4. QED
      BY <3>2, <3>3
  <2>5. DOMAIN table = 0 .. Size - 1 /\ IsLength(Size)
    BY <2>1 DEF GoodTable
  <2>6. \A w \in Writers : writer[w].pc = "idle" <=> lock # w
    BY <1>1 DEF IInv, WriterInv
  <2>7. TypeOK
    BY <2>2, <2>3, <2>4, <2>5, <2>6 DEF TypeOK
  <2>8. QED
    BY <1>1, <2>7 DEF TableSound, IInv
<1>2. QED
  BY <1>1, HashInvariant, PTL

\* lookup1 takes no lock: what it returns the table held under the key at some moment of the
\* lookup, whatever writers do meanwhile, and it meets no key twice.
THEOREM LookupAlwaysTruthful == Spec => []LookupTruthful
<1>1. ASSUME IInv PROVE LookupTruthful
  <2>1. ASSUME NEW r \in Readers
        PROVE  /\ Distinct(reader[r].ahead)
               /\ AtResult(r) => Result(r) \in reader[r].seen \/ (Result(r) = NotFound /\ reader[r].straddled)
    <3> DEFINE y == reader[r]
    <3>1. y \in ReaderType /\ ReaderOK(y, table)
      BY <1>1 DEF IInv, StateInv, ReaderType, ReaderInv
    <3>2. y.ahead \in Seq(Ahead) /\ Len(y.ahead) \in Nat /\ DOMAIN y.ahead = 1 .. Len(y.ahead)
      BY <3>1, LenProperties DEF ReaderType
    <3>3. CASE y.ahead = << >>
      <4>1. KeysIn(y.ahead) = {}
        BY <3>3 DEF KeysIn
      <4>2. QED
        BY <3>1, <3>3, <4>1 DEF AtResult, Result, ReaderOK
    <3>4. CASE y.ahead # << >>
      <4>1. 1 \in DOMAIN y.ahead /\ Head(y.ahead) = y.ahead[1]
        BY <3>2, <3>4, EmptySeq
      <4>2. QED
        BY <3>1, <3>4, <4>1 DEF AtResult, Result, ReaderOK
    <3>5. QED
      BY <3>3, <3>4
  <2>2. QED
    BY <2>1 DEF LookupTruthful, FoundAtSomeMoment, MetOnce
<1>2. QED
  BY <1>1, HashInvariant, PTL

\* Where copy puts a cell of a bucket.
Mirror(n, len) == IF len <= 2 \/ n <= 2 THEN n ELSE len + 3 - n

\* A copied bucket has the same cells: those from the third on in the opposite order.
LEMMA CopyBucketIs ==
  ASSUME NEW S, NEW b \in Seq(S)
  PROVE  LET c == CopyBucket(b)
         IN  /\ c \in Seq(S) /\ Len(c) = Len(b) /\ DOMAIN c = 1 .. Len(b)
             /\ Len(b) <= 2 => c = b
             /\ \A n \in 1 .. Len(b) : Mirror(n, Len(b)) \in 1 .. Len(b) /\ c[n] = b[Mirror(n, Len(b))]
<1> DEFINE N == Len(b)
           c == CopyBucket(b)
           p == SubSeq(b, 1, 2)
           q == SubSeq(b, 3, N)
           z == Reverse(q)
<1>1. N \in Nat /\ DOMAIN b = 1 .. N /\ \A n \in 1 .. N : b[n] \in S
  BY LenProperties, ElementOfSeq
<1>2. CASE N <= 2
  <2>1. c = b
    BY <1>2 DEF CopyBucket
  <2>2. QED
    BY <1>1, <1>2, <2>1 DEF Mirror
<1>3. CASE N > 2
  <2>1. p \in Seq(S) /\ Len(p) = 2 /\ \A i \in 1 .. 2 : p[i] = b[i]
    <3>1. \A i \in 1 .. 2 : b[i] \in S
      BY <1>1, <1>3
    <3>2. /\ p \in Seq(S) /\ Len(p) = IF 1 <= 2 THEN 2 - 1 + 1 ELSE 0
          /\ \A i \in 1 .. 2 - 1 + 1 : p[i] = b[1 + i - 1]
      BY <3>1, SubSeqProperties
    <3> HIDE DEF p
    <3>3. ASSUME NEW i \in 1 .. 2 PROVE p[i] = b[i]
      <4>1. i \in 1 .. 2 - 1 + 1 /\ 1 + i - 1 = i
        OBVIOUS
      <4>2. p[i] = b[1 + i - 1]
        BY <3>2, <4>1
      <4>3. QED
        BY <4>1, <4>2
    <3>4. QED
      BY <3>2, <3>3
  <2>2. q \in Seq(S) /\ Len(q) = N - 2 /\ \A i \in 1 .. N - 2 : q[i] = b[i + 2]
    <3>1. \A i \in 3 .. N : b[i] \in S
      BY <1>1
    <3>2. /\ q \in Seq(S) /\ Len(q) = IF 3 <= N THEN N - 3 + 1 ELSE 0
          /\ \A i \in 1 .. N - 3 + 1 : q[i] = b[3 + i - 1]
      BY <1>1, <3>1, SubSeqProperties
    <3> HIDE DEF q
    <3>3. Len(q) = N - 2
      <4>1. 3 <= N /\ N - 3 + 1 = N - 2
        BY <1>1, <1>3
      <4>2. QED
        BY <3>2, <4>1
    <3>4. ASSUME NEW i \in 1 .. N - 2 PROVE q[i] = b[i + 2]
      <4>1. i \in 1 .. N - 3 + 1 /\ 3 + i - 1 = i + 2
        BY <1>1
      <4>2. q[i] = b[3 + i - 1]
        BY <3>2, <4>1
      <4>3. QED
        BY <4>1, <4>2
    <3>5. QED
      BY <3>2, <3>3, <3>4
  <2>3. z \in Seq(S) /\ Len(z) = N - 2 /\ \A i \in 1 .. N - 2 : z[i] = b[N + 1 - i]
    <3>1. z = [i \in 1 .. N - 2 |-> q[((N - 2) - i) + 1]]
      BY <2>2 DEF Reverse
    <3>2. ASSUME NEW i \in 1 .. N - 2
          PROVE  ((N - 2) - i) + 1 \in 1 .. N - 2 /\ (((N - 2) - i) + 1) + 2 = N + 1 - i /\ N + 1 - i \in 1 .. N
      BY <1>1
    <3> HIDE DEF q, z
    <3>3. ASSUME NEW i \in 1 .. N - 2 PROVE z[i] = b[N + 1 - i] /\ z[i] \in S
      <4>1. z[i] = q[((N - 2) - i) + 1]
        BY <3>1
      <4>2. q[((N - 2) - i) + 1] = b[(((N - 2) - i) + 1) + 2]
        BY <2>2, <3>2
      <4>3. QED
        BY <1>1, <3>2, <4>1, <4>2
    <3>4. N - 2 \in Nat
      BY <1>1, <1>3
    <3>5. z \in [1 .. N - 2 -> S]
      BY <3>1, <3>3
    <3>6. z \in Seq(S) /\ Len(z) = N - 2
      BY <3>4, <3>5, SeqDef, LenProperties
    <3>7. QED
      BY <3>3, <3>6
  <2>4. c = p \o z
    BY <1>3 DEF CopyBucket
  <2> HIDE DEF p, q, z, c
  <2>5. /\ p \o z \in Seq(S) /\ Len(p \o z) = Len(p) + Len(z)
        /\ \A i \in 1 .. Len(p) + Len(z) : (p \o z)[i] = IF i <= Len(p) THEN p[i] ELSE z[i - Len(p)]
    BY <2>1, <2>3, ConcatProperties
  <2>6. Len(p) + Len(z) = N
    BY <1>1, <2>1, <2>3
  <2>7. /\ c \in Seq(S) /\ Len(c) = N
        /\ \A i \in 1 .. N : c[i] = IF i <= 2 THEN p[i] ELSE z[i - 2]
    BY <2>1, <2>4, <2>5, <2>6
  <2>8. ASSUME NEW n \in 1 .. N PROVE Mirror(n, N) \in 1 .. N /\ c[n] = b[Mirror(n, N)]
    <3>1. CASE n <= 2
      <4>1. Mirror(n, N) = n
        BY <3>1 DEF Mirror
      <4>2. n \in 1 .. 2 /\ c[n] = p[n]
        BY <1>1, <2>7, <3>1
      <4>3. QED
        BY <2>1, <4>1, <4>2
    <3>2. CASE n > 2
      <4>1. n - 2 \in 1 .. N - 2 /\ N + 1 - (n - 2) = N + 3 - n /\ N + 3 - n \in 1 .. N
        BY <1>1, <1>3, <3>2
      <4>2. c[n] = z[n - 2]
        BY <1>1, <2>7, <3>2
      <4>3. z[n - 2] = b[N + 1 - (n - 2)]
        BY <2>3, <4>1
      <4>4. Mirror(n, N) = N + 3 - n
        BY <1>1, <1>3, <3>2 DEF Mirror
      <4>5. QED
        BY <4>1, <4>2, <4>3, <4>4
    <3>3. QED
      BY <1>1, <3>1, <3>2
  <2>9. DOMAIN c = 1 .. N
    BY <2>7, LenProperties
  <2>10. N <= 2 => c = b
    BY <1>1, <1>3
  <2>11. QED
    BY <2>7, <2>8, <2>9, <2>10 DEF c
<1>4. QED
  BY <1>1, <1>2, <1>3

\* A walk that seeks a key stops at its cell.
LEMMA FirstOfItsKey ==
  ASSUME NEW e, NEW N \in Nat, DOMAIN e = 1 .. N, Distinct(e), NEW m \in 1 .. N
  PROVE  \A l \in 1 .. m - 1 : e[l].key # e[m].key
<1>1. ASSUME NEW l \in 1 .. m - 1, e[l].key = e[m].key PROVE FALSE
  <2>1. l \in 1 .. N /\ l # m
    OBVIOUS
  <2>2. QED
    BY <1>1, <2>1 DEF Distinct
<1>2. QED
  BY <1>1

\* Buckets with the same cells, each at the place of its mirror image, are equal.
LEMMA EqualIfMirrored ==
  ASSUME NEW S, NEW b \in Seq(S), NEW c \in Seq(S), Len(c) = Len(b), Len(b) <= 2 => c = b,
         \A n \in 1 .. Len(b) : Mirror(n, Len(b)) \in 1 .. Len(b) /\ c[n] = b[Mirror(n, Len(b))],
         Distinct(b)
  PROVE  EqualBuckets(b, c) /\ EqualBuckets(c, b)
<1> DEFINE N == Len(b)
<1>1. N \in Nat /\ DOMAIN b = 1 .. N /\ DOMAIN c = 1 .. N
  BY LenProperties
<1>2. ASSUME NEW n \in 1 .. N PROVE Mirror(Mirror(n, N), N) = n
  BY <1>1 DEF Mirror
<1>3. ASSUME NEW n \in 1 .. N PROVE Mirror(n, N) \in 1 .. N /\ b[n] = c[Mirror(n, N)] /\ c[n] = b[Mirror(n, N)]
  BY <1>2
<1> HIDE DEF N
<1>4. Distinct(c)
  <2>1. SUFFICES ASSUME NEW m \in 1 .. N, NEW n \in 1 .. N, c[m].key = c[n].key PROVE m = n
    BY <1>1 DEF Distinct
  <2>2. Mirror(m, N) = Mirror(n, N)
    <3>1. Mirror(m, N) \in DOMAIN b /\ Mirror(n, N) \in DOMAIN b
      BY <1>1, <1>3
    <3>2. b[Mirror(m, N)].key = b[Mirror(n, N)].key
      BY <1>3, <2>1
    <3>3. QED
      BY <3>1, <3>2 DEF Distinct
  <2>3. QED
    BY <1>2, <2>2
<1>5. ASSUME NEW n \in 1 .. N PROVE \E m \in 1 .. N : c[m] = b[n] /\ \A l \in 1 .. m - 1 : c[l].key # b[n].key
  <2>1. PICK m \in 1 .. N : c[m] = b[n]
    BY <1>3
  <2>2. \A l \in 1 .. m - 1 : c[l].key # c[m].key
    BY <1>1, <1>4, FirstOfItsKey
  <2>3. QED
    BY <2>1, <2>2
<1>6. ASSUME NEW n \in 1 .. N PROVE \E m \in 1 .. N : b[m] = c[n] /\ \A l \in 1 .. m - 1 : b[l].key # c[n].key
  <2>1. PICK m \in 1 .. N : b[m] = c[n]
    BY <1>3
  <2>2. \A l \in 1 .. m - 1 : b[l].key # b[m].key
    BY <1>1, FirstOfItsKey
  <2>3. QED
    BY <2>1, <2>2
<1>7. (Len(b) <= 1 => c = b) /\ Len(b) = N /\ Len(c) = N
  BY <1>1 DEF N
<1>8. QED
  <2>1. \A n \in DOMAIN b : \E m \in DOMAIN c : c[m] = b[n] /\ \A l \in 1 .. m - 1 : c[l].key # b[n].key
    BY <1>1, <1>5
  <2>2. \A n \in DOMAIN c : \E m \in DOMAIN b : b[m] = c[n] /\ \A l \in 1 .. m - 1 : b[l].key # c[n].key
    BY <1>1, <1>6
  <2>3. QED
    BY <1>7, <2>1, <2>2 DEF EqualBuckets

\* enlarge and shrink agree, so that the number of buckets follows from that of the entries; and
\* a copy of a table, which lists the cells of a bucket in another order, equals it.
THEOREM TablesAlwaysComparable == Spec => []TablesComparable
<1>1. ASSUME IInv, lock = NoThread PROVE ~Between /\ ~Pending
  BY <1>1, HashAssumption DEF IInv, WriterInv, Between, Pending
<1>2. ASSUME IInv PROVE SizeFollowsCount
  <2>1. SUFFICES ASSUME lock = NoThread
                 PROVE  4 * numEntries <= 3 * Size /\ (Size = MinLength \/ 8 * numEntries > 3 * Size)
    BY DEF SizeFollowsCount
  <2>2. ~Between /\ ~Pending
    BY <1>1, <1>2, <2>1
  <2>3. numEntries = Cardinality(PresentKeys(table))
    BY <1>2, <2>2, Now
  <2>4. QED
    BY <1>2, <2>2, <2>3, Now
<1>3. ASSUME IInv PROVE Equal(table, Copy(table)) /\ Equal(Copy(table), table)
  <2>1. ASSUME NEW h \in DOMAIN table
        PROVE  EqualBuckets(table[h], Copy(table)[h]) /\ EqualBuckets(Copy(table)[h], table[h])
    <3> DEFINE b == table[h]
               c == CopyBucket(b)
    <3>1. GoodBucket(b, h, Size)
      BY <1>3, Now DEF GoodTable
    <3>2. b \in Seq(Entries) /\ Distinct(b)
      BY <3>1 DEF GoodBucket
    <3>3. Copy(table)[h] = c
      BY DEF Copy
    <3> HIDE DEF b
    <3>4. /\ c \in Seq(Entries) /\ Len(c) = Len(b)
          /\ Len(b) <= 2 => c = b
          /\ \A n \in 1 .. Len(b) : Mirror(n, Len(b)) \in 1 .. Len(b) /\ c[n] = b[Mirror(n, Len(b))]
      BY <3>2, CopyBucketIs
    <3> HIDE DEF c
    <3>5. EqualBuckets(b, c) /\ EqualBuckets(c, b)
      BY <3>2, <3>4, EqualIfMirrored
    <3>6. QED
      BY <3>3, <3>5 DEF b
  <2>2. DOMAIN Copy(table) = DOMAIN table
    BY DEF Copy
  <2>3. QED
    BY <2>1, <2>2 DEF Equal
<1>4. IInv => TablesComparable
  BY <1>2, <1>3 DEF TablesComparable, CopyEqual
<1>5. QED
  BY <1>4, HashInvariant, PTL

\* Whoever looks at the table without the lock sees it as a map: no step of a writer changes
\* what it holds under two keys, and enlarge and shrink change nothing.
OneKeyAtATime ==
  /\ \A j, k \in Keys :
       Content(table', j) # Content(table, j) /\ Content(table', k) # Content(table, k) => j = k
  /\ Cardinality(DOMAIN table') # Size => \A k \in Keys : Content(table', k) = Content(table, k)

\* storeInHashTable, remove, enlarge and shrink write several cells and bucket heads; at each
\* step the table is a map that differs from the one before under one key at most.
THEOREM TableIsAMap == Spec => [][OneKeyAtATime]_vars
<1>1. ASSUME IInv, NEW k \in Keys, NEW v, Changed(table, table', Size, k, v) PROVE OneKeyAtATime
  <2>1. Cardinality(DOMAIN table') = Size
    BY <1>1, TableLength DEF Changed, GoodTable
  <2>2. \A j \in Keys : j # k => Content(table', j) = Content(table, j)
    BY <1>1 DEF Changed
  <2>3. QED
    BY <2>1, <2>2 DEF OneKeyAtATime
<1>2. ASSUME UNCHANGED table PROVE OneKeyAtATime
  BY <1>2 DEF OneKeyAtATime, Size
<1>3. ASSUME IInv, NEW new \in Nat, IsLength(new), table' = Rehashed(new) PROVE OneKeyAtATime
  <2>1. \A k \in Keys : Content(table', k) = Content(table, k)
    BY <1>3, Now, RehashKeeps
  <2>2. QED
    BY <2>1 DEF OneKeyAtATime
<1>4. ASSUME IInv, NEW w \in Writers, NEW k \in Keys, NEW v \in Values[k], StoreValue(w, k, v) PROVE OneKeyAtATime
  <2>1. table' = [table EXCEPT ![Index(k, Size)] = BucketStored(table[Index(k, Size)], k, v)] /\ Present(k)
    BY <1>4 DEF StoreValue, Write
  <2>2. Changed(table, table', Size, k, v)
    BY <1>4, <2>1, Now, StoreChanges
  <2>3. QED
    BY <1>1, <1>4, <2>2
<1>5. ASSUME IInv, NEW w \in Writers, NEW k \in Keys, NEW v \in Values[k], LinkEntry(w, k, v), ~Present(k) PROVE OneKeyAtATime
  <2>1. table' = [table EXCEPT ![Index(k, Size)] = <<[key |-> k, value |-> v]>> \o table[Index(k, Size)]]
    BY <1>5 DEF LinkEntry, Write, Linked
  <2>2. Changed(table, table', Size, k, v)
    BY <1>5, <2>1, Now, LinkChanges
  <2>3. QED
    BY <1>1, <1>5, <2>2
<1>6. ASSUME IInv, NEW w \in Writers, Unlink(w) PROVE OneKeyAtATime
  <2> DEFINE k == writer[w].key
  <2>1. k \in Keys /\ Present(k)
    BY <1>6 DEF IInv, WriterInv, Unlink, Holds
  <2>2. table' = [table EXCEPT ![Index(k, Size)] = BucketUnlinked(table[Index(k, Size)], k)]
    BY <1>6 DEF Unlink, Write
  <2> HIDE DEF k
  <2>3. Changed(table, table', Size, k, NotFound)
    BY <1>6, <2>1, <2>2, Now, UnlinkChanges
  <2>4. QED
    BY <1>1, <1>6, <2>1, <2>3
<1>7. ASSUME IInv, NEW w \in Writers, NEW k \in Keys, NEW v \in Values[k], Enlarge(w, k, v) PROVE OneKeyAtATime
  <2>1. 2 * Size \in Nat /\ IsLength(2 * Size)
    BY <1>7, Now, LengthDoubled DEF GoodTable
  <2>2. table' = Rehashed(2 * Size)
    BY <1>7 DEF Enlarge, Write
  <2>3. QED
    BY <1>3, <1>7, <2>1, <2>2
<1>8. ASSUME IInv, NEW w \in Writers, Shrink(w) PROVE OneKeyAtATime
  <2>1. Size > MinLength
    BY <1>8 DEF IInv, WriterInv, Shrink, Holds
  <2>2. Size \div 2 \in Nat /\ IsLength(Size \div 2)
    BY <1>8, <2>1, Now, LengthHalved DEF GoodTable
  <2>3. table' = Rehashed(Size \div 2)
    BY <1>8 DEF Shrink, Write
  <2>4. QED
    BY <1>3, <1>8, <2>2, <2>3
<1>9. ASSUME IInv, NEW w \in Writers, LinkAfterEnlarge(w) PROVE OneKeyAtATime
  BY <1>5, <1>9 DEF LinkAfterEnlarge, Holds, IInv, WriterInv
<1>10. ASSUME IInv, [Next]_vars PROVE [OneKeyAtATime]_vars
  <2>1. ASSUME NEW w \in Writers, NEW k \in Keys, NEW v \in Values[k],
               StoreValue(w, k, v) \/ Enlarge(w, k, v) \/ Link(w, k, v)
        PROVE  OneKeyAtATime
    BY <1>4, <1>5, <1>7, <1>10, <2>1 DEF Link
  <2>2. ASSUME NEW w \in Writers, NEW k \in Keys, CountOff(w, k) \/ NothingToRemove(w, k)
        PROVE  OneKeyAtATime
    BY <1>2, <2>2 DEF CountOff, NothingToRemove
  <2>3. ASSUME NEW w \in Writers, LinkAfterEnlarge(w) \/ Unlink(w) \/ Shrink(w) PROVE OneKeyAtATime
    BY <1>6, <1>8, <1>9, <1>10, <2>3
  <2>4. ASSUME NEW w \in Writers, Count(w) \/ Unlock(w) PROVE OneKeyAtATime
    BY <1>2, <2>4 DEF Count, Unlock
  <2>5. ASSUME NEW r \in Readers, (\E k \in Sought : Lookup(r, k)) \/ ReadBucket(r) \/ Walk(r) \/ Return(r)
        PROVE  OneKeyAtATime
    BY <1>2, <2>5 DEF Lookup, ReadBucket, Walk, Return, Read
  <2>6. QED
    BY <1>10, <2>1, <2>2, <2>3, <2>4, <2>5 DEF Next
<1>11. QED
  BY <1>10, HashInvariant, PTL DEF Spec
=============================================================================
