------------------------------ MODULE HashTables ------------------------------
(***************************************************************************)
(* Hash tables of the interpreter, d/hashtables.dd of src/M2/Macaulay2:    *)
(* threads that store and remove keys under the spin lock of the table,    *)
(* while others look keys up without it.                                   *)
(*                                                                         *)
(* A bucket is the list of its cells (KeyValuePair).  A reader has before  *)
(* it the cells it can still reach: those of the table change with it; the *)
(* others are gone, unlinked or left behind in an old table, and stay as   *)
(* they were.                                                              *)
(*                                                                         *)
(* A writer takes the lock, looks for its key and writes in one step, as   *)
(* nobody else writes then; each further write is a step of its own.       *)
(***************************************************************************)
EXTENDS Integers, Sequences, FiniteSets, SequencesExt

CONSTANTS
  Keys,
  HashOf,      \* hash(key)
  Values,      \* the values that are stored under each key
  Writers,     \* threads that change the table
  Readers,     \* threads that look keys up
  Sought,      \* the keys they look for
  NoThread,
  NotFound     \* notfoundE

ASSUME HashAssumption ==
  /\ IsFiniteSet(Keys) /\ HashOf \in [Keys -> Nat]
  /\ Sought \subseteq Keys
  /\ DOMAIN Values = Keys /\ \A k \in Keys : NotFound \notin Values[k]
  /\ NoThread \notin Writers

VARIABLES
  table,        \* the buckets: lists of [key, value]
  numEntries,
  lock,         \* the thread that holds the mutex
  writer,       \* where each writer is in its call, and with which key and value
  reader        \* where each reader is in its lookup: before it are [key, value, gone]

vars == <<table, numEntries, lock, writer, reader>>

\* newHashTable starts with so many buckets.
MinLength == 4

Size == Cardinality(DOMAIN table)

\* Lengths are powers of two: hash & (length - 1).
Index(k, len) == HashOf[k] % len

KeysIn(list)   == {list[n].key : n \in DOMAIN list}
Place(list, k) == CHOOSE n \in DOMAIN list : list[n].key = k
Distinct(list) == \A m, n \in DOMAIN list : list[m].key = list[n].key => m = n

Present(k) == k \in KeysIn(table[Index(k, Size)])

\* What a table holds under a key.
Content(t, k) ==
  LET b == t[Index(k, Cardinality(DOMAIN t))]
  IN  IF k \in KeysIn(b) THEN b[Place(b, k)].value ELSE NotFound

-----------------------------------------------------------------------------
(* What the writes do to a bucket, and to what a reader has before it.      *)

\* p.value = value
BucketStored(b, k, v) == [n \in DOMAIN b |-> IF b[n].key = k THEN [b[n] EXCEPT !.value = v] ELSE b[n]]
AheadStored(s, k, v)  == [n \in DOMAIN s |-> IF s[n].key = k /\ ~s[n].gone
                                             THEN [s[n] EXCEPT !.value = v] ELSE s[n]]

\* x.table.hmod = KeyValuePair(key, h, value, x.table.hmod)
Linked(b, s, e) == [bucket |-> <<e>> \o b, ahead |-> s]

\* prev.next = p.next, or x.table.hmod = p.next.
BucketUnlinked(b, k) == RemoveAt(b, Place(b, k))

\* Mutant: the cell that is taken out is cleared.
AheadCleared(s, k) ==
  LET at == {n \in DOMAIN s : s[n].key = k /\ ~s[n].gone}
  IN  IF at = {} THEN s
      ELSE LET p == CHOOSE n \in at : TRUE
           IN  IF p = 1 THEN <<[s[1] EXCEPT !.gone = TRUE]>> ELSE RemoveAt(s, p)

\* The cell is passed over by the one before it, which a reader notices if that one is
\* still in the table and the reader is not already at the cell itself.
AheadUnlinked(s, k) ==
  LET at == {n \in DOMAIN s : s[n].key = k /\ ~s[n].gone}
  IN  IF at = {} THEN s
      ELSE LET p == CHOOSE n \in at : TRUE
           IN  IF p = 1 \/ s[p - 1].gone THEN [s EXCEPT ![p].gone = TRUE] ELSE RemoveAt(s, p)

\* enlarge, shrink: new cells, and a reader keeps the old ones.
AheadLeft(s) == [n \in DOMAIN s |-> [s[n] EXCEPT !.gone = TRUE]]

Cells        == UNION {{h} \X DOMAIN table[h] : h \in DOMAIN table}
Entry(c)     == table[c[1]][c[2]]
Before(c, d) == c[1] < d[1] \/ (c[1] = d[1] /\ c[2] < d[2])

\* The last of the cells that were visited is in front.
Stacked(cells) ==
  LET place(c) == Cardinality({d \in cells : ~Before(d, c)})
  IN  [n \in 1 .. Cardinality(cells) |-> Entry(CHOOSE c \in cells : place(c) = n)]

\* Mutant: the mask is that of the old table.
RehashedOldMask(len) ==
  [h \in 0 .. len - 1 |-> Stacked({c \in Cells : Index(Entry(c).key, Size) = h})]

\* The old cells are visited bucket by bucket, and each new one is put in front.
Rehashed(len) ==
  [h \in 0 .. len - 1 |-> Stacked({c \in Cells : Index(Entry(c).key, len) = h})]

\* The lookups under way note what the table holds from now on.
Write(t, ahead(_)) ==
  /\ table' = t
  /\ reader' = [r \in Readers |->
                  IF reader[r].pc = "idle" THEN reader[r]
                  ELSE [reader[r] EXCEPT !.ahead = ahead(@), !.seen = @ \cup {Content(t, reader[r].key)}]]

-----------------------------------------------------------------------------
(* Writers.                                                                 *)

Idle == [pc |-> "idle", key |-> NotFound, value |-> NotFound]

Init ==
  /\ table = [h \in 0 .. MinLength - 1 |-> << >>]
  /\ numEntries = 0
  /\ lock = NoThread
  /\ writer = [w \in Writers |-> Idle]
  /\ reader = [r \in Readers |-> [pc |-> "idle", key |-> NotFound, len |-> 0, ahead |-> << >>,
                                  seen |-> {}, straddled |-> FALSE]]

\* No reader has indexed a table beyond its end, which ends the program.
Running == \A r \in Readers : reader[r].pc # "outside"

Lock(w)      == lock = NoThread /\ lock' = w
Holds(w, pc) == writer[w].pc = pc /\ UNCHANGED lock
Goto(w, pc)  == writer' = [writer EXCEPT ![w] = [Idle EXCEPT !.pc = pc]]
GotoWith(w, pc, k, v) == writer' = [writer EXCEPT ![w] = [pc |-> pc, key |-> k, value |-> v]]

\* storeInHashTable: the key is there and gets another value.
StoreValue(w, k, v) ==
  /\ Lock(w) /\ Present(k)
  /\ LET ahead(s) == AheadStored(s, k, v)
     IN  Write([table EXCEPT ![Index(k, Size)] = BucketStored(@, k, v)], ahead)
  /\ Goto(w, "unlock") /\ UNCHANGED numEntries

Full == 4 * numEntries = 3 * Size

\* The key is not there, and the table is full.
Enlarge(w, k, v) ==
  /\ Lock(w) /\ ~Present(k) /\ Full
  /\ Write(Rehashed(2 * Size), AheadLeft)
  /\ GotoWith(w, "link", k, v) /\ UNCHANGED numEntries

\* The new entry, at once or after enlarge.
LinkEntry(w, k, v) ==
  /\ LET h == Index(k, Size)
         e == [key |-> k, value |-> v]
         ahead(s) == Linked(table[h], s, e).ahead
     IN  Write([table EXCEPT ![h] = Linked(@, << >>, e).bucket], ahead)
  /\ Goto(w, "count") /\ UNCHANGED numEntries

Link(w, k, v) == Lock(w) /\ ~Present(k) /\ ~Full /\ LinkEntry(w, k, v)

LinkAfterEnlarge(w) == Holds(w, "link") /\ LinkEntry(w, writer[w].key, writer[w].value)

Count(w) ==
  /\ Holds(w, "count")
  /\ numEntries' = numEntries + 1
  /\ Goto(w, "unlock") /\ UNCHANGED <<table, reader>>

\* remove: the key is there, and is counted off first.
CountOff(w, k) ==
  /\ Lock(w) /\ Present(k)
  /\ numEntries' = numEntries - 1
  /\ GotoWith(w, "unlink", k, NotFound) /\ UNCHANGED <<table, reader>>

\* Mutant: the table shrinks only when it is emptier.
SparseLate == 8 * numEntries = 2 * Size /\ Size > MinLength
Sparse     == 8 * numEntries = 3 * Size /\ Size > MinLength

Unlink(w) ==
  /\ Holds(w, "unlink")
  /\ LET k == writer[w].key
         ahead(s) == AheadUnlinked(s, k)
     IN  Write([table EXCEPT ![Index(k, Size)] = BucketUnlinked(@, k)], ahead)
  /\ Goto(w, IF Sparse THEN "shrink" ELSE "unlock") /\ UNCHANGED numEntries

Shrink(w) ==
  /\ Holds(w, "shrink")
  /\ Write(Rehashed(Size \div 2), AheadLeft)
  /\ Goto(w, "unlock") /\ UNCHANGED numEntries

\* remove: the key is not there.
NothingToRemove(w, k) ==
  /\ Lock(w) /\ ~Present(k)
  /\ Goto(w, "unlock") /\ UNCHANGED <<table, numEntries, reader>>

Unlock(w) ==
  /\ writer[w].pc = "unlock"
  /\ lock' = NoThread /\ Goto(w, "idle")
  /\ UNCHANGED <<table, numEntries, reader>>

-----------------------------------------------------------------------------
(* Readers: lookup1.  A build may read the table once or several times for  *)
(* the length and for the bucket: the two reads are steps of their own.     *)

Read(r, next) ==
  /\ reader' = [reader EXCEPT ![r] = next]
  /\ UNCHANGED <<table, numEntries, lock, writer>>

Lookup(r, k) ==
  /\ reader[r].pc = "idle"
  /\ Read(r, [reader[r] EXCEPT !.pc = "bucket", !.key = k, !.len = Size, !.seen = {Content(table, k)}])

\* The cells from the head of the bucket on.
ReadBucket(r) ==
  /\ reader[r].pc = "bucket"
  /\ LET h == Index(reader[r].key, reader[r].len)
         before(e) == [key |-> e.key, value |-> e.value, gone |-> FALSE]
         next == [reader[r] EXCEPT !.len = 0, !.straddled = reader[r].len # Size]
     IN  IF h \in DOMAIN table
           THEN Read(r, [next EXCEPT !.pc = "walk",
                                     !.ahead = [n \in DOMAIN table[h] |-> before(table[h][n])]])
           ELSE Read(r, [next EXCEPT !.pc = "outside"])

\* The lookup is at the end of the bucket or at its key, and what it returns.
AtResult(r) ==
  /\ reader[r].pc = "walk"
  /\ reader[r].ahead # << >> => Head(reader[r].ahead).key = reader[r].key
Result(r) == IF reader[r].ahead = << >> THEN NotFound ELSE Head(reader[r].ahead).value

\* Mutant: a reader at a cell that is gone starts again.
NextRestarts(r) ==
  IF Head(reader[r].ahead).gone THEN [reader[r] EXCEPT !.pc = "bucket", !.len = Size, !.ahead = << >>]
                                ELSE [reader[r] EXCEPT !.ahead = Tail(@)]

\* bucket = bucket.next
NextCell(r) == [reader[r] EXCEPT !.ahead = Tail(@)]

Walk(r) == reader[r].pc = "walk" /\ ~AtResult(r) /\ Read(r, NextCell(r))

Return(r) ==
  /\ AtResult(r)
  /\ Read(r, [reader[r] EXCEPT !.pc = "idle", !.key = NotFound, !.ahead = << >>, !.seen = {},
                               !.straddled = FALSE])

-----------------------------------------------------------------------------

Next ==
  /\ Running
  /\ \/ \E w \in Writers :
          \/ \E k \in Keys : \E v \in Values[k] : StoreValue(w, k, v) \/ Enlarge(w, k, v) \/ Link(w, k, v)
          \/ \E k \in Keys : CountOff(w, k) \/ NothingToRemove(w, k)
          \/ LinkAfterEnlarge(w) \/ Count(w) \/ Unlink(w) \/ Shrink(w) \/ Unlock(w)
     \/ \E r \in Readers :
          (\E k \in Sought : Lookup(r, k)) \/ ReadBucket(r) \/ Walk(r) \/ Return(r)

Spec == Init /\ [][Next]_vars

\* A lookup goes on; writers need not, and need not stop either.
FairSpec == Spec /\ \A r \in Readers : WF_vars(Running /\ (ReadBucket(r) \/ Walk(r) \/ Return(r)))

-----------------------------------------------------------------------------
(* Copies and equality, for tables nobody writes to.                        *)

\* copy(table): the first two entries, then the others in the opposite order.
CopyBucket(b) ==
  IF Len(b) <= 2 THEN b ELSE SubSeq(b, 1, 2) \o Reverse(SubSeq(b, 3, Len(b)))

Copy(t) == [h \in DOMAIN t |-> CopyBucket(t[h])]

\* equal, after it has compared the numbers of entries: bucket by bucket.
EqualBuckets(b, c) ==
  IF Len(b) <= 1 /\ Len(c) <= 1 THEN b = c
  ELSE /\ Len(b) = Len(c)
       /\ \A n \in DOMAIN b :
            \E m \in DOMAIN c : c[m] = b[n] /\ \A l \in 1 .. m - 1 : c[l].key # b[n].key

Equal(t, u) == DOMAIN t = DOMAIN u /\ \A h \in DOMAIN t : EqualBuckets(t[h], u[h])

-----------------------------------------------------------------------------
(* What must hold.                                                          *)

\* A power of two, from MinLength on: no number but 1 that divides it is odd.
IsLength(len) ==
  /\ len \in Nat /\ len >= MinLength
  /\ \A d \in 3 .. len : (\E q \in 1 .. len : d * q = len) => d % 2 = 0

\* Who holds the lock is in the middle of a call.
TypeOK ==
  /\ DOMAIN table = 0 .. Size - 1 /\ IsLength(Size)
  /\ \A h \in DOMAIN table : \A e \in ToSet(table[h]) : e.key \in Keys /\ e.value \in Values[e.key]
  /\ numEntries \in 0 .. Cardinality(Keys)
  /\ \A w \in Writers : writer[w].pc = "idle" <=> lock # w
  /\ \A r \in Readers :
       /\ reader[r].pc \in {"idle", "bucket", "walk", "outside"}
       /\ \A e \in ToSet(reader[r].ahead) : e.value \in Values[e.key] /\ e.gone \in BOOLEAN

\* At every moment, also between two writes of a call, each key is in the table once at
\* most and in the bucket where a lookup seeks it: after growth and shrinking too.
EachKeyInItsBucket ==
  \A h \in DOMAIN table : Distinct(table[h]) /\ \A k \in KeysIn(table[h]) : Index(k, Size) = h

\* Who has just got the lock finds as many entries as numEntries says (keys, values and
\* pairs make a list of that length), and # of a table, which takes no lock, is never more
\* than the entries there are: they are counted after they are linked, and counted off
\* before they are unlinked.
KeysPresent == UNION {KeysIn(table[h]) : h \in DOMAIN table}
Between     == \E w \in Writers : writer[w].pc \in {"count", "unlink"}

CountTruthful == numEntries = Cardinality(KeysPresent) - IF Between THEN 1 ELSE 0

\* The number of buckets depends on the number of entries alone and not on how they came:
\* the bounds of enlarge and shrink agree.  equal takes tables of different lengths to be
\* different.
SizeFollowsCount ==
  lock = NoThread =>
    /\ 4 * numEntries <= 3 * Size
    /\ Size = MinLength \/ 8 * numEntries > 3 * Size

\* What a reader has before it holds no key twice: it will not meet a key again that is
\* removed and stored while it is on its way.
MetOnce == \A r \in Readers : Distinct(reader[r].ahead)

\* A lookup without the lock returns what the table held under the key at some moment of
\* the lookup, whatever is stored, removed, enlarged or shrunk meanwhile.  The exception:
\* it may miss a key if the table was enlarged or shrunk between its reads of the length
\* and of the bucket.
FoundAtSomeMoment ==
  \A r \in Readers :
    AtResult(r) => Result(r) \in reader[r].seen \/ (Result(r) = NotFound /\ reader[r].straddled)

\* A copy equals its original, though longer buckets are copied in another order.
CopyEqual == lock = NoThread => Equal(table, Copy(table)) /\ Equal(Copy(table), table)

\* A lookup comes to its end though other threads go on changing the table for ever.
LookupsReturn == \A r \in Readers : reader[r].pc = "walk" ~> reader[r].pc = "idle" \/ ~Running

\* The table between any two writes of storeInHashTable, remove, enlarge and shrink.
TableSound == TypeOK /\ EachKeyInItsBucket /\ CountTruthful

\* Tables with the same entries are laid out so that equal finds them equal.
TablesComparable == SizeFollowsCount /\ CopyEqual

\* What lookup1 and a walk along a bucket meet, without the lock, is what was there.
LookupTruthful == FoundAtSomeMoment /\ MetOnce

-----------------------------------------------------------------------------
(* The inductive invariant of the proofs (HashTablesProofs).                *)

AllValues == UNION {Values[k] : k \in Keys}
Entries   == {e \in [key : Keys, value : AllValues] : e.value \in Values[e.key]}
Ahead     == {e \in [key : Keys, value : AllValues, gone : BOOLEAN] : e.value \in Values[e.key]}

StateInv ==
  /\ IsLength(Size) /\ table \in [0 .. Size - 1 -> Seq(Entries)]
  /\ numEntries \in Nat
  /\ lock \in Writers \cup {NoThread}
  /\ writer \in [Writers -> [pc : {"idle", "link", "count", "unlink", "shrink", "unlock"},
                             key : Keys \cup {NotFound}, value : AllValues \cup {NotFound}]]
  /\ reader \in [Readers -> [pc : {"idle", "bucket", "walk", "outside"}, key : Keys \cup {NotFound}, len : Nat,
                             ahead : Seq(Ahead), seen : SUBSET (AllValues \cup {NotFound}),
                             straddled : BOOLEAN]]

\* Where each writer is, and what it knows of its key and of the number of entries.
WriterInv ==
  \A w \in Writers :
    LET pc == writer[w].pc
        k  == writer[w].key
    IN  /\ pc = "idle" <=> lock # w
        /\ pc = "link"   => k \in Keys /\ writer[w].value \in Values[k] /\ ~Present(k)
                            /\ 8 * numEntries = 3 * Size
        /\ pc = "unlink" => k \in Keys /\ Present(k)
        /\ pc = "shrink" => 8 * numEntries = 3 * Size /\ Size > MinLength

\* The entries, with the one that is linked and not counted, or counted off and not unlinked,
\* fit the number of buckets, except while it is about to change.
SizeInv ==
  LET n == numEntries + IF Between THEN 1 ELSE 0
  IN  /\ 4 * n <= 3 * Size
      /\ Size = MinLength \/ 8 * n > 3 * Size \/ \E w \in Writers : writer[w].pc \in {"link", "shrink"}

\* What is before a reader and not gone is in the table, and what the reader has for its key
\* it has seen; if it has nothing, it has seen that too, or read two tables.
ReaderOK(x, t) ==
  /\ x.pc = "idle" => x.ahead = << >>
  /\ x.pc # "idle" => x.key \in Keys
  /\ x.pc = "bucket" => x.len > 0 /\ x.ahead = << >>
  /\ x.pc \in {"bucket", "walk"} => Content(t, x.key) \in x.seen
  /\ Distinct(x.ahead)
  /\ \A n \in DOMAIN x.ahead :
       /\ ~x.ahead[n].gone => x.ahead[n].value = Content(t, x.ahead[n].key)
       /\ x.ahead[n].key = x.key => x.ahead[n].value \in x.seen
  /\ x.pc = "walk" => x.key \in KeysIn(x.ahead) \/ NotFound \in x.seen \/ x.straddled

ReaderInv == \A r \in Readers : ReaderOK(reader[r], table)

IInv == StateInv /\ EachKeyInItsBucket /\ CountTruthful /\ WriterInv /\ SizeInv /\ ReaderInv
=============================================================================
