---------------------------- MODULE M2FileProofs ----------------------------
(***************************************************************************)
(* Proofs about M2File, for every set of threads, every nesting of         *)
(* brackets and every width of size_t that holds it.                       *)
(***************************************************************************)
EXTENDS M2File, FiniteSetTheorems, SequenceTheorems, TLAPS

-----------------------------------------------------------------------------
(* Counts of size_t. *)

LEMMA ModRange ==
  ASSUME NEW x \in Int
  PROVE  x % SizeModulus \in 0 .. SizeModulus - 1
<1>1. SizeModulus \in Nat /\ SizeModulus > 0
  BY ConstantsAssumption
<1>2. QED
  BY <1>1

LEMMA ModSmall ==
  ASSUME NEW x \in 0 .. SizeModulus - 1
  PROVE  x % SizeModulus = x
<1>1. SizeModulus \in Nat /\ SizeModulus > 0
  BY ConstantsAssumption
<1>2. QED
  BY <1>1

-----------------------------------------------------------------------------
(* How often a kind of bracket is open. *)

CountOf(s, k) == Cardinality({i \in DOMAIN s : s[i] = k})

LEMMA CountAppended ==
  ASSUME NEW K, NEW s \in Seq(K), NEW k \in K, NEW kind \in K
  PROVE  /\ CountOf(s, k) \in 0 .. Len(s)
         /\ CountOf(Append(s, kind), k) = CountOf(s, k) + (IF k = kind THEN 1 ELSE 0)
<1> DEFINE T == {i \in DOMAIN s : s[i] = k}
           n == Len(s)
           U == {i \in DOMAIN Append(s, kind) : Append(s, kind)[i] = k}
<1>1. n \in Nat /\ DOMAIN s = 1 .. n
  OBVIOUS
<1>2. IsFiniteSet(1 .. n) /\ Cardinality(1 .. n) = n
  <2>1. \A m \in Nat : IsFiniteSet(1 .. m) /\ Cardinality(1 .. m) = m
    BY FS_Interval
  <2>2. QED
    BY <1>1, <2>1
<1>3. IsFiniteSet(T) /\ Cardinality(T) \in Nat /\ Cardinality(T) <= n
  <2>1. T \subseteq 1 .. n
    BY <1>1
  <2>2. QED
    BY <1>1, <1>2, <2>1, FS_Subset, FS_CardinalityType
<1>4. n + 1 \notin T
  BY <1>1
<1>5. U = IF k = kind THEN T \cup {n + 1} ELSE T
  <2>1. DOMAIN Append(s, kind) = 1 .. n + 1
    BY <1>1
  <2>2. Append(s, kind)[n + 1] = kind /\ \A i \in 1 .. n : Append(s, kind)[i] = s[i]
    BY <1>1
  <2>3. \A i : i \in 1 .. n + 1 <=> i \in 1 .. n \/ i = n + 1
    BY <1>1
  <2> HIDE DEF n
  <2>4. QED
    BY <1>1, <2>1, <2>2, <2>3
<1> HIDE DEF T, U, n
<1>6. Cardinality(U) = Cardinality(T) + (IF k = kind THEN 1 ELSE 0)
  <2>1. CASE k = kind
    BY <1>3, <1>4, <1>5, <2>1, FS_AddElement
  <2>2. CASE k # kind
    BY <1>3, <1>5, <2>2
  <2>3. QED
    BY <2>1, <2>2
<1>7. Cardinality(T) \in 0 .. Len(s)
  BY <1>1, <1>3 DEF n
<1>8. QED
  BY <1>6, <1>7, Zenon DEF T, U, CountOf

LEMMA CountClosed ==
  ASSUME NEW K, NEW s \in Seq(K), s # <<>>, NEW k \in K
  PROVE  /\ SubSeq(s, 1, Len(s) - 1) \in Seq(K)
         /\ Len(SubSeq(s, 1, Len(s) - 1)) = Len(s) - 1
         /\ s[Len(s)] \in K
         /\ CountOf(SubSeq(s, 1, Len(s) - 1), k)
              = CountOf(s, k) - (IF s[Len(s)] = k THEN 1 ELSE 0)
<1>1. PICK q \in Seq(K), e \in K : s = Append(q, e)
  BY SequenceEmptyOrAppend
<1>2. /\ Len(s) = Len(q) + 1 /\ Len(q) \in Nat /\ s[Len(s)] = e
      /\ \A i \in 1 .. Len(q) : s[i] = q[i]
  BY <1>1
<1>3. Len(s) - 1 = Len(q)
  BY <1>2
<1>4. SubSeq(s, 1, Len(q)) = q
  <2>1. \A i \in 1 .. Len(q) : s[i] \in K
    BY <1>2
  <2>2. /\ SubSeq(s, 1, Len(q)) \in Seq(K)
        /\ Len(SubSeq(s, 1, Len(q))) = IF 1 <= Len(q) THEN Len(q) - 1 + 1 ELSE 0
        /\ \A i \in 1 .. Len(q) - 1 + 1 : SubSeq(s, 1, Len(q))[i] = s[1 + i - 1]
    <3>1. 1 \in Int /\ Len(q) \in Int
      BY <1>2
    <3>2. QED
      BY <2>1, <3>1, SubSeqProperties
  <2> DEFINE r == SubSeq(s, 1, Len(q))
  <2> HIDE DEF r
  <2>3. r \in Seq(K) /\ Len(r) = Len(q) /\ \A i \in 1 .. Len(q) : r[i] = q[i]
    BY <1>2, <2>2 DEF r
  <2>4. r = q
    BY <2>3, SeqEqual
  <2>5. QED
    BY <2>4 DEF r
<1>5. CountOf(q, k) \in 0 .. Len(q) /\ CountOf(s, k) = CountOf(q, k) + (IF k = e THEN 1 ELSE 0)
  BY <1>1, CountAppended
<1>6. PICK c \in Int : c = CountOf(q, k)
  BY <1>2, <1>5
<1>7. c = CountOf(s, k) - (IF s[Len(s)] = k THEN 1 ELSE 0)
  <2>1. CASE k = e
    BY <1>2, <1>5, <1>6, <2>1
  <2>2. CASE k # e
    BY <1>2, <1>5, <1>6, <2>2
  <2>3. QED
    BY <2>1, <2>2
<1>8. QED
  BY <1>1, <1>2, <1>3, <1>4, <1>6, <1>7

LEMMA DepthIsCount ==
  ASSUME TypeOK, NEW t \in Threads, NEW kind \in Kinds
  PROVE  /\ Depth(t, kind) = CountOf(held[t], kind)
         /\ Depth(t, kind) \in 0 .. Len(held[t])
         /\ Holds(t, kind) <=> Depth(t, kind) # 0
<1>1. held[t] \in Seq(Kinds)
  BY DEF TypeOK
<1>2. Depth(t, kind) = CountOf(held[t], kind)
  BY DEF Depth, CountOf
<1>3. CountOf(held[t], kind) \in 0 .. Len(held[t])
  BY <1>1, CountAppended
<1>4. Holds(t, kind) <=> Depth(t, kind) # 0
  <2> DEFINE T == {i \in DOMAIN held[t] : held[t][i] = kind}
  <2>1. IsFiniteSet(T)
    <3>1. Len(held[t]) \in Nat /\ T \subseteq 1 .. Len(held[t])
      BY <1>1
    <3>2. IsFiniteSet(1 .. Len(held[t]))
      BY <3>1, FS_Interval
    <3>3. QED
      BY <3>1, <3>2, FS_Subset
  <2>2. Holds(t, kind) <=> T # {}
    BY DEF Holds
  <2>3. Depth(t, kind) = Cardinality(T)
    BY DEF Depth
  <2> HIDE DEF T
  <2>4. QED
    BY <2>1, <2>2, <2>3, FS_EmptySet
<1>5. QED
  BY <1>2, <1>3, <1>4

-----------------------------------------------------------------------------
(* How a step moves a thread, the threads it wakes, and the brackets. *)

MovesTo(t, label) ==
  /\ pc' \in [Threads -> Labels]
  /\ pc'[t] = label
  /\ \A u \in Threads \ {t} :
       \/ pc'[u] = pc[u]
       \/ pc[u] = "acquireWait" /\ pc'[u] = "acquire"
       \/ pc[u] = "startWait" /\ pc'[u] = "startExclusive"
       \/ pc[u] = "endWait" /\ pc'[u] = "endExclusive"

LEMMA GoMoves ==
  ASSUME TypeOK, NEW t \in Threads, NEW label \in Labels, Go(t, label)
  PROVE  MovesTo(t, label)
BY DEF TypeOK, Go, MovesTo

LEMMA BroadcastMoves ==
  ASSUME TypeOK, NEW t \in Threads, NEW label \in Labels, BroadcastAndGo(t, label)
  PROVE  MovesTo(t, label)
<1>1. pc' = [u \in Threads |-> pc'[u]]
  BY DEF BroadcastAndGo
<1>2. pc'[t] = label
  BY DEF BroadcastAndGo
<1>3. \A u \in Threads \ {t} :
        \/ pc'[u] = pc[u]
        \/ pc[u] = "acquireWait" /\ pc'[u] = "acquire"
        \/ pc[u] = "startWait" /\ pc'[u] = "startExclusive"
        \/ pc[u] = "endWait" /\ pc'[u] = "endExclusive"
  BY DEF BroadcastAndGo
<1>4. \A u \in Threads : pc'[u] \in Labels
  <2>1. \A u \in Threads : pc[u] \in Labels
    BY DEF TypeOK
  <2>2. QED
    BY <1>2, <1>3, <2>1 DEF Labels
<1>5. QED
  BY <1>1, <1>2, <1>3, <1>4 DEF MovesTo

HeldTyped == held' \in [Threads -> Seq(Kinds)]

LEMMA OpenFacts ==
  ASSUME TypeOK, NEW t \in Threads, NEW kind \in Kinds, Open(t, kind)
  PROVE  /\ HeldTyped
         /\ Len(held'[t]) = Len(held[t]) + 1
         /\ \A u \in Threads \ {t} : held'[u] = held[u]
         /\ \A k \in Kinds :
              CountOf(held'[t], k) = CountOf(held[t], k) + (IF k = kind THEN 1 ELSE 0)
<1>1. held[t] \in Seq(Kinds) /\ held \in [Threads -> Seq(Kinds)]
  BY DEF TypeOK
<1>2. held'[t] = Append(held[t], kind) /\ \A u \in Threads \ {t} : held'[u] = held[u]
  BY <1>1 DEF Open
<1>3. Append(held[t], kind) \in Seq(Kinds)
      /\ Len(Append(held[t], kind)) = Len(held[t]) + 1
  BY <1>1
<1>4. HeldTyped
  BY <1>1, <1>3 DEF Open, HeldTyped
<1>5. ASSUME NEW k \in Kinds
      PROVE  CountOf(held'[t], k) = CountOf(held[t], k) + (IF k = kind THEN 1 ELSE 0)
  <2>1. CountOf(Append(held[t], kind), k) = CountOf(held[t], k) + (IF k = kind THEN 1 ELSE 0)
    BY <1>1, CountAppended
  <2>2. QED
    BY <1>2, <2>1
<1>6. QED
  BY <1>2, <1>3, <1>4, <1>5

LEMMA CloseFacts ==
  ASSUME TypeOK, NEW t \in Threads, NEW kind \in Kinds, Innermost(t, kind), Close(t)
  PROVE  /\ HeldTyped
         /\ Len(held'[t]) = Len(held[t]) - 1
         /\ \A u \in Threads \ {t} : held'[u] = held[u]
         /\ \A k \in Kinds :
              CountOf(held'[t], k) = CountOf(held[t], k) - (IF k = kind THEN 1 ELSE 0)
<1>1. held[t] \in Seq(Kinds) /\ held \in [Threads -> Seq(Kinds)]
  BY DEF TypeOK
<1>2. held'[t] = SubSeq(held[t], 1, Len(held[t]) - 1)
      /\ \A u \in Threads \ {t} : held'[u] = held[u]
  BY <1>1 DEF Close
<1>3. held[t] # <<>> /\ held[t][Len(held[t])] = kind
  BY DEF Innermost
<1>4. /\ held'[t] \in Seq(Kinds)
      /\ Len(held'[t]) = Len(held[t]) - 1
      /\ \A k \in Kinds :
           CountOf(held'[t], k) = CountOf(held[t], k) - (IF kind = k THEN 1 ELSE 0)
  BY <1>1, <1>2, <1>3, CountClosed
<1>5. HeldTyped
  BY <1>1, <1>2, <1>4 DEF Close, HeldTyped
<1>6. QED
  BY <1>2, <1>4, <1>5

LEMMA DepthsNext ==
  ASSUME NEW t, NEW kind
  PROVE  Depth(t, kind) = CountOf(held[t], kind) /\ Depth(t, kind)' = CountOf(held'[t], kind)
BY DEF Depth, CountOf

\* Opening or closing a bracket of one kind leaves the depths of the other kind, and of the
\* other threads.
LEMMA DepthsOthers ==
  ASSUME TypeOK, NEW t \in Threads, NEW kind \in Kinds, NEW k \in Kinds, k # kind,
         Open(t, kind) \/ (Innermost(t, kind) /\ Close(t))
  PROVE  /\ \A u \in Threads : Depth(u, k)' = Depth(u, k)
         /\ \A u \in Threads \ {t} : Depth(u, kind)' = Depth(u, kind)
<1>1. \A u \in Threads \ {t} : held'[u] = held[u]
  BY OpenFacts, CloseFacts
<1>2. CountOf(held'[t], k) = CountOf(held[t], k)
  <2>1. CountOf(held[t], k) \in Int
    <3>1. held[t] \in Seq(Kinds)
      BY DEF TypeOK
    <3>2. CountOf(held[t], k) \in 0 .. Len(held[t]) /\ Len(held[t]) \in Nat
      BY <3>1, CountAppended
    <3>3. QED
      BY <3>2
  <2>2. CASE Open(t, kind)
    <3>1. CountOf(held'[t], k) = CountOf(held[t], k) + 0
      BY <2>2, OpenFacts
    <3>2. QED
      BY <2>1, <3>1
  <2>3. CASE Innermost(t, kind) /\ Close(t)
    <3>1. CountOf(held'[t], k) = CountOf(held[t], k) - 0
      BY <2>3, CloseFacts
    <3>2. QED
      BY <2>1, <3>1
  <2>4. QED
    BY <2>2, <2>3
<1>3. \A u \in Threads : Depth(u, k)' = Depth(u, k)
  <2> TAKE u \in Threads
  <2>1. CASE u = t
    BY <1>2, <2>1, DepthsNext
  <2>2. CASE u # t
    BY <1>1, <2>2, DepthsNext
  <2>3. QED
    BY <2>1, <2>2
<1>4. \A u \in Threads \ {t} : Depth(u, kind)' = Depth(u, kind)
  BY <1>1, DepthsNext
<1>5. QED
  BY <1>3, <1>4

LEMMA DepthOpened ==
  ASSUME TypeOK, NEW t \in Threads, NEW kind \in Kinds, Open(t, kind), Len(held[t]) < MaxDepth
  PROVE  /\ Depth(t, kind) \in 0 .. MaxDepth - 1
         /\ Depth(t, kind)' = Depth(t, kind) + 1
<1>1. held[t] \in Seq(Kinds) /\ Len(held[t]) \in Nat /\ MaxDepth \in Nat
  BY ConstantsAssumption DEF TypeOK
<1>2. CountOf(held[t], kind) \in 0 .. Len(held[t])
  BY <1>1, CountAppended
<1>3. CountOf(held'[t], kind) = CountOf(held[t], kind) + 1
  BY OpenFacts
<1>4. CountOf(held[t], kind) \in 0 .. MaxDepth - 1
  BY <1>1, <1>2
<1>5. QED
  BY <1>3, <1>4, DepthsNext

LEMMA DepthClosed ==
  ASSUME TypeOK, NEW t \in Threads, NEW kind \in Kinds, Innermost(t, kind), Close(t),
         Len(held[t]) <= MaxDepth
  PROVE  /\ Depth(t, kind) \in 1 .. MaxDepth
         /\ Depth(t, kind)' = Depth(t, kind) - 1
<1>1. held[t] \in Seq(Kinds) /\ Len(held[t]) \in Nat /\ MaxDepth \in Nat
  BY ConstantsAssumption DEF TypeOK
<1>2. CountOf(held[t], kind) \in 0 .. Len(held[t])
  BY <1>1, CountAppended
<1>3. CountOf(held'[t], kind) = CountOf(held[t], kind) - 1
  BY CloseFacts
<1>4. held'[t] \in Seq(Kinds)
  <2>1. HeldTyped
    BY CloseFacts
  <2>2. QED
    BY <2>1 DEF HeldTyped
<1>5. CountOf(held'[t], kind) \in 0 .. Len(held'[t])
  BY <1>4, CountAppended
<1>6. CountOf(held[t], kind) \in 1 .. MaxDepth
  BY <1>1, <1>2, <1>3, <1>5
<1>7. QED
  BY <1>3, <1>6, DepthsNext

\* A bracket of the other kind, or one that closes, gives t no state.
LEMMA NoMoreStates ==
  ASSUME TypeOK, NEW t \in Threads, NEW kind \in Kinds,
         held' = held \/ Open(t, "io") \/ (Innermost(t, kind) /\ Close(t)),
         Holds(t, "state")'
  PROVE  Holds(t, "state")
<1>1. held[t] \in Seq(Kinds) /\ held \in [Threads -> Seq(Kinds)] /\ Len(held[t]) \in Nat
  BY DEF TypeOK
<1>2. CASE held' = held
  BY <1>2 DEF Holds
<1>3. CASE Open(t, "io")
  <2>1. held'[t] = Append(held[t], "io")
    BY <1>1, <1>3 DEF Open
  <2>2. PICK i \in 1 .. Len(held[t]) + 1 : Append(held[t], "io")[i] = "state"
    BY <1>1, <2>1 DEF Holds
  <2>3. i \in 1 .. Len(held[t]) /\ held[t][i] = "state"
    BY <1>1, <2>2
  <2>4. QED
    BY <1>1, <2>3 DEF Holds
<1>4. CASE Innermost(t, kind) /\ Close(t)
  <2>1. held'[t] = SubSeq(held[t], 1, Len(held[t]) - 1)
    BY <1>1, <1>4 DEF Close
  <2>2. \A i \in 1 .. Len(held[t]) - 1 : SubSeq(held[t], 1, Len(held[t]) - 1)[i] = held[t][i]
    BY <1>1
  <2>3. DOMAIN SubSeq(held[t], 1, Len(held[t]) - 1) = 1 .. Len(held[t]) - 1
    <3>1. held[t] # <<>>
      BY <1>4 DEF Innermost
    <3>2. Len(held[t]) - 1 \in Nat
      BY <1>1, <3>1
    <3>3. QED
      BY <1>1, <3>2
  <2>4. PICK i \in 1 .. Len(held[t]) - 1 : held[t][i] = "state"
    BY <2>1, <2>2, <2>3 DEF Holds
  <2>5. QED
    BY <1>1, <2>4 DEF Holds
<1>5. QED
  BY <1>2, <1>3, <1>4

-----------------------------------------------------------------------------
(* What a step of thread t leaves alone, and how the invariants use it. *)

Inv0 == TypeOK /\ BracketsInv /\ AloneInv /\ OwnersInv /\ OwnStatesInv

\* A step of t changes nothing of the other threads but wakes some.
LEMMA BracketsStep ==
  ASSUME BracketsInv, NEW t \in Threads, NEW label, MovesTo(t, label),
         \A u \in Threads \ {t} : held'[u] = held[u] /\ change'[u] = change[u],
         discipline' = discipline, BracketsOf(t)'
  PROVE  BracketsInv'
<1> SUFFICES ASSUME NEW u \in Threads, u # t
             PROVE  BracketsOf(u)'
  BY DEF BracketsInv
<1>1. BracketsOf(u) /\ held'[u] = held[u] /\ NewMode(u)' = NewMode(u)
  BY DEF BracketsInv, NewMode
<1>2. CASE pc'[u] = pc[u]
  BY <1>1, <1>2 DEF BracketsOf, Innermost, Switching
<1>3. CASE pc[u] = "acquireWait" /\ pc'[u] = "acquire"
  BY <1>1, <1>3 DEF BracketsOf, Innermost, Switching, Opening, Releasing, Ending
<1>4. CASE pc[u] = "startWait" /\ pc'[u] = "startExclusive"
  BY <1>1, <1>4 DEF BracketsOf, Innermost, Switching, Opening, Releasing, Ending
<1>5. CASE pc[u] = "endWait" /\ pc'[u] = "endExclusive"
  BY <1>1, <1>5 DEF BracketsOf, Innermost, Switching, Opening, Releasing, Ending
<1>6. QED
  BY <1>2, <1>3, <1>4, <1>5 DEF MovesTo

\* While a thread is in a call that uses the file, or about to enter one, no other thread
\* excludes it.
LEMMA NobodyExcludes ==
  ASSUME AloneInv, NEW t \in Threads, pc[t] # "idle" \/ MayUse(t)
  PROVE  \A u \in Threads \ {t} : ~Excluding(u)
BY DEF AloneInv, MayUse, Excluding

LEMMA AloneStep ==
  ASSUME AloneInv, NEW t \in Threads, NEW label, MovesTo(t, label),
         pc[t] # "idle" \/ MayUse(t), discipline' = discipline,
         \A u \in Threads \ {t} : held'[u] = held[u] /\ change'[u] = change[u],
         Excluding(t)' => \A u \in Threads \ {t} : pc[u] = "idle" /\ held[u] = <<>>
  PROVE  AloneInv'
<1> SUFFICES ASSUME NEW u \in Threads, NEW v \in Threads, v # u, Excluding(u)'
             PROVE  pc'[v] = "idle" /\ held'[v] = <<>>
  BY DEF AloneInv
<1>1. CASE u # t
  <2>1. ~Excluding(u)
    BY <1>1, NobodyExcludes
  <2>2. InUse(change[u])' = InUse(change[u])
    BY <1>1 DEF InUse
  <2>3. Switching(u)' => Switching(u)
    BY <1>1 DEF MovesTo, Switching
  <2>4. QED
    BY <2>1, <2>2, <2>3 DEF Excluding
<1>2. CASE u = t
  BY <1>2 DEF MovesTo
<1>3. QED
  BY <1>1, <1>2

\* A step of t in such a call, when the exclusive mode is left alone.
LEMMA SettledStep ==
  ASSUME SettledInv, \A u \in Threads : ~Excluding(u),
         NEW t \in Threads, NEW label, MovesTo(t, label), label \in ModeLabels,
         \A u \in Threads \ {t} : change'[u] = change[u],
         UNCHANGED <<currentThreadMode, discipline>>, CountsInv', ~Switching(t)'
  PROVE  OwnersInv'
<1>1. ModeLabels' = ModeLabels
  BY DEF ModeLabels, QuietCallers
<1>2. ASSUME NEW u \in Threads
      PROVE  PlacedAt(u)' /\ ~Excluding(u)'
  <2>1. CASE u = t
    BY <1>1, <2>1 DEF MovesTo, PlacedAt, Excluding
  <2>2. CASE u # t /\ pc'[u] = pc[u]
    <3>1. PlacedAt(u) /\ ~Excluding(u) /\ change'[u] = change[u]
      BY <2>2 DEF SettledInv
    <3>2. QED
      BY <1>1, <2>2, <3>1 DEF PlacedAt, Excluding, Switching, InUse
  <2>3. CASE u # t /\ pc'[u] # pc[u]
    <3>1. PlacedAt(u)
      BY DEF SettledInv
    <3>2. \/ pc[u] = "acquireWait" /\ pc'[u] = "acquire"
          \/ pc[u] = "startWait" /\ pc'[u] = "startExclusive"
          \/ pc[u] = "endWait" /\ pc'[u] = "endExclusive"
      BY <2>3 DEF MovesTo
    <3>3. pc[u] \in ModeLabels
      BY <3>1, <3>2 DEF PlacedAt
    <3>4. pc'[u] \in ModeLabels
      BY <3>2, <3>3 DEF ModeLabels, ExclusiveLabels, SynchronizedLabels, UnsynchronizedLabels
    <3>5. QED
      BY <1>1, <3>2, <3>4 DEF PlacedAt, Excluding, Switching
  <2>4. QED
    BY <2>1, <2>2, <2>3
<1>3. SettledInv'
  BY <1>2 DEF SettledInv
<1>4. QED
  BY <1>2, <1>3 DEF OwnersInv

\* A step of the thread that excludes the others, to another step of it.
LEMMA SwitchStep ==
  ASSUME NEW t \in Threads, Excluding(t)', AloneInv', SwitchInv(t)'
  PROVE  OwnersInv'
<1>1. \A u \in Threads : u # t => ~Excluding(u)'
  BY DEF AloneInv, Excluding, Switching
<1>2. QED
  BY <1>1 DEF OwnersInv

\* A step that ends the change of the mode.
LEMMA SwitchEnds ==
  ASSUME \A u \in Threads : pc'[u] = "idle", CountsInv'
  PROVE  OwnersInv'
<1>1. \A u \in Threads : ~Excluding(u)'
  BY DEF Switching, Excluding
<1>2. SettledInv'
  BY DEF SettledInv, PlacedAt, ModeLabels, ExclusiveLabels, SynchronizedLabels, UnsynchronizedLabels
<1>3. QED
  BY <1>1, <1>2 DEF OwnersInv

\* Steps that change neither the brackets, nor the mode, nor the counts.
LEMMA CountsStay ==
  ASSUME CountsInv, UNCHANGED <<currentThreadMode, exclusiveOwner, recurseCount,
                                exclusiveRecurseCount, held, discipline>>
  PROVE  CountsInv'
<1>1. \A u \in Threads : /\ Depth(u, "state")' = Depth(u, "state")
                         /\ Depth(u, "io")' = Depth(u, "io")
  BY DEF Depth
<1>2. QED
  BY <1>1 DEF CountsInv, QuietCallers

\* Steps between modes that do not exclude.
LEMMA CountsLoose ==
  ASSUME currentThreadMode' # Exclusive, exclusiveRecurseCount' = 0, ~QuietCallers'
  PROVE  CountsInv'
BY DEF CountsInv

\* A state opened or closed without a count.
LEMMA StateBrackets ==
  ASSUME TypeOK, CountsInv, NEW t \in Threads,
         Open(t, "state") \/ (Innermost(t, "state") /\ Close(t)),
         UNCHANGED <<currentThreadMode, discipline, exclusiveOwner, exclusiveRecurseCount>>,
         ~(currentThreadMode = Synchronized /\ QuietCallers)
  PROVE  CountsInv'
<1>1. \A u \in Threads : Depth(u, "io")' = Depth(u, "io")
  BY DepthsOthers DEF Kinds
<1>2. QuietCallers' = QuietCallers
  BY DEF QuietCallers
<1>3. QED
  BY <1>1, <1>2 DEF CountsInv

\* Whoever has a state of its own keeps it.
LEMMA OwnStatesStep ==
  ASSUME OwnStatesInv, NEW t \in Threads, NEW label, MovesTo(t, label),
         \A u \in Threads \ {t} : held'[u] = held[u],
         UNCHANGED <<discipline, aborted>>, threadStates \subseteq threadStates',
         \/ UNCHANGED currentThreadMode
         \/ currentThreadMode' # Exclusive
         \/ EntersQuietly => \A u \in Threads \ {t} : pc[u] = "idle" /\ held[u] = <<>>,
         EntersQuietly /\ OwnStateOf(t) => OwnStateOf(t)'
  PROVE  OwnStatesInv'
<1> SUFFICES ASSUME EntersQuietly
             PROVE  ~aborted /\ \A u \in Threads : OwnStateOf(u)'
  BY DEF OwnStatesInv, EntersQuietly
<1>1. ~aborted /\ \A u \in Threads : OwnStateOf(u)
  BY DEF OwnStatesInv
<1>2. ASSUME NEW u \in Threads, u # t
      PROVE  OwnStateOf(u)'
  <2>1. /\ held'[u] = held[u] /\ OwnStateOf(u)
        /\ Holds(u, "state")' = Holds(u, "state")
    BY <1>1, <1>2 DEF Holds
  <2>2. /\ pc'[u] \in Acquiring => pc[u] \in Acquiring
        /\ pc'[u] = "releaseMap" => pc[u] = "releaseMap"
    BY <1>2 DEF MovesTo, Acquiring
  <2>3. CASE currentThreadMode' = currentThreadMode \/ currentThreadMode' # Exclusive
    BY <2>1, <2>2, <2>3 DEF OwnStateOf
  <2>4. CASE pc[u] = "idle" /\ held[u] = <<>>
    <3>1. ~Holds(u, "state")
      BY <2>4 DEF Holds
    <3>2. QED
      BY <2>1, <2>2, <2>4, <3>1 DEF OwnStateOf, Acquiring
  <2>5. QED
    BY <1>2, <2>3, <2>4
<1>3. QED
  BY <1>1, <1>2

-----------------------------------------------------------------------------
(* One lemma for each action: the invariants of every discipline. *)

\* The parts of the invariant about t, unfolded.
LEMMA OfThread ==
  ASSUME Inv0, NEW t \in Threads
  PROVE  /\ pc[t] \in Labels /\ held[t] \in Seq(Kinds) /\ Len(held[t]) \in Nat
         /\ MaxDepth \in Nat /\ SizeModulus \in Nat /\ SizeModulus > MaxDepth
         /\ t # NoThread
         /\ Len(held[t]) <= MaxDepth
         /\ pc[t] \in Opening => Len(held[t]) < MaxDepth
         /\ pc[t] \in Releasing => Innermost(t, "state")
         /\ pc[t] \in Ending => Innermost(t, "io")
         /\ Switching(t) => held[t] = <<>> /\ NewMode(t) \in discipline.modes
<1>1. BracketsOf(t) /\ TypeOK
  BY DEF Inv0, BracketsInv
<1>2. pc[t] \in Labels /\ held[t] \in Seq(Kinds)
  BY <1>1 DEF TypeOK
<1>3. Len(held[t]) \in Nat
  BY <1>2
<1>4. QED
  BY <1>1, <1>2, <1>3, ConstantsAssumption DEF BracketsOf

\* Where a thread is that uses the file.
Using == Opening \cup Releasing \cup Ending \cup {"idle", "ownerLast"}

\* A step of t in a call that uses the file.
LEMMA UseStep ==
  ASSUME Inv0, NEW t \in Threads, NEW label \in Using, MovesTo(t, label), ~Switching(t),
         pc[t] # "idle" \/ MayUse(t),
         \A u \in Threads \ {t} : held'[u] = held[u],
         UNCHANGED <<change, discipline, currentThreadMode, aborted>>,
         threadStates \subseteq threadStates', TypeOK', BracketsOf(t)',
         ExclusiveQuiet /\ SettledInv => label \in ModeLabels /\ CountsInv',
         EntersQuietly /\ OwnStateOf(t) => OwnStateOf(t)'
  PROVE  Inv0'
<1>1. BracketsInv'
  BY BracketsStep DEF Inv0
<1>2. ~Switching(t)'
  BY DEF MovesTo, Switching, Using, Opening, Releasing, Ending
<1>3. \A u \in Threads : ~Excluding(u)
  BY NobodyExcludes DEF Inv0, Excluding
<1>4. AloneInv'
  BY <1>2, AloneStep DEF Inv0, Excluding
<1>5. OwnersInv'
  <2> SUFFICES ASSUME ExclusiveQuiet PROVE OwnersInv'
    BY DEF OwnersInv, ExclusiveQuiet
  <2>1. SettledInv
    BY <1>3 DEF Inv0, OwnersInv
  <2>2. QED
    BY <1>2, <1>3, <2>1, SettledStep
<1>6. OwnStatesInv'
  BY OwnStatesStep DEF Inv0
<1>7. QED
  BY <1>1, <1>4, <1>5, <1>6 DEF Inv0

\* Steps of a thread that only sleep, or go from one part of a call to the next.
LEMMA PassKeeps ==
  ASSUME Inv0, NEW t \in Threads, NEW label \in Using, Go(t, label), ~Switching(t),
         pc[t] # "idle" \/ MayUse(t),
         m_MapMutex' \in Threads \cup {NoThread},
         UNCHANGED <<currentThreadMode, threadStates, exclusiveOwner, recurseCount,
                     exclusiveRecurseCount, held, change, discipline, switches, aborted>>,
         calls' \in [Threads -> Nat],
         ExclusiveQuiet /\ SettledInv => label \in ModeLabels,
         EntersQuietly /\ OwnStateOf(t) =>
           /\ currentThreadMode = Exclusive => label \notin Acquiring
           /\ label = "releaseMap" => t \in threadStates,
         BracketsOf(t)'
  PROVE  Inv0'
<1>1. TypeOK /\ MovesTo(t, label)
  BY GoMoves DEF Inv0, Using, Opening, Releasing, Ending, Labels
<1>2. TypeOK'
  BY <1>1 DEF TypeOK, MovesTo
<1>3. CountsInv => CountsInv'
  BY CountsStay
<1>4. pc'[t] = label /\ Holds(t, "state")' = Holds(t, "state")
  BY <1>1 DEF MovesTo, Holds
<1>5. EntersQuietly /\ OwnStateOf(t) => OwnStateOf(t)'
  BY <1>4 DEF OwnStateOf
<1>6. QED
  BY <1>1, <1>2, <1>3, <1>5, UseStep DEF SettledInv

\* Where t is tells the mode.
LEMMA SynchronizedCalls ==
  ASSUME TypeOK, SettledInv, NEW t \in Threads, pc[t] \in Acquiring \cup {"releaseCount"}
  PROVE  /\ currentThreadMode # Exclusive
         /\ QuietCallers => currentThreadMode = Synchronized
<1>1. PlacedAt(t)
  BY DEF SettledInv
<1>2. pc[t] \in ModeLabels
  BY <1>1 DEF PlacedAt, Acquiring
<1>3. QED
  BY <1>2 DEF ModeLabels, ExclusiveLabels, SynchronizedLabels, UnsynchronizedLabels, Acquiring,
              Unsynchronized, Synchronized, Exclusive, TypeOK, Modes

LEMMA ExclusiveCalls ==
  ASSUME TypeOK, SettledInv, NEW t \in Threads
  PROVE  /\ pc[t] \in {"releaseMap", "startExclusive", "startSleep", "startWait",
                       "endExclusive", "endSleep", "endWait", "ownerLast"} =>
              currentThreadMode = Exclusive
         /\ pc[t] \in {"getThird", "getMap", "releaseThird"} =>
              currentThreadMode = Exclusive \/ ~QuietCallers
         /\ pc[t] \in {"start", "end"} => currentThreadMode # Exclusive
         /\ pc[t] \notin Leaving
<1>1. PlacedAt(t)
  BY DEF SettledInv
<1>2. QED
  BY <1>1 DEF PlacedAt, ModeLabels, ExclusiveLabels, SynchronizedLabels, UnsynchronizedLabels,
              Leaving, Unsynchronized, Synchronized, Exclusive, TypeOK, Modes

LEMMA GetStateKeeps ==
  ASSUME Inv0, NEW t \in Threads, GetState(t)
  PROVE  Inv0'
<1>1. /\ TypeOK /\ MayUse(t) /\ pc[t] = "idle" /\ ~Switching(t) /\ Len(held[t]) < MaxDepth
      /\ calls[t] > 0 /\ calls' = [calls EXCEPT ![t] = @ - 1]
      /\ UNCHANGED <<file, change, discipline, switches, aborted>>
  BY DEF Inv0, GetState, Opens, MayUse, At, Switching
<1>2. calls' \in [Threads -> Nat]
  BY <1>1 DEF TypeOK
<1>3. CASE currentThreadMode = Unsynchronized
  <2>1. Open(t, "state") /\ pc' = pc
    BY <1>3 DEF GetState
  <2>2. MovesTo(t, "idle")
    BY <1>1, <2>1 DEF MovesTo, TypeOK
  <2>3. /\ HeldTyped /\ Len(held'[t]) = Len(held[t]) + 1
        /\ \A u \in Threads \ {t} : held'[u] = held[u]
    BY <1>1, <2>1, OpenFacts DEF Kinds
  <2>4. TypeOK'
    BY <1>1, <1>2, <2>1, <2>3 DEF TypeOK, HeldTyped, file
  <2>5. BracketsOf(t)'
    BY <1>1, <2>1, <2>3, OfThread DEF BracketsOf, Opening, Releasing, Ending, Switching
  <2>6. CountsInv => CountsInv'
    BY <1>1, <1>3, <2>1, StateBrackets DEF file, Unsynchronized, Synchronized
  <2>7. "idle" \in ModeLabels /\ "idle" \in Using
    BY DEF ModeLabels, ExclusiveLabels, SynchronizedLabels, UnsynchronizedLabels, Using
  <2>8. OwnStateOf(t)'
    BY <1>1, <1>3, <2>1 DEF OwnStateOf, Unsynchronized, Exclusive, file
  <2>9. QED
    BY <1>1, <2>2, <2>3, <2>4, <2>5, <2>6, <2>7, <2>8, UseStep DEF file, SettledInv
<1>4. CASE currentThreadMode # Unsynchronized
  <2>1. Go(t, "getSecond") /\ held' = held
    BY <1>4 DEF GetState
  <2>2. pc'[t] = "getSecond"
    BY <1>1, <2>1 DEF Go, TypeOK
  <2>3. BracketsOf(t)'
    BY <1>1, <2>1, <2>2, OfThread DEF BracketsOf, Opening, Releasing, Ending, Switching
  <2>4. "getSecond" \in ModeLabels
    BY <1>1, <1>4 DEF ModeLabels, ExclusiveLabels, SynchronizedLabels, UnsynchronizedLabels,
                      TypeOK, Modes, Unsynchronized, Synchronized, Exclusive
  <2>5. "getSecond" \in Using /\ "getSecond" \notin Acquiring
    BY DEF Using, Opening, Acquiring
  <2>6. m_MapMutex' \in Threads \cup {NoThread}
    BY <1>1 DEF TypeOK, file
  <2>7. QED
    BY <1>1, <1>2, <2>1, <2>3, <2>4, <2>5, <2>6, PassKeeps DEF file
<1>5. QED
  BY <1>3, <1>4

LEMMA GetSecondKeeps ==
  ASSUME Inv0, NEW t \in Threads, GetSecond(t)
  PROVE  Inv0'
<1>1. /\ TypeOK /\ pc[t] = "getSecond" /\ ~Switching(t)
      /\ UNCHANGED <<file, held, bounds, aborted>>
  BY DEF Inv0, GetSecond, At, Switching
<1>2. PICK l \in {"acquire", "getThird"} :
        Go(t, l) /\ (l = "acquire" <=> currentThreadMode = Synchronized)
  BY DEF GetSecond
<1>3. pc'[t] = l
  BY <1>1, <1>2 DEF Go, TypeOK
<1>4. BracketsOf(t)'
  BY <1>1, <1>2, <1>3, OfThread DEF BracketsOf, Opening, Releasing, Ending, Switching, bounds
<1>5. SettledInv => l \in ModeLabels
  <2> SUFFICES ASSUME SettledInv PROVE l \in ModeLabels
    OBVIOUS
  <2>1. pc[t] \in ModeLabels
    BY <1>1 DEF SettledInv, PlacedAt
  <2>2. QED
    BY <1>1, <1>2, <2>1 DEF ModeLabels, ExclusiveLabels, SynchronizedLabels, UnsynchronizedLabels,
                            TypeOK, Modes, Unsynchronized, Synchronized, Exclusive
<1>6. l \in Using /\ l # "releaseMap" /\ (currentThreadMode = Exclusive => l \notin Acquiring)
  BY <1>2 DEF Using, Opening, Acquiring, Synchronized, Exclusive
<1>7. m_MapMutex' \in Threads \cup {NoThread} /\ calls' \in [Threads -> Nat]
  BY <1>1 DEF TypeOK, file, bounds
<1>8. QED
  BY <1>1, <1>2, <1>4, <1>5, <1>6, <1>7, PassKeeps DEF file, bounds

LEMMA GetThirdKeeps ==
  ASSUME Inv0, NEW t \in Threads, GetThird(t)
  PROVE  Inv0'
<1>1. /\ TypeOK /\ pc[t] = "getThird" /\ ~Switching(t)
      /\ UNCHANGED <<file, bounds, aborted>>
  BY DEF Inv0, GetThird, At, Switching
<1>2. SettledInv => currentThreadMode = Exclusive \/ ~QuietCallers
  BY <1>1, ExclusiveCalls
<1>3. CASE Go(t, "getMap") /\ held' = held
  <2>1. pc'[t] = "getMap"
    BY <1>1, <1>3 DEF Go, TypeOK
  <2>2. BracketsOf(t)'
    BY <1>1, <1>3, <2>1, OfThread DEF BracketsOf, Opening, Releasing, Ending, Switching, bounds
  <2>3. SettledInv => "getMap" \in ModeLabels
    <3>1. CASE currentThreadMode = Exclusive
      BY <3>1 DEF ModeLabels, ExclusiveLabels
    <3>2. CASE currentThreadMode # Exclusive /\ ~QuietCallers
      BY <3>2 DEF ModeLabels
    <3>3. QED
      BY <1>2, <3>1, <3>2
  <2>4. "getMap" \in Using /\ "getMap" \notin Acquiring
    BY DEF Using, Opening, Acquiring
  <2>5. m_MapMutex' \in Threads \cup {NoThread} /\ calls' \in [Threads -> Nat]
    BY <1>1 DEF TypeOK, file, bounds
  <2>6. QED
    BY <1>1, <1>3, <2>2, <2>3, <2>4, <2>5, PassKeeps DEF file, bounds
<1>4. CASE currentThreadMode # Exclusive /\ Go(t, "idle") /\ Open(t, "state")
  <2>1. MovesTo(t, "idle")
    BY <1>1, <1>4, GoMoves DEF Labels
  <2>2. /\ HeldTyped /\ Len(held'[t]) = Len(held[t]) + 1
        /\ \A u \in Threads \ {t} : held'[u] = held[u]
    BY <1>1, <1>4, OpenFacts DEF Kinds
  <2>3. TypeOK'
    BY <1>1, <2>1, <2>2 DEF TypeOK, HeldTyped, MovesTo, file, bounds
  <2>4. BracketsOf(t)'
    BY <1>1, <2>1, <2>2, OfThread
    DEF BracketsOf, Opening, Releasing, Ending, Switching, MovesTo
  <2>5. SettledInv => CountsInv'
    BY <1>1, <1>2, <1>4, StateBrackets DEF SettledInv, file, bounds
  <2>6. "idle" \in ModeLabels /\ "idle" \in Using
    BY DEF ModeLabels, ExclusiveLabels, SynchronizedLabels, UnsynchronizedLabels, Using
  <2>7. OwnStateOf(t)'
    BY <1>1, <1>4, <2>1 DEF OwnStateOf, MovesTo, file
  <2>8. QED
    BY <1>1, <2>1, <2>2, <2>3, <2>4, <2>5, <2>6, <2>7, UseStep DEF file, bounds
<1>5. QED
  BY <1>3, <1>4 DEF GetThird

LEMMA GetOwnStateKeeps ==
  ASSUME Inv0, NEW t \in Threads, GetOwnState(t)
  PROVE  Inv0'
<1>1. /\ TypeOK /\ pc[t] = "getMap" /\ ~Switching(t) /\ Go(t, "idle") /\ Open(t, "state")
      /\ threadStates' = threadStates \cup {t}
      /\ UNCHANGED <<currentThreadMode, m_MapMutex, exclusiveOwner, recurseCount,
                     exclusiveRecurseCount, bounds, aborted>>
  BY DEF Inv0, GetOwnState, At, Switching
<1>2. MovesTo(t, "idle")
  BY <1>1, GoMoves DEF Labels
<1>3. /\ HeldTyped /\ Len(held'[t]) = Len(held[t]) + 1
      /\ \A u \in Threads \ {t} : held'[u] = held[u]
  BY <1>1, OpenFacts DEF Kinds
<1>4. TypeOK'
  BY <1>1, <1>2, <1>3 DEF TypeOK, HeldTyped, MovesTo, bounds
<1>5. BracketsOf(t)'
  BY <1>1, <1>2, <1>3, OfThread DEF BracketsOf, Opening, Releasing, Ending, Switching, MovesTo
<1>6. SettledInv => CountsInv'
  <2> SUFFICES ASSUME SettledInv PROVE CountsInv'
    OBVIOUS
  <2>1. ~(currentThreadMode = Synchronized /\ QuietCallers)
    BY <1>1, ExclusiveCalls DEF Synchronized, Exclusive
  <2>2. QED
    BY <1>1, <2>1, StateBrackets DEF SettledInv, bounds
<1>7. "idle" \in ModeLabels /\ "idle" \in Using
  BY DEF ModeLabels, ExclusiveLabels, SynchronizedLabels, UnsynchronizedLabels, Using
<1>8. OwnStateOf(t)'
  BY <1>1, <1>2 DEF OwnStateOf, MovesTo, Acquiring
<1>9. QED
  BY <1>1, <1>2, <1>3, <1>4, <1>5, <1>6, <1>7, <1>8, UseStep DEF bounds

\* t takes the state of the output, which nobody has, or has it once more.
LEMMA TakeKeeps ==
  ASSUME Inv0, NEW t \in Threads, pc[t] \in {"acquireOwner", "acquireSelf"}, MovesTo(t, "idle"),
         Open(t, "state"), exclusiveOwner' = t, m_MapMutex' = NoThread,
         \/ exclusiveOwner = NoThread /\ recurseCount' = 1
         \/ exclusiveOwner = t /\ recurseCount' = (recurseCount + 1) % SizeModulus,
         UNCHANGED <<currentThreadMode, threadStates, exclusiveRecurseCount, bounds, aborted>>
  PROVE  Inv0'
<1>1. TypeOK /\ ~Switching(t) /\ pc[t] \in Acquiring
  BY DEF Inv0, Switching, Acquiring
<1>2. /\ HeldTyped /\ Len(held'[t]) = Len(held[t]) + 1
      /\ \A u \in Threads \ {t} : held'[u] = held[u]
  BY <1>1, OpenFacts DEF Kinds
<1>3. Len(held[t]) < MaxDepth
  BY <1>1, OfThread DEF Opening
<1>4. TypeOK'
  <2>1. recurseCount \in Int /\ recurseCount + 1 \in Int
    BY <1>1, OfThread DEF TypeOK
  <2>2. recurseCount' \in 0 .. SizeModulus - 1
    <3>1. (recurseCount + 1) % SizeModulus \in 0 .. SizeModulus - 1
      BY <2>1, ModRange
    <3>2. 1 \in 0 .. SizeModulus - 1
      BY <1>3, OfThread
    <3>3. QED
      BY <3>1, <3>2
  <2>3. QED
    BY <1>1, <1>2, <2>2 DEF TypeOK, HeldTyped, MovesTo, bounds
<1>5. BracketsOf(t)'
  BY <1>2, <1>3, OfThread DEF BracketsOf, Opening, Releasing, Ending, Switching, MovesTo
<1>6. ASSUME SettledInv, QuietCallers
      PROVE  CountsInv'
  <2>1. currentThreadMode = Synchronized /\ CountsInv
    BY <1>1, <1>6, SynchronizedCalls DEF SettledInv
  <2>2. /\ Depth(t, "state") \in 0 .. MaxDepth - 1 /\ Depth(t, "state")' = Depth(t, "state") + 1
        /\ \A u \in Threads \ {t} : Depth(u, "state")' = Depth(u, "state")
    BY <1>1, <1>3, DepthOpened, DepthsOthers DEF Kinds
  <2>3. \A u \in Threads : Depth(u, "state") = IF u = exclusiveOwner THEN recurseCount ELSE 0
    BY <1>6, <2>1 DEF CountsInv
  <2>4. Depth(t, "state")' = recurseCount' /\ recurseCount' > 0
    <3>1. CASE exclusiveOwner = NoThread /\ recurseCount' = 1
      <4>1. Depth(t, "state") = 0
        BY <2>3, <3>1, OfThread
      <4>2. QED
        BY <2>2, <3>1, <4>1
    <3>2. CASE exclusiveOwner = t /\ recurseCount' = (recurseCount + 1) % SizeModulus
      <4>1. Depth(t, "state") = recurseCount
        BY <2>3, <3>2
      <4>2. recurseCount + 1 \in 0 .. SizeModulus - 1
        BY <2>2, <4>1, OfThread
      <4>3. recurseCount' = recurseCount + 1
        BY <3>2, <4>2, ModSmall
      <4>4. QED
        BY <2>2, <4>1, <4>3
    <3>3. QED
      BY <3>1, <3>2
  <2>5. \A u \in Threads \ {t} : Depth(u, "state") = 0
    BY <2>3, OfThread
  <2>6. QED
    BY <2>1, <2>2, <2>4, <2>5 DEF CountsInv, Unsynchronized, Synchronized, Exclusive
<1>7. ASSUME SettledInv, ~QuietCallers
      PROVE  CountsInv'
  <2>1. currentThreadMode # Exclusive /\ exclusiveRecurseCount = 0
    BY <1>1, <1>7, SynchronizedCalls DEF SettledInv, CountsInv
  <2>2. ~QuietCallers'
    BY <1>7 DEF QuietCallers, bounds
  <2>3. QED
    BY <2>1, <2>2, CountsLoose
<1>8. "idle" \in ModeLabels /\ "idle" \in Using
  BY DEF ModeLabels, ExclusiveLabels, SynchronizedLabels, UnsynchronizedLabels, Using
<1>9. OwnStateOf(t) => OwnStateOf(t)'
  BY <1>1 DEF OwnStateOf, MovesTo
<1>10. QED
  BY <1>1, <1>2, <1>4, <1>5, <1>6, <1>7, <1>8, <1>9, UseStep DEF bounds, Acquiring

\* t goes on in waitExclusiveThreadAcquire, or sleeps in it.
LEMMA TriesKeeps ==
  ASSUME Inv0, NEW t \in Threads, NEW label \in Acquiring, pc[t] \in Acquiring, Go(t, label),
         m_MapMutex' \in Threads \cup {NoThread},
         UNCHANGED <<currentThreadMode, threadStates, exclusiveOwner, recurseCount,
                     exclusiveRecurseCount, held, bounds, aborted>>
  PROVE  Inv0'
<1>1. TypeOK /\ ~Switching(t) /\ pc[t] # "idle"
  BY DEF Inv0, Switching, Acquiring
<1>2. pc'[t] = label
  BY <1>1 DEF Go, TypeOK
<1>3. BracketsOf(t)'
  BY <1>1, <1>2, OfThread DEF BracketsOf, Opening, Releasing, Ending, Acquiring, Switching, bounds
<1>4. SettledInv => label \in ModeLabels
  <2> SUFFICES ASSUME SettledInv PROVE label \in ModeLabels
    OBVIOUS
  <2>1. currentThreadMode # Exclusive /\ (QuietCallers => currentThreadMode = Synchronized)
    BY <1>1, SynchronizedCalls
  <2>2. QED
    BY <2>1 DEF ModeLabels, SynchronizedLabels, Acquiring
<1>5. /\ label \in Using /\ label # "releaseMap"
      /\ OwnStateOf(t) => (currentThreadMode = Exclusive => label \notin Acquiring)
  BY DEF Using, Opening, OwnStateOf, Acquiring
<1>6. calls' \in [Threads -> Nat]
  BY <1>1 DEF TypeOK, bounds
<1>7. QED
  BY <1>1, <1>3, <1>4, <1>5, <1>6, PassKeeps DEF bounds

LEMMA AcquireKeeps ==
  ASSUME Inv0, NEW t \in Threads, Acquire(t)
  PROVE  Inv0'
<1>1. /\ TypeOK /\ pc[t] = "acquire" /\ m_MapMutex' = t
      /\ UNCHANGED <<currentThreadMode, threadStates, exclusiveOwner, recurseCount,
                     exclusiveRecurseCount, held, bounds, aborted>>
  BY DEF Inv0, Acquire, At
<1>2. PICK l \in {"acquireSleep", "acquireOwner"} : Go(t, l)
  BY DEF Acquire
<1>3. QED
  BY <1>1, <1>2, TriesKeeps DEF Acquiring

LEMMA TakeOwnerKeeps ==
  ASSUME Inv0, NEW t \in Threads, TakeOwner(t)
  PROVE  Inv0'
<1>1. /\ TypeOK /\ pc[t] = "acquireOwner"
      /\ UNCHANGED <<currentThreadMode, threadStates, exclusiveRecurseCount, bounds, aborted>>
  BY DEF Inv0, TakeOwner, At
<1>2. CASE Unowned
  <2>1. /\ BroadcastAndGo(t, "idle") /\ Open(t, "state") /\ exclusiveOwner' = t
        /\ recurseCount' = 1 /\ m_MapMutex' = NoThread
    BY <1>2 DEF TakeOwner
  <2>2. MovesTo(t, "idle")
    BY <1>1, <2>1, BroadcastMoves DEF Labels
  <2>3. QED
    BY <1>1, <1>2, <2>1, <2>2, TakeKeeps DEF Unowned
<1>3. CASE ~Unowned
  <2>1. /\ Go(t, "acquireSelf")
        /\ UNCHANGED <<m_MapMutex, exclusiveOwner, recurseCount, held>>
    BY <1>3 DEF TakeOwner
  <2>2. QED
    BY <1>1, <2>1, TriesKeeps DEF Acquiring, TypeOK
<1>4. QED
  BY <1>2, <1>3

LEMMA CountOwnerKeeps ==
  ASSUME Inv0, NEW t \in Threads, CountOwner(t)
  PROVE  Inv0'
<1>1. /\ TypeOK /\ pc[t] = "acquireSelf"
      /\ UNCHANGED <<currentThreadMode, threadStates, exclusiveOwner, exclusiveRecurseCount,
                     bounds, aborted>>
  BY DEF Inv0, CountOwner, At
<1>2. CASE exclusiveOwner = t
  <2>1. /\ Go(t, "idle") /\ Open(t, "state") /\ m_MapMutex' = NoThread
        /\ recurseCount' = (recurseCount + 1) % SizeModulus
    BY <1>2 DEF CountOwner
  <2>2. MovesTo(t, "idle")
    BY <1>1, <2>1, GoMoves DEF Labels
  <2>3. QED
    BY <1>1, <1>2, <2>1, <2>2, TakeKeeps
<1>3. CASE exclusiveOwner # t
  <2>1. Go(t, "acquireSleep") /\ UNCHANGED <<m_MapMutex, recurseCount, held>>
    BY <1>3 DEF CountOwner
  <2>2. QED
    BY <1>1, <2>1, TriesKeeps DEF Acquiring, TypeOK
<1>4. QED
  BY <1>2, <1>3

\* A thread in one part of waitExclusiveThread goes to another, or to sleep.
LEMMA WaitsKeeps ==
  ASSUME Inv0, NEW t \in Threads, NEW label \in Using, ~Switching(t), pc[t] # "idle",
         Go(t, label), m_MapMutex' \in Threads \cup {NoThread},
         UNCHANGED <<currentThreadMode, threadStates, exclusiveOwner, recurseCount,
                     exclusiveRecurseCount, held, bounds, aborted>>,
         label \notin Acquiring \cup {"releaseMap"},
         pc[t] \in Opening <=> label \in Opening, pc[t] \in Ending <=> label \in Ending,
         label \notin Releasing,
         ExclusiveQuiet /\ SettledInv => label \in ModeLabels
  PROVE  Inv0'
<1>1. TypeOK
  BY DEF Inv0
<1>2. pc'[t] = label
  BY <1>1 DEF Go, TypeOK
<1>3. BracketsOf(t)'
  <2>1. ~Switching(t)'
    BY <1>2 DEF Switching, Using, Opening, Releasing, Ending
  <2>2. QED
    BY <1>2, <2>1, OfThread DEF BracketsOf, Innermost, bounds
<1>4. calls' \in [Threads -> Nat]
  BY <1>1 DEF TypeOK, bounds
<1>5. QED
  BY <1>3, <1>4, PassKeeps DEF bounds

LEMMA SleepKeeps ==
  ASSUME Inv0, NEW t \in Threads, Sleep(t)
  PROVE  Inv0'
<1>1. /\ TypeOK /\ m_MapMutex' = NoThread
      /\ UNCHANGED <<currentThreadMode, threadStates, exclusiveOwner, recurseCount,
                     exclusiveRecurseCount, held, bounds, aborted>>
  BY DEF Inv0, Sleep
<1>2. CASE pc[t] = "acquireSleep" /\ Go(t, "acquireWait")
  BY <1>1, <1>2, TriesKeeps DEF Acquiring
<1>3. CASE pc[t] = "startSleep" /\ Go(t, "startWait")
  <2>1. SettledInv => "startWait" \in ModeLabels
    BY <1>1, <1>3, ExclusiveCalls DEF ModeLabels, ExclusiveLabels
  <2>2. QED
    BY <1>1, <1>3, <2>1, WaitsKeeps
    DEF Using, Opening, Releasing, Ending, Acquiring, Switching
<1>4. CASE pc[t] = "endSleep" /\ Go(t, "endWait")
  <2>1. SettledInv => "endWait" \in ModeLabels
    BY <1>1, <1>4, ExclusiveCalls DEF ModeLabels, ExclusiveLabels
  <2>2. QED
    BY <1>1, <1>4, <2>1, WaitsKeeps
    DEF Using, Opening, Releasing, Ending, Acquiring, Switching
<1>5. QED
  BY <1>2, <1>3, <1>4 DEF Sleep, At

\* t releases a state that it has without a count.
LEMMA GiveKeeps ==
  ASSUME Inv0, NEW t \in Threads, ~Switching(t), pc[t] # "idle" \/ MayUse(t),
         MovesTo(t, "idle"), Innermost(t, "state"), Close(t),
         recurseCount' \in 0 .. SizeModulus - 1,
         UNCHANGED <<currentThreadMode, threadStates, m_MapMutex, exclusiveOwner,
                     exclusiveRecurseCount, bounds, aborted>>,
         ExclusiveQuiet /\ SettledInv => ~(currentThreadMode = Synchronized /\ QuietCallers)
  PROVE  Inv0'
<1>1. TypeOK /\ "state" \in Kinds
  BY DEF Inv0, Kinds
<1>2. /\ HeldTyped /\ Len(held'[t]) = Len(held[t]) - 1
      /\ \A u \in Threads \ {t} : held'[u] = held[u]
  BY <1>1, CloseFacts
<1>3. TypeOK'
  BY <1>1, <1>2 DEF TypeOK, HeldTyped, MovesTo, bounds
<1>4. BracketsOf(t)'
  BY <1>2, OfThread DEF BracketsOf, Opening, Releasing, Ending, Switching, MovesTo
<1>5. ExclusiveQuiet /\ SettledInv => CountsInv'
  BY <1>1, StateBrackets DEF SettledInv, bounds
<1>6. "idle" \in ModeLabels /\ "idle" \in Using
  BY DEF ModeLabels, ExclusiveLabels, SynchronizedLabels, UnsynchronizedLabels, Using
<1>7. Holds(t, "state")' => Holds(t, "state")
  BY <1>1, NoMoreStates
<1>8. OwnStateOf(t) => OwnStateOf(t)'
  BY <1>7 DEF OwnStateOf, MovesTo, Acquiring
<1>9. QED
  BY <1>2, <1>3, <1>4, <1>5, <1>6, <1>8, UseStep DEF bounds

LEMMA ReleaseStateKeeps ==
  ASSUME Inv0, NEW t \in Threads, ReleaseState(t)
  PROVE  Inv0'
<1>1. /\ TypeOK /\ MayUse(t) /\ pc[t] = "idle" /\ ~Switching(t) /\ Innermost(t, "state")
      /\ UNCHANGED <<file, bounds, aborted>>
  BY DEF Inv0, ReleaseState, MayUse, At, Switching
<1>2. CASE currentThreadMode = Unsynchronized
  <2>1. Close(t) /\ pc' = pc
    BY <1>2 DEF ReleaseState
  <2>2. MovesTo(t, "idle")
    BY <1>1, <2>1 DEF MovesTo, TypeOK
  <2>3. recurseCount' \in 0 .. SizeModulus - 1
    BY <1>1 DEF TypeOK, file
  <2>4. QED
    BY <1>1, <1>2, <2>1, <2>2, <2>3, GiveKeeps DEF file, Unsynchronized, Synchronized
<1>3. CASE currentThreadMode # Unsynchronized
  <2>1. Go(t, "releaseSecond") /\ held' = held
    BY <1>3 DEF ReleaseState
  <2>2. pc'[t] = "releaseSecond"
    BY <1>1, <2>1 DEF Go, TypeOK
  <2>3. BracketsOf(t)'
    BY <1>1, <2>1, <2>2, OfThread
    DEF BracketsOf, Opening, Releasing, Ending, Switching, Innermost, bounds
  <2>4. "releaseSecond" \in ModeLabels
    BY <1>1, <1>3 DEF ModeLabels, ExclusiveLabels, SynchronizedLabels, UnsynchronizedLabels,
                      TypeOK, Modes, Unsynchronized, Synchronized, Exclusive
  <2>5. "releaseSecond" \in Using /\ "releaseSecond" \notin Acquiring
    BY DEF Using, Releasing, Acquiring
  <2>6. m_MapMutex' \in Threads \cup {NoThread} /\ calls' \in [Threads -> Nat]
    BY <1>1 DEF TypeOK, file, bounds
  <2>7. QED
    BY <1>1, <2>1, <2>3, <2>4, <2>5, <2>6, PassKeeps DEF file, bounds
<1>4. QED
  BY <1>2, <1>3

LEMMA ReleaseSecondKeeps ==
  ASSUME Inv0, NEW t \in Threads, ReleaseSecond(t)
  PROVE  Inv0'
<1>1. /\ TypeOK /\ pc[t] = "releaseSecond" /\ ~Switching(t)
      /\ UNCHANGED <<file, held, bounds, aborted>>
  BY DEF Inv0, ReleaseSecond, At, Switching
<1>2. PICK l \in {"releaseCount", "releaseThird"} :
        Go(t, l) /\ (l = "releaseCount" <=> currentThreadMode = Synchronized)
  BY DEF ReleaseSecond
<1>3. pc'[t] = l
  BY <1>1, <1>2 DEF Go, TypeOK
<1>4. BracketsOf(t)'
  BY <1>1, <1>2, <1>3, OfThread
  DEF BracketsOf, Opening, Releasing, Ending, Switching, Innermost, bounds
<1>5. SettledInv => l \in ModeLabels
  <2> SUFFICES ASSUME SettledInv PROVE l \in ModeLabels
    OBVIOUS
  <2>1. pc[t] \in ModeLabels
    BY <1>1 DEF SettledInv, PlacedAt
  <2>2. QED
    BY <1>1, <1>2, <2>1 DEF ModeLabels, ExclusiveLabels, SynchronizedLabels, UnsynchronizedLabels,
                            TypeOK, Modes, Unsynchronized, Synchronized, Exclusive
<1>6. l \in Using /\ l # "releaseMap" /\ l \notin Acquiring
  BY <1>2 DEF Using, Releasing, Acquiring
<1>7. m_MapMutex' \in Threads \cup {NoThread} /\ calls' \in [Threads -> Nat]
  BY <1>1 DEF TypeOK, file, bounds
<1>8. QED
  BY <1>1, <1>2, <1>4, <1>5, <1>6, <1>7, PassKeeps DEF file, bounds

LEMMA ReleaseThirdKeeps ==
  ASSUME Inv0, NEW t \in Threads, ReleaseThird(t)
  PROVE  Inv0'
<1>1. /\ TypeOK /\ pc[t] = "releaseThird" /\ ~Switching(t) /\ Innermost(t, "state")
      /\ UNCHANGED <<file, bounds, aborted>>
  BY OfThread DEF Inv0, ReleaseThird, At, Switching, Releasing
<1>2. CASE currentThreadMode = Exclusive
  <2>1. Go(t, "releaseMap") /\ held' = held
    BY <1>2 DEF ReleaseThird
  <2>2. pc'[t] = "releaseMap"
    BY <1>1, <2>1 DEF Go, TypeOK
  <2>3. BracketsOf(t)'
    BY <1>1, <2>1, <2>2, OfThread
    DEF BracketsOf, Opening, Releasing, Ending, Switching, Innermost, bounds
  <2>4. "releaseMap" \in ModeLabels
    BY <1>2 DEF ModeLabels, ExclusiveLabels
  <2>5. "releaseMap" \in Using /\ "releaseMap" \notin Acquiring
    BY DEF Using, Releasing, Acquiring
  <2>6. OwnStateOf(t) => t \in threadStates
    <3>1. Holds(t, "state")
      <4>1. held[t] \in Seq(Kinds) /\ held[t] # <<>> /\ held[t][Len(held[t])] = "state"
        BY <1>1 DEF TypeOK, Innermost
      <4>2. Len(held[t]) \in DOMAIN held[t]
        BY <4>1
      <4>3. QED
        BY <4>1, <4>2 DEF Holds
    <3>2. QED
      BY <1>2, <3>1 DEF OwnStateOf
  <2>7. m_MapMutex' \in Threads \cup {NoThread} /\ calls' \in [Threads -> Nat]
    BY <1>1 DEF TypeOK, file, bounds
  <2>8. QED
    BY <1>1, <2>1, <2>3, <2>4, <2>5, <2>6, <2>7, PassKeeps DEF file, bounds
<1>3. CASE currentThreadMode # Exclusive
  <2>1. Go(t, "idle") /\ Close(t)
    BY <1>3 DEF ReleaseThird
  <2>2. MovesTo(t, "idle")
    BY <1>1, <2>1, GoMoves DEF Labels
  <2>3. recurseCount' \in 0 .. SizeModulus - 1
    BY <1>1 DEF TypeOK, file
  <2>4. SettledInv => ~QuietCallers
    BY <1>1, <1>3, ExclusiveCalls
  <2>5. QED
    BY <1>1, <2>1, <2>2, <2>3, <2>4, GiveKeeps DEF file
<1>4. QED
  BY <1>2, <1>3

LEMMA ReleaseCountKeeps ==
  ASSUME Inv0, NEW t \in Threads, ReleaseCount(t)
  PROVE  Inv0'
<1>1. /\ TypeOK /\ pc[t] = "releaseCount" /\ ~Switching(t) /\ Close(t)
      /\ recurseCount' = (recurseCount - 1) % SizeModulus
      /\ UNCHANGED <<currentThreadMode, threadStates, m_MapMutex, exclusiveRecurseCount, bounds,
                     aborted>>
  BY DEF Inv0, ReleaseCount, At, Switching
<1>2. exclusiveOwner' = IF recurseCount' = 0 THEN NoThread ELSE exclusiveOwner
  BY DEF ReleaseCount
<1>3. MovesTo(t, "idle")
  BY <1>1, GoMoves, BroadcastMoves DEF ReleaseCount, Labels
<1>4. Innermost(t, "state") /\ Len(held[t]) <= MaxDepth /\ "state" \in Kinds
  BY <1>1, OfThread DEF Kinds, Releasing
<1>5. /\ HeldTyped /\ Len(held'[t]) = Len(held[t]) - 1
      /\ \A u \in Threads \ {t} : held'[u] = held[u]
  BY <1>1, <1>4, CloseFacts
<1>6. TypeOK'
  <2>1. recurseCount - 1 \in Int
    BY <1>1, OfThread DEF TypeOK
  <2>2. recurseCount' \in 0 .. SizeModulus - 1
    BY <1>1, <2>1, ModRange
  <2>3. QED
    BY <1>1, <1>2, <1>3, <1>5, <2>2 DEF TypeOK, HeldTyped, MovesTo, bounds
<1>7. BracketsOf(t)'
  BY <1>3, <1>5, OfThread DEF BracketsOf, Opening, Releasing, Ending, Switching, MovesTo
<1>8. ASSUME SettledInv, QuietCallers
      PROVE  CountsInv'
  <2>1. currentThreadMode = Synchronized /\ CountsInv
    BY <1>1, <1>8, SynchronizedCalls DEF SettledInv
  <2>2. /\ Depth(t, "state") \in 1 .. MaxDepth /\ Depth(t, "state")' = Depth(t, "state") - 1
        /\ \A u \in Threads \ {t} : Depth(u, "state")' = Depth(u, "state")
    BY <1>1, <1>4, DepthClosed, DepthsOthers DEF Kinds
  <2>3. \A u \in Threads : Depth(u, "state") = IF u = exclusiveOwner THEN recurseCount ELSE 0
    BY <1>8, <2>1 DEF CountsInv
  <2>4. exclusiveOwner = t /\ recurseCount = Depth(t, "state")
    <3>1. Depth(t, "state") # 0
      BY <2>2, OfThread
    <3>2. QED
      BY <2>3, <3>1
  <2>5. recurseCount' = Depth(t, "state")'
    <3>1. recurseCount - 1 \in 0 .. SizeModulus - 1
      BY <2>2, <2>4, OfThread
    <3>2. QED
      BY <1>1, <2>2, <2>4, <3>1, ModSmall
  <2>6. recurseCount' >= 0
    BY <2>2, <2>5, OfThread
  <2>7. \A u \in Threads \ {t} : Depth(u, "state")' = 0 /\ u # NoThread
    BY <2>2, <2>3, <2>4, OfThread
  <2>8. \A u \in Threads :
          Depth(u, "state")' = IF u = exclusiveOwner' THEN recurseCount' ELSE 0
    BY <1>2, <2>4, <2>5, <2>7, OfThread
  <2>9. exclusiveOwner' # NoThread => recurseCount' > 0
    BY <1>1, <1>2, <1>6, <2>6 DEF TypeOK
  <2>10. QED
    BY <1>1, <2>1, <2>8, <2>9 DEF CountsInv, Unsynchronized, Synchronized, Exclusive
<1>9. ASSUME SettledInv, ~QuietCallers
      PROVE  CountsInv'
  <2>1. currentThreadMode # Exclusive /\ exclusiveRecurseCount = 0
    BY <1>1, <1>9, SynchronizedCalls DEF SettledInv, CountsInv
  <2>2. ~QuietCallers'
    BY <1>1, <1>9 DEF QuietCallers, bounds
  <2>3. QED
    BY <1>1, <2>1, <2>2, CountsLoose
<1>10. "idle" \in ModeLabels /\ "idle" \in Using
  BY DEF ModeLabels, ExclusiveLabels, SynchronizedLabels, UnsynchronizedLabels, Using
<1>11. OwnStateOf(t) => OwnStateOf(t)'
  <2>1. Holds(t, "state")' => Holds(t, "state")
    BY <1>1, <1>4, NoMoreStates
  <2>2. QED
    BY <1>1, <1>3, <2>1 DEF OwnStateOf, MovesTo, Acquiring
<1>12. QED
  BY <1>1, <1>3, <1>5, <1>6, <1>7, <1>8, <1>9, <1>10, <1>11, UseStep DEF bounds

LEMMA ReleaseOwnStateKeeps ==
  ASSUME Inv0, NEW t \in Threads, ReleaseOwnState(t)
  PROVE  Inv0'
<1>1. /\ TypeOK /\ pc[t] = "releaseMap" /\ ~Switching(t)
      /\ UNCHANGED <<currentThreadMode, threadStates, m_MapMutex, exclusiveOwner,
                     exclusiveRecurseCount, bounds>>
  BY DEF Inv0, ReleaseOwnState, At, Switching
<1>2. CASE t \in threadStates
  <2>1. /\ Close(t) /\ Go(t, "idle") /\ recurseCount' = (recurseCount - 1) % SizeModulus
        /\ aborted' = aborted
    BY <1>2 DEF ReleaseOwnState
  <2>2. MovesTo(t, "idle")
    BY <1>1, <2>1, GoMoves DEF Labels
  <2>3. Innermost(t, "state")
    BY <1>1, OfThread DEF Releasing
  <2>4. recurseCount' \in 0 .. SizeModulus - 1
    <3>1. recurseCount - 1 \in Int
      BY <1>1, OfThread DEF TypeOK
    <3>2. QED
      BY <2>1, <3>1, ModRange
  <2>5. SettledInv => currentThreadMode # Synchronized
    BY <1>1, ExclusiveCalls DEF Synchronized, Exclusive
  <2>6. QED
    BY <1>1, <2>1, <2>2, <2>3, <2>4, <2>5, GiveKeeps
<1>3. CASE t \notin threadStates
  <2>1. aborted' = TRUE /\ UNCHANGED <<recurseCount, pc, held>>
    BY <1>3 DEF ReleaseOwnState
  <2>2. TypeOK'
    BY <1>1, <2>1 DEF TypeOK, bounds
  <2>3. BracketsInv' /\ AloneInv'
    BY <1>1, <2>1
    DEF Inv0, BracketsInv, BracketsOf, AloneInv, Excluding, InUse, Innermost, Switching, NewMode,
        bounds
  <2>4. CountsInv => CountsInv'
    BY <1>1, <2>1, CountsStay DEF bounds
  <2>5. OwnersInv'
    <3>1. SettledInv => SettledInv'
      BY <1>1, <2>1, <2>4 DEF SettledInv, PlacedAt, ModeLabels, QuietCallers, InUse, bounds
    <3>2. \A u \in Threads : (Excluding(u)' <=> Excluding(u)) /\ (SwitchInv(u)' <=> SwitchInv(u))
      BY <1>1, <2>1
      DEF SwitchInv, Excluding, InUse, Switching, NewMode, QuietCallers, bounds
    <3>3. QED
      BY <1>1, <3>1, <3>2 DEF Inv0, OwnersInv, ExclusiveQuiet, bounds
  <2>6. OwnStatesInv'
    <3>1. ~EntersQuietly
      BY <1>1, <1>3 DEF Inv0, OwnStatesInv, OwnStateOf
    <3>2. QED
      BY <1>1, <3>1 DEF OwnStatesInv, EntersQuietly, bounds
  <2>7. QED
    BY <2>2, <2>3, <2>5, <2>6 DEF Inv0
<1>4. QED
  BY <1>2, <1>3

LEMMA StartKeeps ==
  ASSUME Inv0, NEW t \in Threads, Start(t)
  PROVE  Inv0'
<1>1. /\ TypeOK /\ MayUse(t) /\ pc[t] = "idle" /\ ~Switching(t) /\ Len(held[t]) < MaxDepth
      /\ calls[t] > 0 /\ calls' = [calls EXCEPT ![t] = @ - 1]
      /\ UNCHANGED <<file, held, change, discipline, switches, aborted>>
  BY DEF Inv0, Start, Opens, MayUse, At, Switching
<1>2. calls' \in [Threads -> Nat] /\ m_MapMutex' \in Threads \cup {NoThread}
  BY <1>1 DEF TypeOK, file
<1>3. PICK l \in {"start", "startExclusive"} :
        Go(t, l) /\ (l = "startExclusive" <=> currentThreadMode = Exclusive)
  BY DEF Start
<1>4. pc'[t] = l
  BY <1>1, <1>3 DEF Go, TypeOK
<1>5. BracketsOf(t)'
  BY <1>1, <1>3, <1>4, OfThread DEF BracketsOf, Opening, Releasing, Ending, Switching
<1>6. l \in ModeLabels
  BY <1>1, <1>3 DEF ModeLabels, ExclusiveLabels, SynchronizedLabels, UnsynchronizedLabels
<1>7. l \in Using /\ l # "releaseMap" /\ l \notin Acquiring
  BY <1>3 DEF Using, Opening, Acquiring
<1>8. QED
  BY <1>1, <1>2, <1>3, <1>5, <1>6, <1>7, PassKeeps DEF file

LEMMA EndKeeps ==
  ASSUME Inv0, NEW t \in Threads, End(t)
  PROVE  Inv0'
<1>1. /\ TypeOK /\ MayUse(t) /\ pc[t] = "idle" /\ ~Switching(t) /\ Innermost(t, "io")
      /\ UNCHANGED <<file, held, bounds, aborted>>
  BY DEF Inv0, End, MayUse, At, Switching
<1>2. PICK l \in {"end", "endExclusive"} :
        Go(t, l) /\ (l = "endExclusive" <=> currentThreadMode = Exclusive)
  BY DEF End
<1>3. pc'[t] = l
  BY <1>1, <1>2 DEF Go, TypeOK
<1>4. BracketsOf(t)'
  BY <1>1, <1>2, <1>3, OfThread
  DEF BracketsOf, Opening, Releasing, Ending, Switching, Innermost, bounds
<1>5. l \in ModeLabels
  BY <1>1, <1>2 DEF ModeLabels, ExclusiveLabels, SynchronizedLabels, UnsynchronizedLabels
<1>6. l \in Using /\ l # "releaseMap" /\ l \notin Acquiring
  BY <1>2 DEF Using, Ending, Acquiring
<1>7. m_MapMutex' \in Threads \cup {NoThread} /\ calls' \in [Threads -> Nat]
  BY <1>1 DEF TypeOK, file, bounds
<1>8. QED
  BY <1>1, <1>2, <1>4, <1>5, <1>6, <1>7, PassKeeps DEF file, bounds

\* t has room for the bracket that it opens, or has the bracket that it closes.
BracketOK(t) ==
  \/ Open(t, "io") /\ Len(held[t]) < MaxDepth
  \/ Innermost(t, "io") /\ Close(t)

LEMMA BracketFacts ==
  ASSUME Inv0, NEW t \in Threads, BracketOK(t)
  PROVE  /\ HeldTyped /\ Len(held'[t]) <= MaxDepth
         /\ \A u \in Threads \ {t} : held'[u] = held[u]
         /\ Holds(t, "state")' => Holds(t, "state")
         /\ \A u \in Threads : Depth(u, "state")' = Depth(u, "state")
         /\ \A u \in Threads \ {t} : Depth(u, "io")' = Depth(u, "io")
<1>1. TypeOK /\ "io" \in Kinds /\ "state" \in Kinds
  BY DEF Inv0, Kinds
<1>2. CASE Open(t, "io") /\ Len(held[t]) < MaxDepth
  BY <1>1, <1>2, OpenFacts, NoMoreStates, DepthsOthers, OfThread
<1>3. CASE Innermost(t, "io") /\ Close(t)
  BY <1>1, <1>3, CloseFacts, NoMoreStates, DepthsOthers, OfThread
<1>4. QED
  BY <1>2, <1>3 DEF BracketOK

\* A call that t enters or leaves without counting, outside of the exclusive mode.
LEMMA PassesKeeps ==
  ASSUME Inv0, NEW t \in Threads, ~Switching(t), pc[t] # "idle", Go(t, "idle"), BracketOK(t),
         m_MapMutex' \in Threads \cup {NoThread},
         UNCHANGED <<currentThreadMode, threadStates, exclusiveOwner, recurseCount,
                     exclusiveRecurseCount, bounds, aborted>>,
         ExclusiveQuiet /\ SettledInv => currentThreadMode # Exclusive
  PROVE  Inv0'
<1>1. TypeOK
  BY DEF Inv0
<1>2. MovesTo(t, "idle")
  BY <1>1, GoMoves DEF Labels
<1>3. /\ HeldTyped /\ Len(held'[t]) <= MaxDepth
      /\ \A u \in Threads \ {t} : held'[u] = held[u]
      /\ \A u \in Threads : Depth(u, "state")' = Depth(u, "state")
  BY BracketFacts
<1>4. TypeOK'
  BY <1>1, <1>2, <1>3 DEF TypeOK, HeldTyped, MovesTo, bounds
<1>5. BracketsOf(t)'
  BY <1>2, <1>3 DEF BracketsOf, Opening, Releasing, Ending, Switching, MovesTo
<1>6. CountsInv /\ currentThreadMode # Exclusive => CountsInv'
  BY <1>3 DEF CountsInv, QuietCallers, bounds
<1>7. "idle" \in ModeLabels /\ "idle" \in Using
  BY DEF ModeLabels, ExclusiveLabels, SynchronizedLabels, UnsynchronizedLabels, Using
<1>8. OwnStateOf(t) => OwnStateOf(t)'
  BY <1>2, BracketFacts DEF OwnStateOf, MovesTo, Acquiring
<1>9. QED
  BY <1>2, <1>3, <1>4, <1>5, <1>6, <1>7, <1>8, UseStep DEF bounds, SettledInv

LEMMA TestRecurseKeeps ==
  ASSUME Inv0, NEW t \in Threads, TestRecurse(t)
  PROVE  Inv0'
<1>1. TypeOK /\ UNCHANGED <<file, bounds, aborted>> /\ pc[t] \in {"start", "end"} /\ ~Switching(t)
  BY DEF Inv0, TestRecurse, At, Switching
<1>2. SettledInv => currentThreadMode # Exclusive /\ exclusiveRecurseCount = 0
  BY <1>1, ExclusiveCalls DEF SettledInv, CountsInv
<1>3. pc[t] = "start" => Len(held[t]) < MaxDepth
  BY OfThread DEF Opening
<1>4. pc[t] = "end" => Innermost(t, "io")
  BY OfThread DEF Ending
<1>5. m_MapMutex' \in Threads \cup {NoThread}
  BY <1>1 DEF TypeOK, file
<1>6. CASE exclusiveRecurseCount = 0
  <2>1. /\ Go(t, "idle")
        /\ (pc[t] = "start" /\ Open(t, "io")) \/ (pc[t] = "end" /\ Close(t))
    BY <1>6 DEF TestRecurse, At
  <2>2. BracketOK(t)
    BY <1>3, <1>4, <2>1 DEF BracketOK
  <2>3. QED
    BY <1>1, <1>2, <1>5, <2>1, <2>2, PassesKeeps DEF file
<1>7. CASE exclusiveRecurseCount # 0
  <2>1. CASE pc[t] = "start"
    <3>1. Go(t, "startExclusive") /\ held' = held
      BY <1>7, <2>1 DEF TestRecurse, At
    <3>2. QED
      BY <1>1, <1>2, <1>5, <1>7, <2>1, <3>1, WaitsKeeps
      DEF file, Using, Opening, Releasing, Ending, Acquiring
  <2>2. CASE pc[t] = "end"
    <3>1. Go(t, "endExclusive") /\ held' = held
      BY <1>7, <2>2 DEF TestRecurse, At
    <3>2. QED
      BY <1>1, <1>2, <1>5, <1>7, <2>2, <3>1, WaitsKeeps
      DEF file, Using, Opening, Releasing, Ending, Acquiring
  <2>3. QED
    BY <1>1, <2>1, <2>2
<1>8. QED
  BY <1>6, <1>7

LEMMA OwnerPassesKeeps ==
  ASSUME Inv0, NEW t \in Threads, NEW label, NEW delta,
         \/ label = "startExclusive" /\ delta = 1
         \/ label = "endExclusive" /\ delta = -1,
         OwnerPasses(t, label, delta)
  PROVE  Inv0'
<1>1. /\ TypeOK /\ pc[t] = label /\ ~Switching(t) /\ exclusiveOwner = t
      /\ exclusiveRecurseCount' = (exclusiveRecurseCount + delta) % SizeModulus
      /\ Bracket(t, label)
      /\ UNCHANGED <<currentThreadMode, threadStates, exclusiveOwner, recurseCount, bounds, aborted>>
  BY DEF Inv0, OwnerPasses, At, Switching, IsOwner
<1>2. m_MapMutex' \in Threads \cup {NoThread}
  BY <1>1 DEF OwnerPasses, TypeOK
<1>3. PICK l \in {"idle", "ownerLast"} : MovesTo(t, l)
  BY <1>1, GoMoves, BroadcastMoves DEF OwnerPasses, Labels
<1>4. "io" \in Kinds /\ "state" \in Kinds
  BY DEF Kinds
<1>5. \/ delta = 1 /\ Open(t, "io") /\ Len(held[t]) < MaxDepth
      \/ delta = -1 /\ Innermost(t, "io") /\ Close(t)
  BY <1>1, OfThread DEF Bracket, Opening, Ending
<1>6. /\ HeldTyped /\ Len(held'[t]) <= MaxDepth
      /\ \A u \in Threads \ {t} : held'[u] = held[u]
      /\ \A u \in Threads \ {t} : Depth(u, "io")' = Depth(u, "io")
      /\ Holds(t, "state")' => Holds(t, "state")
  BY <1>5, BracketFacts DEF BracketOK
<1>7. TypeOK'
  <2>1. exclusiveRecurseCount + delta \in Int
    BY <1>1, OfThread DEF TypeOK
  <2>2. exclusiveRecurseCount' \in 0 .. SizeModulus - 1
    BY <1>1, <2>1, ModRange
  <2>3. QED
    BY <1>1, <1>2, <1>3, <1>6, <2>2 DEF TypeOK, HeldTyped, MovesTo, bounds
<1>8. BracketsOf(t)'
  BY <1>3, <1>6 DEF BracketsOf, Opening, Releasing, Ending, Switching, MovesTo
<1>9. SettledInv => currentThreadMode = Exclusive
  BY <1>1, ExclusiveCalls
<1>10. SettledInv => CountsInv'
  <2> SUFFICES ASSUME SettledInv PROVE CountsInv'
    OBVIOUS
  <2>1. currentThreadMode = Exclusive /\ CountsInv
    BY <1>9 DEF SettledInv
  <2>2. \A u \in Threads : Depth(u, "io") = IF u = t THEN exclusiveRecurseCount ELSE 0
    BY <1>1, <2>1 DEF CountsInv
  <2>3. Depth(t, "io")' = exclusiveRecurseCount'
    <3>1. Depth(t, "io") + delta \in 0 .. MaxDepth /\ Depth(t, "io")' = Depth(t, "io") + delta
      <4>1. CASE delta = 1 /\ Open(t, "io") /\ Len(held[t]) < MaxDepth
        BY <1>1, <1>4, <4>1, DepthOpened, OfThread
      <4>2. CASE delta = -1 /\ Innermost(t, "io") /\ Close(t)
        BY <1>1, <1>4, <4>2, DepthClosed, OfThread
      <4>3. QED
        BY <1>5, <4>1, <4>2
    <3>2. Depth(t, "io") + delta \in 0 .. SizeModulus - 1
      BY <3>1, OfThread
    <3>3. QED
      BY <1>1, <2>2, <3>1, <3>2, ModSmall
  <2>4. \A u \in Threads :
          Depth(u, "io")' = IF u = exclusiveOwner' THEN exclusiveRecurseCount' ELSE 0
    BY <1>1, <1>6, <2>2, <2>3
  <2>5. t # NoThread
    BY OfThread
  <2>6. QED
    BY <1>1, <2>1, <2>4, <2>5
    DEF CountsInv, Unsynchronized, Synchronized, Exclusive
<1>11. SettledInv => l \in ModeLabels
  BY <1>9 DEF ModeLabels, ExclusiveLabels
<1>12. l \in Using /\ pc[t] # "idle"
  BY <1>1 DEF Using
<1>13. OwnStateOf(t) => OwnStateOf(t)'
  BY <1>1, <1>3, <1>6 DEF OwnStateOf, MovesTo, Acquiring
<1>14. QED
  BY <1>1, <1>3, <1>6, <1>7, <1>8, <1>10, <1>11, <1>12, <1>13, UseStep DEF bounds

LEMMA OwnerLeavesKeeps ==
  ASSUME Inv0, NEW t \in Threads, OwnerLeaves(t)
  PROVE  Inv0'
<1>1. /\ TypeOK /\ pc[t] = "ownerLast" /\ ~Switching(t) /\ Go(t, "idle") /\ m_MapMutex' = NoThread
      /\ exclusiveOwner' = IF currentThreadMode # Exclusive THEN NoThread ELSE exclusiveOwner
      /\ UNCHANGED <<currentThreadMode, threadStates, recurseCount, exclusiveRecurseCount, held,
                     bounds, aborted>>
  BY DEF Inv0, OwnerLeaves, At, Switching
<1>2. MovesTo(t, "idle")
  BY <1>1, GoMoves DEF Labels
<1>3. TypeOK'
  BY <1>1, <1>2 DEF TypeOK, MovesTo, bounds
<1>4. BracketsOf(t)'
  BY <1>1, <1>2, OfThread DEF BracketsOf, Opening, Releasing, Ending, Switching, MovesTo
<1>5. SettledInv => CountsInv'
  <2>1. SettledInv => UNCHANGED exclusiveOwner
    BY <1>1, ExclusiveCalls
  <2>2. QED
    BY <1>1, <2>1, CountsStay DEF SettledInv, bounds
<1>6. "idle" \in ModeLabels /\ "idle" \in Using
  BY DEF ModeLabels, ExclusiveLabels, SynchronizedLabels, UnsynchronizedLabels, Using
<1>7. OwnStateOf(t) => OwnStateOf(t)'
  BY <1>1, <1>2 DEF OwnStateOf, Holds, MovesTo, Acquiring
<1>8. QED
  BY <1>1, <1>2, <1>3, <1>4, <1>5, <1>6, <1>7, UseStep DEF bounds

LEMMA OtherLeavesKeeps ==
  ASSUME Inv0, NEW t \in Threads, NEW label, NEW leave,
         \/ label = "startExclusive" /\ leave = "startLeave"
         \/ label = "endExclusive" /\ leave = "endLeave",
         OtherLeaves(t, label, leave)
  PROVE  Inv0'
<1>1. /\ TypeOK /\ pc[t] = label /\ ~Switching(t) /\ Go(t, leave) /\ m_MapMutex' = t
      /\ currentThreadMode # Exclusive
      /\ UNCHANGED <<currentThreadMode, threadStates, exclusiveOwner, recurseCount,
                     exclusiveRecurseCount, held, bounds, aborted>>
  BY DEF Inv0, OtherLeaves, At, Switching
<1>2. ~SettledInv
  BY <1>1, ExclusiveCalls
<1>3. QED
  BY <1>1, <1>2, WaitsKeeps DEF Using, Opening, Releasing, Ending, Acquiring

LEMMA OtherPassesKeeps ==
  ASSUME Inv0, NEW t \in Threads, NEW leave \in Leaving, OtherPasses(t, leave)
  PROVE  Inv0'
<1>1. /\ TypeOK /\ pc[t] = leave /\ ~Switching(t) /\ Go(t, "idle") /\ Bracket(t, leave)
      /\ UNCHANGED <<currentThreadMode, threadStates, exclusiveOwner, recurseCount,
                     exclusiveRecurseCount, bounds, aborted>>
  BY DEF Inv0, OtherPasses, At, Switching, Leaving
<1>2. m_MapMutex' \in Threads \cup {NoThread}
  BY <1>1 DEF OtherPasses, TypeOK
<1>3. BracketOK(t)
  BY <1>1, OfThread DEF Bracket, BracketOK, Opening, Ending, Leaving
<1>4. ~SettledInv /\ pc[t] # "idle"
  BY <1>1, ExclusiveCalls DEF Leaving
<1>5. QED
  BY <1>1, <1>2, <1>3, <1>4, PassesKeeps

LEMMA OtherWaitsKeeps ==
  ASSUME Inv0, NEW t \in Threads, NEW label, NEW sleep,
         \/ label = "startExclusive" /\ sleep = "startSleep"
         \/ label = "endExclusive" /\ sleep = "endSleep",
         OtherWaits(t, label, sleep)
  PROVE  Inv0'
<1>1. /\ TypeOK /\ pc[t] = label /\ ~Switching(t) /\ Go(t, sleep) /\ m_MapMutex' = t
      /\ currentThreadMode = Exclusive
      /\ UNCHANGED <<currentThreadMode, threadStates, exclusiveOwner, recurseCount,
                     exclusiveRecurseCount, held, bounds, aborted>>
  BY DEF Inv0, OtherWaits, At, Switching
<1>2. sleep \in ModeLabels
  BY <1>1 DEF ModeLabels, ExclusiveLabels
<1>3. QED
  BY <1>1, <1>2, WaitsKeeps DEF Using, Opening, Releasing, Ending, Acquiring

LEMMA WaitExclusiveThreadKeeps ==
  ASSUME Inv0, NEW t \in Threads, WaitExclusiveThread(t)
  PROVE  Inv0'
<1>1. CASE OwnerPasses(t, "startExclusive", 1) \/ OwnerPasses(t, "endExclusive", -1)
  BY <1>1, OwnerPassesKeeps
<1>2. CASE \/ OtherLeaves(t, "startExclusive", "startLeave")
           \/ OtherLeaves(t, "endExclusive", "endLeave")
  BY <1>2, OtherLeavesKeeps
<1>3. CASE OtherPasses(t, "startLeave") \/ OtherPasses(t, "endLeave")
  BY <1>3, OtherPassesKeeps DEF Leaving
<1>4. CASE \/ OtherWaits(t, "startExclusive", "startSleep")
           \/ OtherWaits(t, "endExclusive", "endSleep")
  BY <1>4, OtherWaitsKeeps
<1>5. QED
  BY <1>1, <1>2, <1>3, <1>4, OwnerLeavesKeeps DEF WaitExclusiveThread

-----------------------------------------------------------------------------
(* Steps of a thread that changes the mode. *)

LEMMA SwitchUseStep ==
  ASSUME Inv0, NEW t \in Threads, NEW label \in Labels, MovesTo(t, label), Switching(t),
         label \notin Acquiring \cup {"releaseMap"},
         UNCHANGED <<held, change, discipline, threadStates, aborted>>,
         currentThreadMode' = currentThreadMode \/ currentThreadMode' = NewMode(t),
         TypeOK', BracketsOf(t)', ExclusiveQuiet => OwnersInv'
  PROVE  Inv0'
<1>1. BracketsInv'
  BY BracketsStep DEF Inv0
<1>2. pc[t] # "idle"
  BY DEF Switching
<1>3. Excluding(t)' => Excluding(t)
  BY DEF Excluding, InUse
<1>4. Excluding(t) => \A u \in Threads \ {t} : pc[u] = "idle" /\ held[u] = <<>>
  BY DEF Inv0, AloneInv
<1>5. AloneInv'
  BY <1>2, <1>3, <1>4, AloneStep DEF Inv0
<1>6. OwnersInv'
  BY DEF OwnersInv, ExclusiveQuiet
<1>7. ASSUME EntersQuietly, currentThreadMode' = NewMode(t), NewMode(t) = Exclusive
      PROVE  \A u \in Threads \ {t} : pc[u] = "idle" /\ held[u] = <<>>
  <2>1. ~InUse(change[t])
    BY <1>7 DEF EntersQuietly, InUse, NewMode
  <2>2. QED
    BY <1>4, <2>1 DEF Excluding
<1>8. EntersQuietly /\ OwnStateOf(t) => OwnStateOf(t)'
  <2>1. pc'[t] \notin Acquiring /\ pc'[t] # "releaseMap"
    BY DEF MovesTo
  <2>2. held'[t] = <<>>
    BY OfThread
  <2>3. ~Holds(t, "state")'
    BY <2>2 DEF Holds
  <2>4. QED
    BY <2>1, <2>3 DEF OwnStateOf
<1>9. OwnStatesInv'
  <2>1. \/ currentThreadMode' = currentThreadMode
        \/ currentThreadMode' # Exclusive
        \/ EntersQuietly => \A u \in Threads \ {t} : pc[u] = "idle" /\ held[u] = <<>>
    BY <1>7
  <2>2. QED
    BY <1>8, <2>1, OwnStatesStep DEF Inv0
<1>10. QED
  BY <1>1, <1>5, <1>6, <1>9 DEF Inv0

\* No brackets, no depth.
LEMMA DepthOfNone ==
  ASSUME NEW t, NEW kind, held[t] = <<>>
  PROVE  Depth(t, kind) = 0
<1>1. {i \in DOMAIN held[t] : held[t][i] = kind} = {}
  OBVIOUS
<1>2. QED
  BY <1>1, FS_EmptySet DEF Depth

\* Nobody has the file when t begins to change its mode, if it excludes the others.
LEMMA NobodyHas ==
  ASSUME Inv0, ExclusiveQuiet, NEW t \in Threads, NEW c, MaySwitch(t, c), ~InUse(c)
  PROVE  /\ \A u \in Threads : pc[u] = "idle" /\ held[u] = <<>>
         /\ exclusiveRecurseCount = 0
         /\ currentThreadMode = Exclusive => exclusiveOwner # NoThread
         /\ currentThreadMode # Exclusive /\ QuietCallers => exclusiveOwner = NoThread
<1>1. \A u \in Threads : pc[u] = "idle" /\ held[u] = <<>>
  BY DEF MaySwitch
<1>2. CountsInv /\ TypeOK
  BY <1>1 DEF Inv0, OwnersInv, SettledInv, Excluding, Switching
<1>3. \A u \in Threads : Depth(u, "state") = 0 /\ Depth(u, "io") = 0
  BY <1>1, DepthOfNone
<1>4. exclusiveRecurseCount = 0
  <2>1. CASE currentThreadMode = Exclusive
    <3>1. exclusiveOwner \in Threads
      BY <1>2, <2>1 DEF CountsInv, TypeOK
    <3>2. Depth(exclusiveOwner, "io") = exclusiveRecurseCount
      BY <1>2, <2>1, <3>1 DEF CountsInv
    <3>3. QED
      BY <1>3, <3>1, <3>2
  <2>2. CASE currentThreadMode # Exclusive
    BY <1>2, <2>2 DEF CountsInv
  <2>3. QED
    BY <2>1, <2>2
<1>5. ASSUME currentThreadMode # Exclusive, QuietCallers, exclusiveOwner # NoThread
      PROVE  FALSE
  <2>1. currentThreadMode = Synchronized /\ exclusiveOwner \in Threads
    BY <1>2, <1>5 DEF CountsInv, TypeOK, Modes, Unsynchronized, Synchronized, Exclusive
  <2>2. recurseCount > 0 /\ Depth(exclusiveOwner, "state") = recurseCount
    BY <1>2, <1>5, <2>1 DEF CountsInv
  <2>3. QED
    BY <1>3, <2>1, <2>2
<1>6. QED
  BY <1>1, <1>2, <1>4, <1>5 DEF CountsInv

LEMMA SetThreadModeKeeps ==
  ASSUME Inv0, NEW t \in Threads, SetThreadMode(t)
  PROVE  Inv0'
<1>1. /\ TypeOK /\ switches > 0 /\ switches' = switches - 1
      /\ UNCHANGED <<file, held, discipline, calls, aborted>>
  BY DEF Inv0, SetThreadMode
<1>2. PICK m \in discipline.modes, l \in {"leaveExclusive", "setOwner", "writeMode"} :
        /\ MaySwitch(t, <<currentThreadMode, m>>)
        /\ change' = [change EXCEPT ![t] = <<currentThreadMode, m>>]
        /\ Go(t, l)
        /\ l = "leaveExclusive" <=> currentThreadMode = Exclusive
        /\ l = "setOwner" <=> currentThreadMode # Exclusive /\ m = Exclusive
  BY DEF SetThreadMode
<1>3. m \in Modes /\ currentThreadMode \in Modes
  BY <1>1, ConstantsAssumption DEF TypeOK
<1>4. MovesTo(t, l)
  BY <1>1, <1>2, GoMoves DEF Labels
<1>5. TypeOK'
  <2>1. change' \in [Threads -> Modes \X Modes] /\ switches' \in Nat
    BY <1>1, <1>2, <1>3 DEF TypeOK
  <2>2. pc' \in [Threads -> Labels]
    BY <1>4 DEF MovesTo
  <2>3. QED
    BY <1>1, <2>1, <2>2 DEF TypeOK, file
<1>6. /\ change'[t] = <<currentThreadMode, m>> /\ NewMode(t)' = m
      /\ \A u \in Threads \ {t} : change'[u] = change[u]
  BY <1>1, <1>2 DEF TypeOK, NewMode
<1>7. /\ pc'[t] = l /\ pc[t] = "idle" /\ held[t] = <<>> /\ MayUse(t) /\ Switching(t)' /\ ~Switching(t)
      /\ \A u \in Threads \ {t} : pc'[u] = pc[u]
  BY <1>1, <1>2, <1>4 DEF MaySwitch, MayUse, At, MovesTo, Switching, Go, TypeOK
<1>8. BracketsOf(t)'
  BY <1>1, <1>2, <1>6, <1>7, OfThread DEF BracketsOf, Opening, Releasing, Ending, Switching
<1>9. BracketsInv'
  BY <1>1, <1>4, <1>6, <1>8, BracketsStep DEF Inv0
<1>10. Excluding(t)' <=> ~InUse(<<currentThreadMode, m>>)
  BY <1>1, <1>6, <1>7 DEF Excluding, InUse
<1>11. AloneInv'
  <2>1. Excluding(t)' => \A u \in Threads \ {t} : pc[u] = "idle" /\ held[u] = <<>>
    BY <1>2, <1>10 DEF MaySwitch
  <2>2. QED
    BY <1>1, <1>4, <1>6, <1>7, <2>1, AloneStep DEF Inv0
<1>12. OwnersInv'
  <2> SUFFICES ASSUME ExclusiveQuiet PROVE OwnersInv'
    BY <1>1 DEF OwnersInv, ExclusiveQuiet
  <2>1. CASE ~InUse(<<currentThreadMode, m>>)
    <3>1. SwitchInv(t)'
      BY <1>1, <1>2, <1>6, <1>7, <2>1, NobodyHas DEF SwitchInv, QuietCallers, file
    <3>2. QED
      BY <1>10, <1>11, <2>1, <3>1, SwitchStep
  <2>2. CASE InUse(<<currentThreadMode, m>>)
    <3>1. currentThreadMode # Exclusive /\ m # Exclusive /\ l = "writeMode"
      BY <1>2, <2>2 DEF InUse, ExclusiveQuiet, Unsynchronized, Synchronized, Exclusive
    <3>2. \A u \in Threads : ~Excluding(u)
      BY <1>7, NobodyExcludes DEF Inv0, Excluding
    <3>3. SettledInv
      BY <3>2 DEF Inv0, OwnersInv
    <3>4. CountsInv'
      BY <1>1, <3>3, CountsStay DEF SettledInv, file
    <3>5. ModeLabels' = ModeLabels
      BY <1>1 DEF ModeLabels, QuietCallers, file
    <3>6. PlacedAt(t)' /\ ~Excluding(t)'
      BY <1>1, <1>6, <1>7, <1>10, <2>2, <3>1 DEF PlacedAt, InUse, file
    <3>7. ASSUME NEW u \in Threads, u # t
          PROVE  PlacedAt(u)' /\ ~Excluding(u)'
      <4>1. PlacedAt(u) /\ ~Excluding(u) /\ pc'[u] = pc[u] /\ change'[u] = change[u]
        BY <1>6, <1>7, <3>2, <3>3, <3>7 DEF SettledInv
      <4>2. QED
        BY <1>1, <3>5, <4>1 DEF PlacedAt, Excluding, Switching, InUse, file
    <3>8. QED
      BY <3>4, <3>6, <3>7 DEF OwnersInv, SettledInv
  <2>3. QED
    BY <2>1, <2>2
<1>13. OwnStatesInv'
  <2>1. OwnStateOf(t) => OwnStateOf(t)'
    BY <1>1, <1>2, <1>7 DEF OwnStateOf, Holds, Acquiring, file
  <2>2. QED
    BY <1>1, <1>4, <2>1, OwnStatesStep DEF Inv0, file
<1>14. QED
  BY <1>5, <1>9, <1>11, <1>12, <1>13 DEF Inv0

\* A thread on its way into or out of the exclusive mode is alone with the file, unless callers
\* go into or out of it while the file is in use.
LEMMA SwitcherAlone ==
  ASSUME Inv0, ExclusiveQuiet, NEW t \in Threads, Switching(t), pc[t] # "writeMode" \/ Excluding(t)
  PROVE  /\ Excluding(t) /\ SwitchInv(t)
         /\ \A u \in Threads : held[u] = <<>> /\ (u # t => pc[u] = "idle")
         /\ \A u \in Threads : Depth(u, "state") = 0 /\ Depth(u, "io") = 0
<1>1. Excluding(t)
  <2> SUFFICES ASSUME ~Excluding(t) PROVE FALSE
    OBVIOUS
  <2>1. \A u \in Threads : ~Excluding(u)
    BY NobodyExcludes DEF Inv0, Switching
  <2>2. PlacedAt(t)
    BY <2>1 DEF Inv0, OwnersInv, SettledInv
  <2>3. QED
    BY <2>2 DEF PlacedAt, Switching, ModeLabels, ExclusiveLabels, SynchronizedLabels, UnsynchronizedLabels
<1>2. SwitchInv(t)
  BY <1>1 DEF Inv0, OwnersInv
<1>3. held[t] = <<>>
  BY OfThread
<1>4. \A u \in Threads : held[u] = <<>> /\ (u # t => pc[u] = "idle")
  BY <1>1, <1>3 DEF Inv0, AloneInv
<1>5. QED
  BY <1>1, <1>2, <1>4, DepthOfNone

\* The end of the change of the mode, with nothing counted and no brackets open.
LEMMA CountsWithNone ==
  ASSUME \A u \in Threads : Depth(u, "state") = 0 /\ Depth(u, "io") = 0,
         held' = held, exclusiveRecurseCount' = 0,
         currentThreadMode' = Exclusive => exclusiveOwner' # NoThread,
         QuietCallers' => (currentThreadMode' # Exclusive => exclusiveOwner' = NoThread)
  PROVE  CountsInv'
<1>1. \A u \in Threads : Depth(u, "state")' = 0 /\ Depth(u, "io")' = 0
  BY DEF Depth
<1>2. QuietCallers' => (currentThreadMode' # Exclusive => \A u \in Threads : u # exclusiveOwner')
  BY ConstantsAssumption
<1>3. QED
  BY <1>1, <1>2 DEF CountsInv, Unsynchronized, Synchronized, Exclusive

\* A step of a thread that excludes the others, to another step of its change of the mode.
LEMMA SwitchGoesOn ==
  ASSUME Inv0, NEW t \in Threads, NEW label \in Labels, MovesTo(t, label), Excluding(t),
         UNCHANGED <<held, change, discipline>>, Switching(t)', SwitchInv(t)'
  PROVE  OwnersInv'
<1>1. Excluding(t)' /\ pc[t] # "idle"
  BY DEF Excluding, Switching, InUse
<1>2. \A u \in Threads \ {t} : pc[u] = "idle" /\ held[u] = <<>>
  BY DEF Inv0, AloneInv
<1>3. AloneInv'
  BY <1>1, <1>2, AloneStep DEF Inv0
<1>4. QED
  BY <1>1, <1>3, SwitchStep

LEMMA LeaveExclusiveKeeps ==
  ASSUME Inv0, NEW t \in Threads, LeaveExclusive(t)
  PROVE  Inv0'
<1>1. /\ TypeOK /\ pc[t] = "leaveExclusive" /\ Switching(t) /\ currentThreadMode' = NewMode(t)
      /\ UNCHANGED <<threadStates, m_MapMutex, exclusiveOwner, recurseCount,
                     exclusiveRecurseCount, held, bounds, aborted>>
  BY DEF Inv0, LeaveExclusive, At, Switching
<1>2. PICK l \in {"idle", "testOwner"} : Go(t, l) /\ (l = "idle" <=> NewMode(t) = Exclusive)
  BY DEF LeaveExclusive
<1>3. MovesTo(t, l)
  BY <1>1, <1>2, GoMoves DEF Labels
<1>4. TypeOK'
  <2>1. NewMode(t) \in Modes
    BY <1>1 DEF TypeOK, NewMode
  <2>2. QED
    BY <1>1, <1>3, <2>1 DEF TypeOK, MovesTo, bounds
<1>5. NewMode(t)' = NewMode(t)
  BY <1>1 DEF NewMode, bounds
<1>6. BracketsOf(t)'
  BY <1>1, <1>2, <1>3, <1>5, OfThread
  DEF BracketsOf, Opening, Releasing, Ending, Switching, MovesTo, bounds
<1>7. ASSUME ExclusiveQuiet
      PROVE  OwnersInv'
  <2>1. /\ Excluding(t) /\ exclusiveRecurseCount' = 0 /\ exclusiveOwner' # NoThread
        /\ \A u \in Threads : u # t => pc'[u] = "idle"
    BY <1>1, <1>2, <1>7, SwitcherAlone DEF SwitchInv, Go, TypeOK
  <2>2. pc'[t] = l
    BY <1>3 DEF MovesTo
  <2>3. CASE NewMode(t) = Exclusive
    <3>1. CountsInv'
      BY <1>1, <1>7, <2>1, <2>3, SwitcherAlone, CountsWithNone
    <3>2. \A u \in Threads : pc'[u] = "idle"
      BY <1>2, <2>1, <2>2, <2>3
    <3>3. QED
      BY <3>1, <3>2, SwitchEnds
  <2>4. CASE NewMode(t) # Exclusive
    <3>1. SwitchInv(t)' /\ Switching(t)'
      BY <1>1, <1>2, <2>1, <2>2, <2>4 DEF SwitchInv, Switching
    <3>2. QED
      BY <1>1, <1>3, <2>1, <3>1, SwitchGoesOn DEF Labels, bounds
  <2>5. QED
    BY <2>3, <2>4
<1>8. l \in Labels /\ l \notin Acquiring \cup {"releaseMap"}
  BY DEF Labels, Acquiring
<1>9. QED
  BY <1>1, <1>3, <1>4, <1>6, <1>7, <1>8, SwitchUseStep DEF bounds

LEMMA TestOwnerKeeps ==
  ASSUME Inv0, NEW t \in Threads, TestOwner(t)
  PROVE  Inv0'
<1>1. /\ TypeOK /\ pc[t] = "testOwner" /\ Switching(t) /\ UNCHANGED <<file, held, bounds, aborted>>
  BY DEF Inv0, TestOwner, At, Switching
<1>2. PICK l \in {"dropOwner", "broadcast"} :
        Go(t, l) /\ (l = "dropOwner" <=> exclusiveRecurseCount = 0)
  BY DEF TestOwner
<1>3. MovesTo(t, l)
  BY <1>1, <1>2, GoMoves DEF Labels
<1>4. TypeOK'
  BY <1>1, <1>3 DEF TypeOK, MovesTo, bounds, file
<1>5. NewMode(t)' = NewMode(t)
  BY <1>1 DEF NewMode, bounds
<1>6. BracketsOf(t)'
  BY <1>1, <1>2, <1>3, <1>5, OfThread
  DEF BracketsOf, Opening, Releasing, Ending, Switching, MovesTo, bounds
<1>7. ASSUME ExclusiveQuiet
      PROVE  OwnersInv'
  <2>1. Excluding(t) /\ exclusiveRecurseCount = 0 /\ currentThreadMode # Exclusive
    BY <1>1, <1>7, SwitcherAlone DEF SwitchInv
  <2>2. pc'[t] = "dropOwner"
    BY <1>2, <1>3, <2>1 DEF MovesTo
  <2>3. SwitchInv(t)' /\ Switching(t)'
    BY <1>1, <2>1, <2>2 DEF SwitchInv, Switching, file
  <2>4. QED
    BY <1>1, <1>3, <2>1, <2>3, SwitchGoesOn DEF Labels, bounds
<1>8. l \in Labels /\ l \notin Acquiring \cup {"releaseMap"}
  BY DEF Labels, Acquiring
<1>9. QED
  BY <1>1, <1>3, <1>4, <1>6, <1>7, <1>8, SwitchUseStep DEF bounds, file

LEMMA DropOwnerKeeps ==
  ASSUME Inv0, NEW t \in Threads, DropOwner(t)
  PROVE  Inv0'
<1>1. /\ TypeOK /\ pc[t] = "dropOwner" /\ Switching(t) /\ Go(t, "broadcast")
      /\ exclusiveOwner' = NoThread
      /\ UNCHANGED <<currentThreadMode, threadStates, m_MapMutex, recurseCount,
                     exclusiveRecurseCount, held, bounds, aborted>>
  BY DEF Inv0, DropOwner, At, Switching
<1>2. MovesTo(t, "broadcast")
  BY <1>1, GoMoves DEF Labels
<1>3. TypeOK'
  BY <1>1, <1>2 DEF TypeOK, MovesTo, bounds
<1>4. NewMode(t)' = NewMode(t)
  BY <1>1 DEF NewMode, bounds
<1>5. BracketsOf(t)'
  BY <1>1, <1>2, <1>4, OfThread
  DEF BracketsOf, Opening, Releasing, Ending, Switching, MovesTo, bounds
<1>6. ASSUME ExclusiveQuiet
      PROVE  OwnersInv'
  <2>1. Excluding(t) /\ exclusiveRecurseCount = 0 /\ currentThreadMode # Exclusive
    BY <1>1, <1>6, SwitcherAlone DEF SwitchInv
  <2>2. pc'[t] = "broadcast"
    BY <1>2 DEF MovesTo
  <2>3. SwitchInv(t)' /\ Switching(t)'
    BY <1>1, <2>1, <2>2 DEF SwitchInv, Switching
  <2>4. QED
    BY <1>1, <1>2, <2>1, <2>3, SwitchGoesOn DEF Labels, bounds
<1>7. QED
  BY <1>1, <1>2, <1>3, <1>5, <1>6, SwitchUseStep DEF bounds, Labels, Acquiring

LEMMA BroadcastKeeps ==
  ASSUME Inv0, NEW t \in Threads, Broadcast(t)
  PROVE  Inv0'
<1>1. /\ TypeOK /\ pc[t] = "broadcast" /\ Switching(t) /\ BroadcastAndGo(t, "idle")
      /\ UNCHANGED <<file, held, bounds, aborted>>
  BY DEF Inv0, Broadcast, At, Switching
<1>2. MovesTo(t, "idle")
  BY <1>1, BroadcastMoves DEF Labels
<1>3. TypeOK'
  BY <1>1, <1>2 DEF TypeOK, MovesTo, bounds, file
<1>4. BracketsOf(t)'
  BY <1>1, <1>2, OfThread DEF BracketsOf, Opening, Releasing, Ending, Switching, MovesTo, bounds
<1>5. ASSUME ExclusiveQuiet
      PROVE  OwnersInv'
  <2>1. /\ exclusiveRecurseCount' = 0 /\ currentThreadMode' # Exclusive
        /\ QuietCallers' => exclusiveOwner' = NoThread
    BY <1>1, <1>5, SwitcherAlone DEF SwitchInv, QuietCallers, file, bounds
  <2>2. \A u \in Threads : pc'[u] = "idle"
    <3>1. \A u \in Threads : u # t => pc[u] = "idle"
      BY <1>1, <1>5, SwitcherAlone
    <3>2. QED
      BY <1>2, <3>1 DEF MovesTo
  <2>3. CountsInv'
    BY <1>1, <1>5, <2>1, SwitcherAlone, CountsWithNone
  <2>4. QED
    BY <2>2, <2>3, SwitchEnds
<1>6. QED
  BY <1>1, <1>2, <1>3, <1>4, <1>5, SwitchUseStep DEF bounds, file, Labels, Acquiring

LEMMA SetExclusiveOwnerKeeps ==
  ASSUME Inv0, NEW t \in Threads, SetExclusiveOwner(t)
  PROVE  Inv0'
<1>1. /\ TypeOK /\ pc[t] = "setOwner" /\ Switching(t) /\ BroadcastAndGo(t, "writeMode")
      /\ recurseCount' = 0 /\ exclusiveOwner' = t
      /\ UNCHANGED <<currentThreadMode, threadStates, m_MapMutex, exclusiveRecurseCount, held,
                     bounds, aborted>>
  BY DEF Inv0, SetExclusiveOwner, At, Switching
<1>2. MovesTo(t, "writeMode")
  BY <1>1, BroadcastMoves DEF Labels
<1>3. TypeOK'
  <2>1. 0 \in 0 .. SizeModulus - 1
    BY OfThread
  <2>2. QED
    BY <1>1, <1>2, <2>1 DEF TypeOK, MovesTo, bounds
<1>4. NewMode(t)' = NewMode(t)
  BY <1>1 DEF NewMode, bounds
<1>5. BracketsOf(t)'
  BY <1>1, <1>2, <1>4, OfThread
  DEF BracketsOf, Opening, Releasing, Ending, Switching, MovesTo, bounds
<1>6. ASSUME ExclusiveQuiet
      PROVE  OwnersInv'
  <2>1. /\ Excluding(t) /\ exclusiveRecurseCount = 0 /\ currentThreadMode # Exclusive
        /\ NewMode(t) = Exclusive
    BY <1>1, <1>6, SwitcherAlone DEF SwitchInv
  <2>2. pc'[t] = "writeMode" /\ t # NoThread
    BY <1>2, OfThread DEF MovesTo
  <2>3. SwitchInv(t)' /\ Switching(t)'
    BY <1>1, <1>4, <2>1, <2>2 DEF SwitchInv, Switching
  <2>4. QED
    BY <1>1, <1>2, <2>1, <2>3, SwitchGoesOn DEF Labels, bounds
<1>7. QED
  BY <1>1, <1>2, <1>3, <1>5, <1>6, SwitchUseStep DEF bounds, Labels, Acquiring

LEMMA WriteModeKeeps ==
  ASSUME Inv0, NEW t \in Threads, WriteMode(t)
  PROVE  Inv0'
<1>1. /\ TypeOK /\ pc[t] = "writeMode" /\ Switching(t) /\ Go(t, "idle")
      /\ currentThreadMode' = NewMode(t)
      /\ UNCHANGED <<threadStates, m_MapMutex, exclusiveOwner, recurseCount,
                     exclusiveRecurseCount, held, bounds, aborted>>
  BY DEF Inv0, WriteMode, At, Switching
<1>2. MovesTo(t, "idle")
  BY <1>1, GoMoves DEF Labels
<1>3. TypeOK'
  <2>1. NewMode(t) \in Modes
    BY <1>1 DEF TypeOK, NewMode
  <2>2. QED
    BY <1>1, <1>2, <2>1 DEF TypeOK, MovesTo, bounds
<1>4. BracketsOf(t)'
  BY <1>1, <1>2, OfThread DEF BracketsOf, Opening, Releasing, Ending, Switching, MovesTo, bounds
<1>5. ASSUME ExclusiveQuiet, Excluding(t)
      PROVE  OwnersInv'
  <2>1. /\ exclusiveRecurseCount' = 0
        /\ currentThreadMode' = Exclusive => exclusiveOwner' # NoThread
        /\ QuietCallers' => (currentThreadMode' # Exclusive => exclusiveOwner' = NoThread)
    BY <1>1, <1>5, SwitcherAlone DEF SwitchInv, QuietCallers, bounds
  <2>2. \A u \in Threads : pc'[u] = "idle"
    <3>1. \A u \in Threads : u # t => pc[u] = "idle"
      BY <1>1, <1>5, SwitcherAlone
    <3>2. QED
      BY <1>2, <3>1 DEF MovesTo
  <2>3. CountsInv'
    BY <1>1, <1>5, <2>1, SwitcherAlone, CountsWithNone
  <2>4. QED
    BY <2>2, <2>3, SwitchEnds
<1>6. ASSUME ExclusiveQuiet, ~Excluding(t)
      PROVE  OwnersInv'
  <2>1. InUse(change[t]) /\ ~QuietCallers /\ NewMode(t) # Exclusive
    BY <1>1, <1>6
    DEF Excluding, InUse, QuietCallers, NewMode, ExclusiveQuiet, Unsynchronized, Synchronized,
        Exclusive
  <2>2. \A u \in Threads : ~Excluding(u)
    BY <1>1, <1>6, NobodyExcludes DEF Inv0
  <2>3. SettledInv
    BY <1>6, <2>2 DEF Inv0, OwnersInv
  <2>4. currentThreadMode # Exclusive /\ exclusiveRecurseCount = 0
    BY <1>1, <2>3
    DEF SettledInv, PlacedAt, CountsInv, ModeLabels, ExclusiveLabels, SynchronizedLabels,
        UnsynchronizedLabels
  <2>5. ModeLabels' = ModeLabels /\ ~QuietCallers'
    BY <1>1, <2>1, <2>4 DEF ModeLabels, QuietCallers, bounds
  <2>6. CountsInv'
    BY <1>1, <2>1, <2>4, <2>5, CountsLoose
  <2>7. ASSUME NEW u \in Threads
        PROVE  PlacedAt(u)' /\ ~Excluding(u)'
    <3>1. CASE u = t
      <4>1. pc'[u] = "idle" /\ "idle" \in ModeLabels
        BY <1>2, <3>1
        DEF MovesTo, ModeLabels, ExclusiveLabels, SynchronizedLabels, UnsynchronizedLabels
      <4>2. QED
        BY <2>5, <4>1 DEF PlacedAt, Excluding, Switching
    <3>2. CASE u # t
      <4>1. PlacedAt(u) /\ ~Excluding(u) /\ pc'[u] = pc[u]
        BY <1>1, <2>2, <2>3, <3>2 DEF SettledInv, Go, TypeOK
      <4>2. QED
        BY <1>1, <2>1, <2>5, <4>1 DEF PlacedAt, Excluding, Switching, InUse, bounds
    <3>3. QED
      BY <3>1, <3>2
  <2>8. QED
    BY <2>6, <2>7 DEF OwnersInv, SettledInv
<1>7. QED
  BY <1>1, <1>2, <1>3, <1>4, <1>5, <1>6, SwitchUseStep DEF bounds, Labels, Acquiring

-----------------------------------------------------------------------------
(* The invariants of every discipline. *)

LEMMA InitEstablishes ==
  ASSUME Init
  PROVE  Inv0
<1>1. TypeOK
  <2>1. Disciplines \subseteq
          [inUse : SUBSET (Modes \X Modes), modes : SUBSET Modes, switches : Nat]
    BY ConstantsAssumption
  <2>2. discipline \in Disciplines /\ switches \in Nat
    BY <2>1 DEF Init
  <2>3. 0 \in 0 .. SizeModulus - 1
    BY ConstantsAssumption
  <2>4. pc \in [Threads -> Labels]
    BY DEF Init, Labels
  <2>5. held \in [Threads -> Seq(Kinds)]
    <3>1. <<>> \in Seq(Kinds)
      OBVIOUS
    <3>2. QED
      BY <3>1 DEF Init
  <2>6. QED
    BY <2>2, <2>3, <2>4, <2>5, ConstantsAssumption DEF Init, TypeOK
<1>2. \A u \in Threads : pc[u] = "idle" /\ held[u] = <<>>
  BY DEF Init
<1>3. BracketsInv
  <2>1. Len(<<>>) = 0 /\ MaxDepth \in Nat
    BY ConstantsAssumption
  <2>2. QED
    BY <1>2, <2>1 DEF BracketsInv, BracketsOf, Opening, Releasing, Ending, Switching
<1>4. CountsInv
  <2>1. \A u \in Threads : Depth(u, "state") = 0 /\ Depth(u, "io") = 0
    BY <1>2, DepthOfNone
  <2>2. \A u \in Threads : u # NoThread
    BY ConstantsAssumption
  <2>3. /\ exclusiveRecurseCount = 0 /\ recurseCount = 0
        /\ currentThreadMode = Exclusive <=> exclusiveOwner # NoThread
    BY ConstantsAssumption DEF Init
  <2>4. QED
    BY <2>1, <2>2, <2>3 DEF CountsInv, Unsynchronized, Synchronized, Exclusive
<1>5. OwnersInv /\ AloneInv
  <2>1. \A u \in Threads : ~Excluding(u)
    BY <1>2 DEF Excluding, Switching
  <2>2. \A u \in Threads : PlacedAt(u)
    BY <1>2
    DEF PlacedAt, ModeLabels, ExclusiveLabels, SynchronizedLabels, UnsynchronizedLabels
  <2>3. QED
    BY <1>4, <2>1, <2>2 DEF OwnersInv, SettledInv, AloneInv
<1>6. OwnStatesInv
  <2>1. \A u \in Threads : ~Holds(u, "state")
    BY <1>2 DEF Holds
  <2>2. QED
    BY <1>2, <2>1 DEF OwnStatesInv, OwnStateOf, Acquiring, Init
<1>7. QED
  BY <1>1, <1>3, <1>5, <1>6 DEF Inv0

LEMMA NextKeeps ==
  ASSUME Inv0, [Next]_vars
  PROVE  Inv0'
<1>1. CASE Next
  <2>1. PICK t \in Threads : Proceed(t) \/ GetState(t) \/ Start(t) \/ SetThreadMode(t)
    BY <1>1 DEF Next
  <2>2. CASE WaitExclusiveThread(t)
    BY <2>2, WaitExclusiveThreadKeeps
  <2>3. CASE GetState(t) \/ Start(t) \/ SetThreadMode(t)
    BY <2>3, GetStateKeeps, StartKeeps, SetThreadModeKeeps
  <2>4. CASE GetSecond(t) \/ GetThird(t) \/ GetOwnState(t)
    BY <2>4, GetSecondKeeps, GetThirdKeeps, GetOwnStateKeeps
  <2>5. CASE Acquire(t) \/ TakeOwner(t) \/ CountOwner(t) \/ Sleep(t)
    BY <2>5, AcquireKeeps, TakeOwnerKeeps, CountOwnerKeeps, SleepKeeps
  <2>6. CASE \/ ReleaseState(t) \/ ReleaseSecond(t) \/ ReleaseThird(t)
             \/ ReleaseCount(t) \/ ReleaseOwnState(t)
    BY <2>6, ReleaseStateKeeps, ReleaseSecondKeeps, ReleaseThirdKeeps, ReleaseCountKeeps,
       ReleaseOwnStateKeeps
  <2>7. CASE End(t) \/ TestRecurse(t)
    BY <2>7, EndKeeps, TestRecurseKeeps
  <2>8. CASE LeaveExclusive(t) \/ TestOwner(t) \/ DropOwner(t)
    BY <2>8, LeaveExclusiveKeeps, TestOwnerKeeps, DropOwnerKeeps
  <2>9. CASE Broadcast(t) \/ SetExclusiveOwner(t) \/ WriteMode(t)
    BY <2>9, BroadcastKeeps, SetExclusiveOwnerKeeps, WriteModeKeeps
  <2>10. QED
    BY <2>1, <2>2, <2>3, <2>4, <2>5, <2>6, <2>7, <2>8, <2>9 DEF Proceed
<1>2. CASE UNCHANGED vars
  <2>1. TypeOK'
    BY <1>2 DEF Inv0, TypeOK, vars, file, bounds
  <2>2. BracketsInv' /\ AloneInv'
    BY <1>2
    DEF Inv0, BracketsInv, BracketsOf, AloneInv, Excluding, InUse, NewMode, Innermost, Switching,
        vars, file, bounds
  <2>3. CountsInv => CountsInv'
    BY <1>2, CountsStay DEF vars, file, bounds
  <2>4. SettledInv => SettledInv'
    BY <1>2, <2>3 DEF SettledInv, PlacedAt, ModeLabels, QuietCallers, InUse, vars, file, bounds
  <2>5. \A u \in Threads : (Excluding(u)' <=> Excluding(u)) /\ (SwitchInv(u)' <=> SwitchInv(u))
    BY <1>2
    DEF SwitchInv, Excluding, InUse, NewMode, QuietCallers, Switching, vars, file, bounds
  <2>6. OwnersInv'
    BY <1>2, <2>4, <2>5 DEF Inv0, OwnersInv, ExclusiveQuiet, vars, file, bounds
  <2>7. OwnStatesInv'
    BY <1>2 DEF Inv0, OwnStatesInv, OwnStateOf, EntersQuietly, Holds, vars, file, bounds
  <2>8. QED
    BY <2>1, <2>2, <2>6, <2>7 DEF Inv0
<1>3. QED
  BY <1>1, <1>2

\* The invariants hold whatever the discipline of the callers: the brackets are nested; nobody
\* uses the file during a change of the mode that the callers do not make while it is in use;
\* where they go into and out of the exclusive mode only then, the owner and the two counts of
\* the file say who has it, before and after each change of the mode and at every step of it;
\* and where they at least go into it only then, a thread has a state of its own in it.
THEOREM FileInvariant == Spec => [](TypeOK /\ BracketsInv /\ AloneInv /\ OwnersInv /\ OwnStatesInv)
<1>1. Init => Inv0
  BY InitEstablishes
<1>2. Inv0 /\ [Next]_vars => Inv0'
  BY NextKeeps
<1>3. Inv0 => TypeOK /\ BracketsInv /\ AloneInv /\ OwnersInv /\ OwnStatesInv
  BY DEF Inv0
<1>4. QED
  BY <1>1, <1>2, <1>3, PTL DEF Spec

\* Whoever uses the file, one thread at a time has it: the holder of the state in the
\* synchronized mode, and the owner in the exclusive mode, as often as
\* exclusiveRecurseCount says (M2File_GetState, waitExclusiveThread).
THEOREM AlwaysOneAtATime == Spec => []OneAtATime
<1>1. Inv0 => OneAtATime
  <2> SUFFICES ASSUME Inv0 PROVE OneAtATime
    OBVIOUS
  <2>1. TypeOK
    BY DEF Inv0
  <2>2. OneHolder
    <3> SUFFICES ASSUME currentThreadMode = Synchronized, Quiet,
                        NEW t \in Threads, NEW u \in Threads, Holds(t, "state"), Holds(u, "state")
                 PROVE  t = u
      BY DEF OneHolder
    <3>1. CountsInv /\ QuietCallers
      BY DEF Inv0, OwnersInv, Quiet, QuietCallers, ExclusiveQuiet, SettledInv, Excluding
    <3>2. Depth(t, "state") # 0 /\ Depth(u, "state") # 0
      BY <2>1, DepthIsCount DEF Kinds
    <3>3. QED
      BY <3>1, <3>2 DEF CountsInv
  <2>3. OwnerAlone
    <3> SUFFICES ASSUME currentThreadMode = Exclusive, ExclusiveQuiet,
                        \A t \in Threads : ~Switching(t)
                 PROVE  /\ \A t \in Threads : Holds(t, "io") => t = exclusiveOwner
                        /\ exclusiveOwner # NoThread =>
                             exclusiveRecurseCount = Depth(exclusiveOwner, "io")
      BY DEF OwnerAlone
    <3>1. \A t \in Threads : Depth(t, "io") = IF t = exclusiveOwner THEN exclusiveRecurseCount ELSE 0
      BY DEF Inv0, OwnersInv, SettledInv, CountsInv, Excluding
    <3>2. \A t \in Threads : Holds(t, "io") => Depth(t, "io") # 0
      BY <2>1, DepthIsCount DEF Kinds
    <3>3. exclusiveOwner # NoThread => exclusiveOwner \in Threads
      BY <2>1 DEF TypeOK
    <3>4. QED
      BY <3>1, <3>2, <3>3
  <2>4. QED
    BY <2>2, <2>3 DEF OneAtATime
<1>2. QED
  BY <1>1, InitEstablishes, NextKeeps, PTL DEF Spec

\* recurseCount is the depth to which the owner has the state, and nobody has it when there
\* is no owner: the last ReleaseState and no other frees it (releaseExclusiveThreadCount).
THEOREM RecurseCountAlwaysTruthful == Spec => []RecurseCountTruthful
<1>1. Inv0 => RecurseCountTruthful
  <2> SUFFICES ASSUME Inv0, currentThreadMode = Synchronized, Quiet
               PROVE  /\ exclusiveOwner = NoThread => \A t \in Threads : ~Holds(t, "state")
                      /\ exclusiveOwner # NoThread =>
                           recurseCount = Depth(exclusiveOwner, "state")
    BY DEF RecurseCountTruthful
  <2>1. TypeOK
    BY DEF Inv0
  <2>2. CountsInv /\ QuietCallers
    BY DEF Inv0, OwnersInv, Quiet, QuietCallers, ExclusiveQuiet, SettledInv, Excluding
  <2>3. \A t \in Threads : Depth(t, "state") = IF t = exclusiveOwner THEN recurseCount ELSE 0
    BY <2>2 DEF CountsInv
  <2>4. \A t \in Threads : Holds(t, "state") => Depth(t, "state") # 0
    BY <2>1, DepthIsCount DEF Kinds
  <2>5. \A t \in Threads : t # NoThread
    BY ConstantsAssumption
  <2>6. exclusiveOwner # NoThread => exclusiveOwner \in Threads
    BY <2>1 DEF TypeOK
  <2>7. QED
    BY <2>3, <2>4, <2>5, <2>6
<1>2. QED
  BY <1>1, InitEstablishes, NextKeeps, PTL DEF Spec

-----------------------------------------------------------------------------
(* The mutex of the file. *)

\* t goes to label, and what becomes of the mutex and of the mode.
MovesWithMutex(t, label) ==
  /\ label \in Labels
  /\ Go(t, label) \/ BroadcastAndGo(t, label) \/ (pc' = pc /\ pc[t] = label)
  /\ \/ UNCHANGED m_MapMutex /\ (pc[t] \notin Locking \/ label \in Locking)
     \/ m_MapMutex' = NoThread
     \/ m_MapMutex' = t /\ label \in Locking
     \/ OtherPasses(t, "startLeave") \/ OtherPasses(t, "endLeave")
  /\ label \in Leaving => currentThreadMode # Exclusive
  /\ discipline' = discipline
  /\ \/ currentThreadMode' = currentThreadMode
     \/ Switching(t) /\ label \notin Leaving /\ currentThreadMode' = NewMode(t)

LEMMA StepMoves ==
  ASSUME NEW t \in Threads, Proceed(t) \/ GetState(t) \/ Start(t) \/ SetThreadMode(t)
  PROVE  \E label : MovesWithMutex(t, label)
<1> USE DEF Locking, Leaving, Labels, At, bounds
<1>1. CASE GetState(t)
  <2>1. PICK l \in {"idle", "getSecond"} : Go(t, l) \/ (pc' = pc /\ pc[t] = l)
    BY <1>1 DEF GetState, Opens, MayUse
  <2>2. MovesWithMutex(t, l)
    BY <1>1, <2>1 DEF GetState, Opens, MayUse, file, MovesWithMutex
  <2>3. QED
    BY <2>2
<1>2. CASE GetSecond(t)
  <2>1. PICK l \in {"acquire", "getThird"} : Go(t, l)
    BY <1>2 DEF GetSecond
  <2>2. MovesWithMutex(t, l)
    BY <1>2, <2>1 DEF GetSecond, file, MovesWithMutex
  <2>3. QED
    BY <2>2
<1>3. CASE GetThird(t)
  <2>1. PICK l \in {"idle", "getMap"} : Go(t, l)
    BY <1>3 DEF GetThird
  <2>2. MovesWithMutex(t, l)
    BY <1>3, <2>1 DEF GetThird, file, MovesWithMutex
  <2>3. QED
    BY <2>2
<1>4. CASE Start(t)
  <2>1. PICK l \in {"start", "startExclusive"} : Go(t, l)
    BY <1>4 DEF Start, Opens, MayUse
  <2>2. MovesWithMutex(t, l)
    BY <1>4, <2>1 DEF Start, Opens, MayUse, file, MovesWithMutex
  <2>3. QED
    BY <2>2
<1>5. CASE SetThreadMode(t)
  <2>1. PICK l \in {"leaveExclusive", "setOwner", "writeMode"} : Go(t, l)
    BY <1>5 DEF SetThreadMode
  <2>2. MovesWithMutex(t, l)
    BY <1>5, <2>1 DEF SetThreadMode, MaySwitch, MayUse, file, MovesWithMutex
  <2>3. QED
    BY <2>2
<1>6. CASE GetOwnState(t)
  <2>1. MovesWithMutex(t, "idle")
    BY <1>6 DEF GetOwnState, MovesWithMutex
  <2>2. QED
    BY <2>1
<1>7. CASE Acquire(t)
  <2>1. PICK l \in {"acquireSleep", "acquireOwner"} : Go(t, l)
    BY <1>7 DEF Acquire
  <2>2. MovesWithMutex(t, l)
    BY <1>7, <2>1 DEF Acquire, MovesWithMutex
  <2>3. QED
    BY <2>2
<1>8. CASE TakeOwner(t)
  <2>1. PICK l \in {"idle", "acquireSelf"} :
          /\ Go(t, l) \/ BroadcastAndGo(t, l)
          /\ m_MapMutex' = NoThread \/ (l = "acquireSelf" /\ UNCHANGED m_MapMutex)
    BY <1>8 DEF TakeOwner
  <2>2. MovesWithMutex(t, l)
    BY <1>8, <2>1 DEF TakeOwner, MovesWithMutex
  <2>3. QED
    BY <2>2
<1>9. CASE CountOwner(t)
  <2>1. PICK l \in {"idle", "acquireSleep"} :
          Go(t, l) /\ (m_MapMutex' = NoThread \/ (l = "acquireSleep" /\ UNCHANGED m_MapMutex))
    BY <1>9 DEF CountOwner
  <2>2. MovesWithMutex(t, l)
    BY <1>9, <2>1 DEF CountOwner, MovesWithMutex
  <2>3. QED
    BY <2>2
<1>10. CASE Sleep(t)
  <2>1. PICK l \in {"acquireWait", "startWait", "endWait"} : Go(t, l)
    BY <1>10 DEF Sleep
  <2>2. MovesWithMutex(t, l)
    BY <1>10, <2>1 DEF Sleep, MovesWithMutex
  <2>3. QED
    BY <2>2
<1>11. CASE ReleaseState(t)
  <2>1. PICK l \in {"idle", "releaseSecond"} : Go(t, l) \/ (pc' = pc /\ pc[t] = l)
    BY <1>11 DEF ReleaseState, MayUse
  <2>2. MovesWithMutex(t, l)
    BY <1>11, <2>1 DEF ReleaseState, MayUse, file, MovesWithMutex
  <2>3. QED
    BY <2>2
<1>12. CASE ReleaseSecond(t)
  <2>1. PICK l \in {"releaseCount", "releaseThird"} : Go(t, l)
    BY <1>12 DEF ReleaseSecond
  <2>2. MovesWithMutex(t, l)
    BY <1>12, <2>1 DEF ReleaseSecond, file, MovesWithMutex
  <2>3. QED
    BY <2>2
<1>13. CASE ReleaseThird(t)
  <2>1. PICK l \in {"idle", "releaseMap"} : Go(t, l)
    BY <1>13 DEF ReleaseThird
  <2>2. MovesWithMutex(t, l)
    BY <1>13, <2>1 DEF ReleaseThird, file, MovesWithMutex
  <2>3. QED
    BY <2>2
<1>14. CASE ReleaseCount(t)
  <2>1. MovesWithMutex(t, "idle")
    BY <1>14 DEF ReleaseCount, MovesWithMutex
  <2>2. QED
    BY <2>1
<1>15. CASE ReleaseOwnState(t)
  <2>1. CASE t \in threadStates
    <3>1. MovesWithMutex(t, "idle")
      BY <1>15, <2>1 DEF ReleaseOwnState, MovesWithMutex
    <3>2. QED
      BY <3>1
  <2>2. CASE t \notin threadStates
    <3>1. MovesWithMutex(t, "releaseMap")
      BY <1>15, <2>2 DEF ReleaseOwnState, MovesWithMutex
    <3>2. QED
      BY <3>1
  <2>3. QED
    BY <2>1, <2>2
<1>16. CASE End(t)
  <2>1. PICK l \in {"end", "endExclusive"} : Go(t, l)
    BY <1>16 DEF End, MayUse
  <2>2. MovesWithMutex(t, l)
    BY <1>16, <2>1 DEF End, MayUse, file, MovesWithMutex
  <2>3. QED
    BY <2>2
<1>17. CASE TestRecurse(t)
  <2>1. PICK l \in {"idle", "startExclusive", "endExclusive"} : Go(t, l)
    <3>1. CASE exclusiveRecurseCount = 0
      BY <1>17, <3>1 DEF TestRecurse
    <3>2. CASE exclusiveRecurseCount # 0
      BY <1>17, <3>2 DEF TestRecurse
    <3>3. QED
      BY <3>1, <3>2
  <2>2. MovesWithMutex(t, l)
    BY <1>17, <2>1 DEF TestRecurse, file, MovesWithMutex
  <2>3. QED
    BY <2>2
<1>18. CASE WaitExclusiveThread(t)
  <2>1. ASSUME NEW label \in {"startExclusive", "endExclusive"}, NEW delta,
               OwnerPasses(t, label, delta)
        PROVE  \E l : MovesWithMutex(t, l)
    <3>1. PICK l \in {"idle", "ownerLast"} :
            /\ Go(t, l) \/ BroadcastAndGo(t, l)
            /\ (l = "ownerLast" /\ m_MapMutex' = t) \/ (l = "idle" /\ UNCHANGED m_MapMutex)
      BY <2>1 DEF OwnerPasses
    <3>2. MovesWithMutex(t, l)
      BY <2>1, <3>1 DEF OwnerPasses, MovesWithMutex
    <3>3. QED
      BY <3>2
  <2>2. CASE OwnerLeaves(t)
    <3>1. MovesWithMutex(t, "idle")
      BY <2>2 DEF OwnerLeaves, MovesWithMutex
    <3>2. QED
      BY <3>1
  <2>3. ASSUME NEW label, NEW leave \in Leaving, OtherLeaves(t, label, leave)
        PROVE  MovesWithMutex(t, leave)
    BY <2>3 DEF OtherLeaves, MovesWithMutex
  <2>4. CASE OtherPasses(t, "startLeave") \/ OtherPasses(t, "endLeave")
    <3>1. Go(t, "idle") /\ UNCHANGED <<currentThreadMode, discipline>>
      BY <2>4 DEF OtherPasses
    <3>2. MovesWithMutex(t, "idle")
      BY <2>4, <3>1 DEF MovesWithMutex
    <3>3. QED
      BY <3>2
  <2>5. ASSUME NEW label, NEW sleep \in {"startSleep", "endSleep"}, OtherWaits(t, label, sleep)
        PROVE  MovesWithMutex(t, sleep)
    BY <2>5 DEF OtherWaits, MovesWithMutex
  <2>6. QED
    BY <1>18, <2>1, <2>2, <2>3, <2>4, <2>5 DEF WaitExclusiveThread
<1>19. CASE LeaveExclusive(t)
  <2>1. PICK l \in {"idle", "testOwner"} : Go(t, l)
    BY <1>19 DEF LeaveExclusive
  <2>2. MovesWithMutex(t, l)
    BY <1>19, <2>1 DEF LeaveExclusive, MovesWithMutex, Switching
  <2>3. QED
    BY <2>2
<1>20. CASE TestOwner(t)
  <2>1. PICK l \in {"dropOwner", "broadcast"} : Go(t, l)
    BY <1>20 DEF TestOwner
  <2>2. MovesWithMutex(t, l)
    BY <1>20, <2>1 DEF TestOwner, file, MovesWithMutex
  <2>3. QED
    BY <2>2
<1>21. CASE DropOwner(t)
  <2>1. MovesWithMutex(t, "broadcast")
    BY <1>21 DEF DropOwner, MovesWithMutex
  <2>2. QED
    BY <2>1
<1>22. CASE Broadcast(t)
  <2>1. MovesWithMutex(t, "idle")
    BY <1>22 DEF Broadcast, file, MovesWithMutex
  <2>2. QED
    BY <2>1
<1>23. CASE SetExclusiveOwner(t)
  <2>1. MovesWithMutex(t, "writeMode")
    BY <1>23 DEF SetExclusiveOwner, MovesWithMutex
  <2>2. QED
    BY <2>1
<1>24. CASE WriteMode(t)
  <2>1. MovesWithMutex(t, "idle")
    BY <1>24 DEF WriteMode, MovesWithMutex, Switching
  <2>2. QED
    BY <2>1
<1>25. QED
  BY <1>1, <1>2, <1>3, <1>4, <1>5, <1>6, <1>7, <1>8, <1>9, <1>10, <1>11, <1>12, <1>13,
     <1>14, <1>15, <1>16, <1>17, <1>18, <1>19, <1>20, <1>21, <1>22, <1>23, <1>24 DEF Proceed

\* A thread that finds the mode changed in waitExclusiveThread finds the synchronized mode when
\* it reads the mode again, and unlocks the mutex.
LEMMA PassesUnlocked ==
  ASSUME Inv0, MutexInv, ExclusiveQuiet \/ HandsOver,
         NEW t \in Threads, NEW leave \in Leaving, OtherPasses(t, leave)
  PROVE  m_MapMutex' = NoThread
<1>1. pc[t] = leave
  BY DEF OtherPasses, At
<1>2. CASE HandsOver
  BY <1>1, <1>2 DEF MutexInv, OtherPasses
<1>3. CASE ExclusiveQuiet
  <2>1. ~Switching(t) /\ pc[t] # "idle"
    BY <1>1 DEF Switching, Leaving
  <2>2. SettledInv /\ TypeOK
    BY <1>3, <2>1, NobodyExcludes DEF Inv0, OwnersInv, Excluding
  <2>3. QED
    BY <1>1, <2>2, ExclusiveCalls
<1>4. QED
  BY <1>2, <1>3

LEMMA MutexStep ==
  ASSUME Inv0, MutexInv, NEW t \in Threads, NEW label, MovesTo(t, label),
         MovesWithMutex(t, label)
  PROVE  MapMutexReleased'
<1> SUFFICES ASSUME ExclusiveQuiet \/ HandsOver, m_MapMutex' # NoThread
             PROVE  pc'[m_MapMutex'] \in Locking
  BY DEF MapMutexReleased, MovesWithMutex, ExclusiveQuiet, HandsOver
<1>1. ~OtherPasses(t, "startLeave") /\ ~OtherPasses(t, "endLeave")
  BY PassesUnlocked DEF Leaving
<1>2. CASE UNCHANGED m_MapMutex /\ (pc[t] \notin Locking \/ label \in Locking)
  <2>1. pc[m_MapMutex] \in Locking /\ m_MapMutex \in Threads
    BY <1>2 DEF Inv0, TypeOK, MutexInv, MapMutexReleased
  <2>2. CASE m_MapMutex = t
    BY <1>2, <2>1, <2>2 DEF MovesTo
  <2>3. CASE m_MapMutex # t
    BY <1>2, <2>1, <2>3 DEF MovesTo, Locking
  <2>4. QED
    BY <2>2, <2>3
<1>3. CASE m_MapMutex' = t /\ label \in Locking
  BY <1>3 DEF MovesTo
<1>4. QED
  BY <1>1, <1>2, <1>3 DEF MovesWithMutex

\* Where callers only hand the file over, the mode is one that locks, and it does not become
\* the exclusive one behind a thread that has found the synchronized one.
LEMMA HandOverStep ==
  ASSUME Inv0, MutexInv, HandsOver, NEW t \in Threads, NEW label, MovesTo(t, label),
         MovesWithMutex(t, label)
  PROVE  /\ currentThreadMode' # Unsynchronized
         /\ \A u \in Threads : pc'[u] \in Leaving => currentThreadMode' = Synchronized
<1>1. currentThreadMode \in {Synchronized, Exclusive}
  BY DEF Inv0, TypeOK, MutexInv, Modes, Unsynchronized, Synchronized, Exclusive
<1>2. \A u \in Threads \ {t} : pc'[u] \in Leaving => pc[u] \in Leaving
  BY DEF MovesTo, Leaving
<1>3. CASE currentThreadMode' = currentThreadMode
  <2>1. pc'[t] \in Leaving => currentThreadMode = Synchronized
    BY <1>1 DEF MovesTo, MovesWithMutex
  <2>2. QED
    BY <1>1, <1>2, <1>3, <2>1 DEF MutexInv, Unsynchronized, Synchronized, Exclusive
<1>4. CASE Switching(t) /\ label \notin Leaving /\ currentThreadMode' = NewMode(t)
  <2>1. NewMode(t) \in Modes /\ NewMode(t) # Unsynchronized
    <3>1. NewMode(t) \in discipline.modes /\ discipline \in Disciplines
      BY <1>4, OfThread DEF Inv0, TypeOK
    <3>2. QED
      BY <3>1, ConstantsAssumption DEF HandsOver
  <2>2. CASE NewMode(t) = Synchronized
    BY <1>4, <2>2 DEF Unsynchronized, Synchronized
  <2>3. CASE NewMode(t) = Exclusive
    <3>1. ~InUse(change[t])
      BY <2>3 DEF InUse, HandsOver, NewMode, Synchronized, Exclusive
    <3>2. \A u \in Threads \ {t} : pc[u] = "idle"
      BY <1>4, <3>1 DEF Inv0, AloneInv, Excluding
    <3>3. \A u \in Threads \ {t} : pc'[u] \notin Leaving
      BY <1>2, <3>2 DEF Leaving
    <3>4. pc'[t] \notin Leaving
      BY <1>4 DEF MovesTo
    <3>5. QED
      BY <1>4, <2>3, <3>3, <3>4 DEF Unsynchronized, Exclusive
  <2>4. QED
    BY <2>1, <2>2, <2>3 DEF Modes, Unsynchronized, Synchronized, Exclusive
<1>5. QED
  BY <1>3, <1>4 DEF MovesWithMutex


LEMMA MutexKept ==
  ASSUME Inv0, MutexInv, [Next]_vars
  PROVE  MutexInv'
<1>1. CASE UNCHANGED vars
  BY <1>1 DEF MutexInv, MapMutexReleased, HandsOver, ExclusiveQuiet, vars, file, bounds
<1>2. CASE Next
  <2>1. PICK t \in Threads : Proceed(t) \/ GetState(t) \/ Start(t) \/ SetThreadMode(t)
    BY <1>2 DEF Next
  <2>2. PICK label : MovesWithMutex(t, label)
    BY <2>1, StepMoves
  <2>3. MovesTo(t, label)
    <3>1. CASE pc' = pc /\ pc[t] = label
      BY <3>1 DEF MovesTo, Inv0, TypeOK
    <3>2. CASE Go(t, label) \/ BroadcastAndGo(t, label)
      BY <2>2, <3>2, GoMoves, BroadcastMoves DEF MovesWithMutex, Inv0
    <3>3. QED
      BY <2>2, <3>1, <3>2 DEF MovesWithMutex
  <2>4. MapMutexReleased'
    BY <2>2, <2>3, MutexStep
  <2>5. HandsOver' => HandsOver
    BY <2>2 DEF MovesWithMutex, HandsOver
  <2>6. QED
    BY <2>2, <2>3, <2>4, <2>5, HandOverStep DEF MutexInv
<1>3. QED
  BY <1>1, <1>2

\* No call returns with m_MapMutex locked, where callers go into and out of the exclusive
\* mode only while nobody uses the file, or go from it to the synchronized mode at any moment
\* and have no file in the unsynchronized mode: the second read of the mode in
\* waitExclusiveThread (m2file.cpp:50) finds what the first (:48) left to it, and the return
\* that does not unlock (:55) is not reached.  And ReleaseState does not come to its abort (:213),
\* where callers go into the exclusive mode only while nobody uses the file.
THEOREM LockAlwaysSound == Spec => []LockSound
<1>1. Init => Inv0 /\ MutexInv
  <2>1. Init => MutexInv
    BY ConstantsAssumption
    DEF Init, MutexInv, MapMutexReleased, HandsOver, Leaving, Unsynchronized
  <2>2. QED
    BY <2>1, InitEstablishes
<1>2. Inv0 /\ MutexInv /\ [Next]_vars => (Inv0 /\ MutexInv)'
  BY NextKeeps, MutexKept
<1>3. Inv0 /\ MutexInv => LockSound
  BY DEF Inv0, MutexInv, LockSound, NeverAborts, OwnStatesInv
<1>4. QED
  BY <1>1, <1>2, <1>3, PTL DEF Spec
=============================================================================
