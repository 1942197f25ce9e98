---------------------------- MODULE FileOutputProofs ----------------------------
(***************************************************************************)
(* Proofs about FileOutput.  Sequences come first: what is moved through   *)
(* the file stays in order, what is put behind it does too.                *)
(***************************************************************************)
EXTENDS FileOutput, SequenceTheorems, TLAPS

Increasing(s) == \A i, j \in DOMAIN s : i < j => s[i] < s[j]

\* The members of a sequence that is put together.
LEMMA MembersConcat ==
  ASSUME NEW A, NEW s \in Seq(A), NEW t \in Seq(A)
  PROVE  ToSet(s \o t) = ToSet(s) \cup ToSet(t)
<1>1. /\ s \o t \in Seq(A) /\ Len(s \o t) = Len(s) + Len(t)
      /\ \A i \in 1 .. Len(s) + Len(t) : (s \o t)[i] = IF i <= Len(s) THEN s[i] ELSE t[i - Len(s)]
  BY ConcatProperties
<1>2. /\ DOMAIN s = 1 .. Len(s) /\ DOMAIN t = 1 .. Len(t) /\ DOMAIN (s \o t) = 1 .. Len(s) + Len(t)
      /\ Len(s) \in Nat /\ Len(t) \in Nat
  BY <1>1, LenProperties
<1>3. ASSUME NEW x \in ToSet(s \o t) PROVE x \in ToSet(s) \cup ToSet(t)
  <2>1. PICK i \in 1 .. Len(s) + Len(t) : x = (s \o t)[i]
    BY <1>2, <1>3 DEF ToSet
  <2>2. CASE i <= Len(s)
    BY <1>1, <1>2, <2>1, <2>2 DEF ToSet
  <2>3. CASE i > Len(s)
    <3>1. i - Len(s) \in 1 .. Len(t) /\ x = t[i - Len(s)]
      BY <1>1, <1>2, <2>1, <2>3
    <3>2. QED
      BY <1>2, <3>1 DEF ToSet
  <2>4. QED
    BY <1>2, <2>1, <2>2, <2>3
<1>4. ASSUME NEW x \in ToSet(s) PROVE x \in ToSet(s \o t)
  <2>1. PICK i \in 1 .. Len(s) : x = s[i]
    BY <1>2, <1>4 DEF ToSet
  <2>2. i \in 1 .. Len(s) + Len(t) /\ x = (s \o t)[i]
    BY <1>1, <1>2, <2>1
  <2>3. QED
    BY <1>2, <2>2 DEF ToSet
<1>5. ASSUME NEW x \in ToSet(t) PROVE x \in ToSet(s \o t)
  <2>1. PICK i \in 1 .. Len(t) : x = t[i]
    BY <1>2, <1>5 DEF ToSet
  <2>2. i + Len(s) \in 1 .. Len(s) + Len(t) /\ x = (s \o t)[i + Len(s)]
    BY <1>1, <1>2, <2>1
  <2>3. QED
    BY <1>2, <2>2 DEF ToSet
<1>6. QED
  BY <1>3, <1>4, <1>5

\* Parts of an increasing sequence are increasing, and the first is below the second.
LEMMA IncreasingConcat ==
  ASSUME NEW s \in Seq(Nat), NEW t \in Seq(Nat)
  PROVE  Increasing(s \o t)
           <=> /\ Increasing(s) /\ Increasing(t)
               /\ \A x \in ToSet(s), y \in ToSet(t) : x < y
<1>1. /\ s \o t \in Seq(Nat) /\ Len(s \o t) = Len(s) + Len(t)
      /\ \A i \in 1 .. Len(s) + Len(t) : (s \o t)[i] = IF i <= Len(s) THEN s[i] ELSE t[i - Len(s)]
  BY ConcatProperties
<1>2. /\ DOMAIN s = 1 .. Len(s) /\ DOMAIN t = 1 .. Len(t) /\ DOMAIN (s \o t) = 1 .. Len(s) + Len(t)
      /\ Len(s) \in Nat /\ Len(t) \in Nat
  BY <1>1, LenProperties
<1>3. ASSUME Increasing(s \o t)
      PROVE  Increasing(s) /\ Increasing(t) /\ \A x \in ToSet(s), y \in ToSet(t) : x < y
  <2>1. Increasing(s)
    <3> SUFFICES ASSUME NEW i \in 1 .. Len(s), NEW j \in 1 .. Len(s), i < j PROVE s[i] < s[j]
      BY <1>2 DEF Increasing
    <3>1. /\ i \in 1 .. Len(s) + Len(t) /\ j \in 1 .. Len(s) + Len(t)
          /\ (s \o t)[i] = s[i] /\ (s \o t)[j] = s[j]
      BY <1>1, <1>2
    <3>2. QED
      BY <1>2, <1>3, <3>1 DEF Increasing
  <2>2. Increasing(t)
    <3> SUFFICES ASSUME NEW i \in 1 .. Len(t), NEW j \in 1 .. Len(t), i < j PROVE t[i] < t[j]
      BY <1>2 DEF Increasing
    <3>1. /\ i + Len(s) \in 1 .. Len(s) + Len(t) /\ j + Len(s) \in 1 .. Len(s) + Len(t)
          /\ (s \o t)[i + Len(s)] = t[i] /\ (s \o t)[j + Len(s)] = t[j] /\ i + Len(s) < j + Len(s)
      BY <1>1, <1>2
    <3>2. QED
      BY <1>2, <1>3, <3>1 DEF Increasing
  <2>3. ASSUME NEW x \in ToSet(s), NEW y \in ToSet(t) PROVE x < y
    <3>1. PICK i \in 1 .. Len(s) : x = s[i]
      BY <1>2 DEF ToSet
    <3>2. PICK j \in 1 .. Len(t) : y = t[j]
      BY <1>2 DEF ToSet
    <3>3. /\ i \in 1 .. Len(s) + Len(t) /\ j + Len(s) \in 1 .. Len(s) + Len(t)
          /\ (s \o t)[i] = x /\ (s \o t)[j + Len(s)] = y /\ i < j + Len(s)
      BY <1>1, <1>2, <3>1, <3>2
    <3>4. QED
      BY <1>2, <1>3, <3>3 DEF Increasing
  <2>4. QED
    BY <2>1, <2>2, <2>3
<1>4. ASSUME Increasing(s), Increasing(t), \A x \in ToSet(s), y \in ToSet(t) : x < y
      PROVE  Increasing(s \o t)
  <2> SUFFICES ASSUME NEW i \in 1 .. Len(s) + Len(t), NEW j \in 1 .. Len(s) + Len(t), i < j
               PROVE  (s \o t)[i] < (s \o t)[j]
    BY <1>2 DEF Increasing
  <2>1. CASE j <= Len(s)
    <3>1. /\ i \in 1 .. Len(s) /\ j \in 1 .. Len(s)
          /\ (s \o t)[i] = s[i] /\ (s \o t)[j] = s[j]
      BY <1>1, <1>2, <2>1
    <3>2. QED
      BY <1>2, <1>4, <3>1 DEF Increasing
  <2>2. CASE i > Len(s)
    <3>1. /\ i - Len(s) \in 1 .. Len(t) /\ j - Len(s) \in 1 .. Len(t)
          /\ (s \o t)[i] = t[i - Len(s)] /\ (s \o t)[j] = t[j - Len(s)] /\ i - Len(s) < j - Len(s)
      BY <1>1, <1>2, <2>2
    <3>2. QED
      BY <1>2, <1>4, <3>1 DEF Increasing
  <2>3. CASE i <= Len(s) /\ j > Len(s)
    <3>1. /\ i \in 1 .. Len(s) /\ j - Len(s) \in 1 .. Len(t)
          /\ (s \o t)[i] = s[i] /\ (s \o t)[j] = t[j - Len(s)]
      BY <1>1, <1>2, <2>3
    <3>2. s[i] \in ToSet(s) /\ t[j - Len(s)] \in ToSet(t)
      BY <1>2, <3>1 DEF ToSet
    <3>3. QED
      BY <1>4, <3>1, <3>2
  <2>4. QED
    BY <1>2, <2>1, <2>2, <2>3
<1>5. QED
  BY <1>3, <1>4

\* Two sequences that are joined.
LEMMA Join ==
  ASSUME NEW s \in Seq(Nat), NEW t \in Seq(Nat)
  PROVE  /\ s \o t \in Seq(Nat) /\ Len(s \o t) = Len(s) + Len(t)
         /\ ToSet(s \o t) = ToSet(s) \cup ToSet(t)
         /\ Increasing(s \o t)
              <=> /\ Increasing(s) /\ Increasing(t)
                  /\ \A x \in ToSet(s), y \in ToSet(t) : x < y
BY ConcatProperties, MembersConcat, IncreasingConcat

\* A sequence that is cut in two.
LEMMA Cut ==
  ASSUME NEW s \in Seq(Nat), NEW n \in 0 .. Len(s)
  PROVE  /\ SubSeq(s, 1, n) \in Seq(Nat) /\ SubSeq(s, n + 1, Len(s)) \in Seq(Nat)
         /\ Len(SubSeq(s, 1, n)) = n /\ Len(SubSeq(s, n + 1, Len(s))) = Len(s) - n
         /\ ToSet(s) = ToSet(SubSeq(s, 1, n)) \cup ToSet(SubSeq(s, n + 1, Len(s)))
         /\ Increasing(s)
              => /\ Increasing(SubSeq(s, 1, n)) /\ Increasing(SubSeq(s, n + 1, Len(s)))
                 /\ \A x \in ToSet(SubSeq(s, 1, n)), y \in ToSet(SubSeq(s, n + 1, Len(s))) : x < y
<1>1. /\ Len(s) \in Nat /\ \A i \in 1 .. Len(s) : s[i] \in Nat
  BY LenProperties, ElementOfSeq
<1>2. /\ SubSeq(s, 1, n) \in Seq(Nat) /\ Len(SubSeq(s, 1, n)) = n
  BY <1>1, SubSeqProperties
<1>3. /\ SubSeq(s, n + 1, Len(s)) \in Seq(Nat) /\ Len(SubSeq(s, n + 1, Len(s))) = Len(s) - n
  BY <1>1, SubSeqProperties
<1>4. SubSeq(s, 1, n) \o SubSeq(s, n + 1, Len(s)) = s
  <2>1. SubSeq(s, 1, n) \o SubSeq(s, n + 1, Len(s)) = SubSeq(s, 1, Len(s))
    <3>1. 1 \in 1 .. Len(s) + 1 /\ n \in 1 - 1 .. Len(s) /\ Len(s) \in n .. Len(s)
      BY <1>1
    <3>2. QED
      BY <3>1, ConcatAdjacentSubSeq
  <2>2. QED
    BY <2>1, SubSeqFull
<1>5. QED
  <2> DEFINE a == SubSeq(s, 1, n)
             b == SubSeq(s, n + 1, Len(s))
  <2> HIDE DEF a, b
  <2>1. /\ a \in Seq(Nat) /\ b \in Seq(Nat) /\ a \o b = s /\ Len(a) = n /\ Len(b) = Len(s) - n
    BY <1>2, <1>3, <1>4 DEF a, b
  <2>2. /\ ToSet(a \o b) = ToSet(a) \cup ToSet(b)
        /\ Increasing(a \o b)
             => /\ Increasing(a) /\ Increasing(b)
                /\ \A x \in ToSet(a), y \in ToSet(b) : x < y
    BY <2>1, Join
  <2>3. QED
    BY <2>1, <2>2 DEF a, b

\* The empty sequence, and one character.
LEMMA Single ==
  /\ << >> \in Seq(Nat) /\ ToSet(<< >>) = {} /\ Increasing(<< >>)
  /\ \A x \in Nat : <<x>> \in Seq(Nat) /\ ToSet(<<x>>) = {x} /\ Increasing(<<x>>)
BY DEF ToSet, Increasing

\* A sequence with one more member is increasing if that is above the others.
LEMMA Added ==
  ASSUME NEW s \in Seq(Nat), NEW x \in Nat
  PROVE  /\ Append(s, x) \in Seq(Nat) /\ Len(Append(s, x)) = Len(s) + 1
         /\ ToSet(Append(s, x)) = ToSet(s) \cup {x}
         /\ Increasing(Append(s, x)) <=> Increasing(s) /\ \A y \in ToSet(s) : y < x
<1> DEFINE t == <<x>>
<1> HIDE DEF t
<1>1. t \in Seq(Nat) /\ ToSet(t) = {x} /\ Increasing(t)
  BY Single DEF t
<1>2. Append(s, x) = s \o t
  BY AppendIsConcat DEF t
<1>3. Increasing(s \o t)
        <=> Increasing(s) /\ Increasing(t) /\ \A y \in ToSet(s), z \in ToSet(t) : y < z
  BY <1>1, IncreasingConcat
<1>4. ToSet(s \o t) = ToSet(s) \cup ToSet(t) /\ s \o t \in Seq(Nat)
  BY <1>1, MembersConcat, ConcatProperties
<1>5. Len(Append(s, x)) = Len(s) + 1
  BY AppendProperties
<1>6. QED
  BY <1>1, <1>2, <1>3, <1>4, <1>5

-----------------------------------------------------------------------------
(* The four parts of a file.                                                *)

\* Each part is in order, and before the next ones.
Ordered(w, o, r, n) ==
  /\ Increasing(w) /\ Increasing(o) /\ Increasing(r) /\ Increasing(n)
  /\ \A x \in ToSet(w), y \in ToSet(o) \cup ToSet(r) \cup ToSet(n) : x < y
  /\ \A x \in ToSet(o), y \in ToSet(r) \cup ToSet(n) : x < y
  /\ \A x \in ToSet(r), y \in ToSet(n) : x < y

\* The parts that are joined, and what they hold.
LEMMA StreamOf ==
  ASSUME NEW w \in Seq(Nat), NEW o \in Seq(Nat), NEW r \in Seq(Nat), NEW n \in Seq(Nat)
  PROVE  /\ ToSet(w \o o \o r \o n) = ToSet(w) \cup ToSet(o) \cup ToSet(r) \cup ToSet(n)
         /\ Increasing(w \o o \o r \o n) <=> Ordered(w, o, r, n)
<1> DEFINE a == w \o o
           b == a \o r
<1>1. /\ a \in Seq(Nat) /\ ToSet(a) = ToSet(w) \cup ToSet(o)
      /\ Increasing(a) <=> /\ Increasing(w) /\ Increasing(o)
                           /\ \A x \in ToSet(w), y \in ToSet(o) : x < y
  BY Join
<1> HIDE DEF a
<1>2. /\ b \in Seq(Nat) /\ ToSet(b) = ToSet(a) \cup ToSet(r)
      /\ Increasing(b) <=> /\ Increasing(a) /\ Increasing(r)
                           /\ \A x \in ToSet(a), y \in ToSet(r) : x < y
  BY <1>1, Join
<1> HIDE DEF b
<1>3. /\ ToSet(b \o n) = ToSet(b) \cup ToSet(n)
      /\ Increasing(b \o n) <=> /\ Increasing(b) /\ Increasing(n)
                                /\ \A x \in ToSet(b), y \in ToSet(n) : x < y
  BY <1>2, Join
<1>4. ToSet(b \o n) = ToSet(w) \cup ToSet(o) \cup ToSet(r) \cup ToSet(n)
  BY <1>1, <1>2, <1>3
<1>5. Increasing(b \o n) <=> Ordered(w, o, r, n)
  BY <1>1, <1>2, <1>3 DEF Ordered
<1>6. QED
  BY <1>4, <1>5 DEF a, b

-----------------------------------------------------------------------------
(* The flags.                                                               *)

\* What the code does to the flags: nothing.
CodeStep == At("run") /\ Same(flags) /\ pc' \in {"run", "eval"}

FlagsInv == FlagsOK /\ UnwindingInv /\ OwedInv /\ FlagsAgree

\* The types of the flags, one by one.
FlagTypesOK ==
  /\ interruptedFlag \in BOOLEAN /\ exceptionFlag \in BOOLEAN
  /\ interruptPending \in BOOLEAN /\ interruptShield \in BOOLEAN
  /\ pc \in {"eval", "run", "test", "clear", "load", "store", "error", "wipe", "wiped",
             "enter", "unshield", "restore"}
  /\ loaded \in BOOLEAN /\ unwinding \in BOOLEAN /\ owed \in BOOLEAN /\ straddled \in BOOLEAN
  /\ levels \in 0 .. MaxLevels /\ signals \in 0 .. MaxSignals

\* They are what FlagsOK says.
LEMMA FlagTypes ==
  FlagsOK <=> FlagTypesOK
<1>1. flags \in [1 .. 4 -> BOOLEAN]
        <=> /\ interruptedFlag \in BOOLEAN /\ exceptionFlag \in BOOLEAN
            /\ interruptPending \in BOOLEAN /\ interruptShield \in BOOLEAN
  <2>1. ASSUME flags \in [1 .. 4 -> BOOLEAN]
        PROVE  /\ interruptedFlag \in BOOLEAN /\ exceptionFlag \in BOOLEAN
               /\ interruptPending \in BOOLEAN /\ interruptShield \in BOOLEAN
    <3>1. flags[1] \in BOOLEAN /\ flags[2] \in BOOLEAN /\ flags[3] \in BOOLEAN /\ flags[4] \in BOOLEAN
      BY <2>1
    <3>2. QED
      BY <3>1 DEF flags
  <2>2. ASSUME interruptedFlag \in BOOLEAN, exceptionFlag \in BOOLEAN,
               interruptPending \in BOOLEAN, interruptShield \in BOOLEAN
        PROVE  flags \in [1 .. 4 -> BOOLEAN]
    BY <2>2 DEF flags
  <2>3. QED
    BY <2>1, <2>2
<1>2. QED
  BY <1>1 DEF FlagsOK, FlagTypesOK

\* The same after a step.
LEMMA FlagTypesNext ==
  FlagsOK' <=> FlagTypesOK'
BY FlagTypes, PTL

\* The program starts with no flag up.
LEMMA FlagsInit ==
  InterruptInit => FlagsInv
<1> SUFFICES ASSUME InterruptInit PROVE FlagsInv
  OBVIOUS
<1>1. /\ interruptedFlag \in BOOLEAN /\ exceptionFlag \in BOOLEAN
      /\ interruptPending \in BOOLEAN /\ interruptShield \in BOOLEAN
      /\ loaded \in BOOLEAN /\ unwinding \in BOOLEAN /\ owed \in BOOLEAN /\ straddled \in BOOLEAN
  BY DEF InterruptInit
<1>2. levels \in 0 .. MaxLevels /\ signals \in 0 .. MaxSignals /\ pc = "eval"
  BY InterruptAssumption DEF InterruptInit
<1>3. FlagsOK
  BY <1>1, <1>2, FlagTypes DEF FlagTypesOK
<1>4. UnwindingInv /\ OwedInv /\ FlagsAgree
  BY DEF InterruptInit, UnwindingInv, OwedInv, OnlyOwed, FlagsAgree
<1>5. QED
  BY <1>3, <1>4 DEF FlagsInv

\* A step of the program: a signal, the evaluator, the ends of a shield, or code.
FlagsStep ==
  \/ Interrupt \/ Evaluator \/ EnterShield \/ LeaveShield \/ CodeStep
  \/ UNCHANGED interruptVars

\* The flags keep their invariant.
LEMMA FlagsKept ==
  ASSUME FlagsInv, FlagsStep
  PROVE  FlagsInv'
<1> DEFINE Kept == FlagTypesOK' /\ UnwindingInv' /\ OwedInv' /\ FlagsAgree'
<1>1. FlagTypesOK /\ UnwindingInv /\ OwedInv /\ FlagsAgree
  BY FlagTypes DEF FlagsInv
<1> SUFFICES Kept
  BY FlagTypesNext DEF FlagsInv
<1> USE <1>1, InterruptAssumption
    DEF FlagTypesOK, UnwindingInv, OwedInv, OnlyOwed, FlagsAgree, flags, At, Goto, Same
<1>2. CASE Interrupt
  <2>1. /\ UNCHANGED <<interruptShield, pc, loaded, levels, unwinding>> /\ owed' = TRUE
        /\ signals' \in 0 .. MaxSignals
    BY <1>2 DEF Interrupt
  <2>2. /\ straddled' \in BOOLEAN /\ (straddled => straddled') /\ (Straddling => straddled')
        /\ ~interruptedFlag
    BY <1>2 DEF Interrupt, Straddling
  <2>3. CASE interruptShield
    <3>1. interruptPending' = TRUE /\ UNCHANGED <<interruptedFlag, exceptionFlag>>
      BY <1>2, <2>3 DEF Interrupt, Signal
    <3>2. QED
      BY <2>1, <2>2, <3>1
  <2>4. CASE ~interruptShield
    <3>1. interruptedFlag' = TRUE /\ exceptionFlag' = TRUE /\ UNCHANGED interruptPending
      BY <1>2, <2>4 DEF Interrupt, Signal
    <3>2. QED
      BY <2>1, <2>2, <3>1 DEF Straddling
  <2>5. QED
    BY <2>3, <2>4
<1>3. CASE Eval
  BY <1>3 DEF Eval
<1>4. CASE Raise
  BY <1>4 DEF Raise
<1>5. CASE ClearInterruptFlag
  BY <1>5 DEF ClearInterruptFlag
<1>6. CASE Restore
  BY <1>6 DEF Restore
<1>7. CASE LoadFlag
  BY <1>7 DEF LoadFlag
<1>8. CASE StoreFlag
  BY <1>8 DEF StoreFlag
<1>9. CASE HandleError
  BY <1>9 DEF HandleError
<1>10. CASE Wipe
  BY <1>10 DEF Wipe
<1>11. CASE Wiped
  <2>1. /\ UNCHANGED <<interruptedFlag, exceptionFlag, interruptShield, loaded, signals>>
        /\ interruptPending' = FALSE /\ straddled' = FALSE /\ owed' = exceptionFlag
        /\ levels' = levels - 1 /\ levels > 0 /\ pc = "wiped"
    BY <1>11 DEF Wiped, ClearPending
  <2>2. levels' \in 0 .. MaxLevels
    BY <2>1
  <2>3. OwedInv'
    BY <2>1
  <2>4. CASE levels > 1
    <3>1. unwinding' = TRUE /\ pc' = "error"
      BY ONLY <1>11, <2>4 DEF Wiped, At, Goto
    <3>2. levels' > 0
      BY <2>1, <2>4
    <3>3. QED
      BY <2>1, <2>2, <2>3, <3>1, <3>2
  <2>5. CASE ~(levels > 1) /\ interruptShield
    <3>1. unwinding' = TRUE /\ pc' = "unshield"
      BY <1>11, <2>5 DEF Wiped
    <3>2. QED
      BY <2>1, <2>2, <2>3, <3>1
  <2>6. CASE ~(levels > 1) /\ ~interruptShield
    <3>1. unwinding' = FALSE /\ pc' = "eval"
      BY <1>11, <2>6 DEF Wiped
    <3>2. QED
      BY <2>1, <2>2, <2>3, <3>1
  <2>7. QED
    BY <2>4, <2>5, <2>6
<1>12. CASE BeginShield
  BY <1>12 DEF BeginShield
<1>13. CASE Unshield
  <2>1. /\ UNCHANGED <<interruptedFlag, exceptionFlag, interruptPending, loaded, unwinding, owed,
                       straddled, signals>>
        /\ interruptShield' = FALSE /\ pc = "unshield" /\ pc' = "restore"
    BY <1>13 DEF Unshield
  <2>2. levels' \in 0 .. MaxLevels /\ (unwinding => levels' > 0)
    BY <1>13 DEF Unshield
  <2>3. QED
    BY <2>1, <2>2
<1>14. CASE EnterShield
  BY <1>14 DEF EnterShield
<1>15. CASE LeaveShield
  BY <1>15 DEF LeaveShield
<1>16. CASE CodeStep
  BY <1>16 DEF CodeStep
<1>17. CASE UNCHANGED interruptVars
  BY <1>17 DEF interruptVars
<1>18. QED
  BY <1>2, <1>3, <1>4, <1>5, <1>6, <1>7, <1>8, <1>9, <1>10, <1>11, <1>12, <1>13, <1>14, <1>15, <1>16, <1>17 DEF FlagsStep, Evaluator

-----------------------------------------------------------------------------
(* The calls that an operation has still to make.                           *)

\* A call before others.
LEMMA Before ==
  ASSUME NEW A, NEW c \in A, NEW r \in Seq(A)
  PROVE  /\ <<c>> \o r \in Seq(A) /\ <<c>> \o r # << >>
         /\ Head(<<c>> \o r) = c /\ Tail(<<c>> \o r) = r
         /\ ToSet(<<c>> \o r) = {c} \cup ToSet(r)
<1> DEFINE f == <<c>>
<1>1. f \in Seq(A) /\ Len(f) = 1 /\ f[1] = c /\ ToSet(f) = {c}
  BY DEF ToSet
<1> HIDE DEF f
<1>2. /\ f \o r \in Seq(A) /\ Len(f \o r) = 1 + Len(r) /\ Len(r) \in Nat
      /\ \A i \in 1 .. 1 + Len(r) : (f \o r)[i] = IF i <= 1 THEN f[i] ELSE r[i - 1]
  <2>1. /\ f \o r \in Seq(A) /\ Len(f \o r) = Len(f) + Len(r) /\ Len(r) \in Nat
        /\ \A i \in 1 .. Len(f) + Len(r) : (f \o r)[i] = IF i <= Len(f) THEN f[i] ELSE r[i - Len(f)]
    BY <1>1, ConcatProperties, LenProperties
  <2>2. QED
    BY <1>1, <2>1
<1>3. f \o r # << >> /\ Head(f \o r) = c
  BY <1>1, <1>2
<1>4. Tail(f \o r) = r
  <2>1. /\ Tail(f \o r) \in Seq(A) /\ Len(Tail(f \o r)) = Len(r)
        /\ \A i \in 1 .. Len(r) : Tail(f \o r)[i] = (f \o r)[i + 1]
    BY <1>2, <1>3, HeadTailProperties
  <2>2. \A i \in 1 .. Len(r) : Tail(f \o r)[i] = r[i]
    BY <1>2, <2>1
  <2>3. QED
    BY <2>1, <2>2, SeqEqual
<1>5. ToSet(f \o r) = {c} \cup ToSet(r)
  BY <1>1, MembersConcat
<1>6. QED
  BY <1>2, <1>3, <1>4, <1>5 DEF f

\* The first call and the others.
LEMMA FirstOf ==
  ASSUME NEW A, NEW s \in Seq(A), s # << >>
  PROVE  /\ Head(s) \in A /\ Tail(s) \in Seq(A)
         /\ ToSet(s) = {Head(s)} \cup ToSet(Tail(s))
         /\ Len(s) > 1 <=> Tail(s) # << >>
         /\ Len(s) > 1 => s[2] = Head(Tail(s))
         /\ s = <<Head(s)>> \o Tail(s)
<1>1. /\ Head(s) \in A /\ Tail(s) \in Seq(A) /\ Len(Tail(s)) = Len(s) - 1
      /\ \A i \in 1 .. Len(Tail(s)) : Tail(s)[i] = s[i + 1]
  BY HeadTailProperties
<1>2. Len(s) \in Nat /\ Len(s) > 0 /\ s[1] = Head(s)
  BY LenProperties, EmptySeq
<1>3. Tail(s) # << >> <=> Len(s) > 1
  <2>1. Tail(s) \in Seq(A)
    BY <1>1
  <2>2. Tail(s) # << >> <=> Len(Tail(s)) # 0
    BY ONLY <2>1, EmptySeq, Zenon
  <2>3. Len(Tail(s)) = Len(s) - 1 /\ Len(s) \in Nat /\ Len(s) > 0
    BY <1>1, <1>2
  <2> DEFINE l == Len(s)
             m == Len(Tail(s))
  <2>4. m = l - 1 /\ l \in Nat /\ l > 0
    BY <2>3
  <2> HIDE DEF l, m
  <2>5. m # 0 <=> l > 1
    BY <2>4
  <2>6. QED
    BY <2>2, <2>5 DEF l, m
<1>4. Len(s) > 1 => s[2] = Head(Tail(s))
  BY <1>1, <1>2, <1>3
<1>5. DOMAIN s = 1 .. Len(s) /\ DOMAIN Tail(s) = 1 .. Len(s) - 1
  BY <1>1, LenProperties
<1>6. ASSUME NEW x \in ToSet(s) PROVE x \in {Head(s)} \cup ToSet(Tail(s))
  <2>1. PICK i \in 1 .. Len(s) : x = s[i]
    BY <1>5, <1>6 DEF ToSet
  <2>2. CASE i = 1
    BY <1>2, <2>1, <2>2
  <2>3. CASE i # 1
    <3>1. i - 1 \in 1 .. Len(s) - 1 /\ x = Tail(s)[i - 1]
      BY <1>1, <1>2, <2>1, <2>3
    <3>2. QED
      BY <1>5, <3>1 DEF ToSet
  <2>4. QED
    BY <2>2, <2>3
<1>7. ASSUME NEW x \in ToSet(Tail(s)) PROVE x \in ToSet(s)
  <2>1. PICK i \in 1 .. Len(s) - 1 : x = Tail(s)[i]
    BY <1>5, <1>7 DEF ToSet
  <2>2. i + 1 \in 1 .. Len(s) /\ x = s[i + 1]
    BY <1>1, <1>2, <2>1
  <2>3. QED
    BY <1>5, <2>2 DEF ToSet
<1>8. Head(s) \in ToSet(s)
  <2>1. 1 \in 1 .. Len(s) /\ Head(s) = s[1]
    BY <1>2
  <2>2. QED
    BY <1>5, <2>1 DEF ToSet
<1>9. s = <<Head(s)>> \o Tail(s)
  <2> DEFINE f == <<Head(s)>>
             t == Tail(s)
  <2>1. /\ f \in Seq(A) /\ Len(f) = 1 /\ f[1] = s[1]
        /\ t \in Seq(A) /\ Len(t) = Len(s) - 1 /\ \A i \in 1 .. Len(t) : t[i] = s[i + 1]
    BY <1>1, <1>2
  <2> HIDE DEF f, t
  <2>2. /\ f \o t \in Seq(A) /\ Len(f \o t) = Len(f) + Len(t)
        /\ \A i \in 1 .. Len(f) + Len(t) :
             (f \o t)[i] = IF i <= Len(f) THEN f[i] ELSE t[i - Len(f)]
    <3>1. f \in Seq(A) /\ t \in Seq(A)
      BY <2>1
    <3>2. QED
      BY ONLY <3>1, ConcatProperties
  <2>3. Len(f \o t) = Len(s)
    BY <1>2, <2>1, <2>2
  <2>4. ASSUME NEW i \in 1 .. Len(s) PROVE (f \o t)[i] = s[i]
    <3>1. CASE i = 1
      BY <1>2, <2>1, <2>2, <3>1
    <3>2. CASE i # 1
      <4>1. i - 1 \in 1 .. Len(t) /\ t[i - 1] = s[i]
        BY <1>2, <2>1, <3>2
      <4>2. (f \o t)[i] = t[i - 1]
        BY <1>2, <2>1, <2>2, <3>2
      <4>3. QED
        BY <4>1, <4>2
    <3>3. QED
      BY <3>1, <3>2
  <2>5. f \o t = s
    BY <2>2, <2>3, <2>4, SeqEqual
  <2>6. QED
    BY <2>5 DEF f, t
<1>10. QED
  BY <1>1, <1>3, <1>4, <1>6, <1>7, <1>8, <1>9

\* No call, and one.
LEMMA NoneOrOne ==
  ASSUME NEW A, NEW c \in A
  PROVE  /\ << >> \in Seq(A) /\ ToSet(<< >>) = {}
         /\ <<c>> \in Seq(A) /\ <<c>> # << >> /\ Head(<<c>>) = c /\ Tail(<<c>>) = << >>
         /\ ToSet(<<c>>) = {c}
<1>1. /\ << >> \in Seq(A) /\ ToSet(<< >>) = {}
      /\ <<c>> \in Seq(A) /\ <<c>> # << >> /\ Head(<<c>>) = c /\ Tail(<<c>>) = << >>
  BY DEF ToSet
<1>2. ToSet(<<c>>) = {c}
  BY DEF ToSet
<1>3. QED
  BY <1>1, <1>2

\* Two calls.
LEMMA Two ==
  ASSUME NEW A, NEW c \in A, NEW d \in A
  PROVE  <<c, d>> = Append(<<c>>, d)
OBVIOUS

\* Two calls are one and another.
LEMMA TwoCalls ==
  ASSUME NEW A, NEW c \in A, NEW d \in A
  PROVE  <<c, d>> = <<c>> \o <<d>>
<1> DEFINE f == <<c>>
           g == <<d>>
<1>1. f \in Seq(A) /\ g \in Seq(A)
  OBVIOUS
<1>2. Append(f, d) = <<c, d>>
  <2>1. Append(<<c>>, d) = <<c, d>>
    BY Two
  <2>2. QED
    BY <2>1
<1>3. Append(f, d) = f \o g
  BY <1>1, AppendIsConcat
<1> HIDE DEF f, g
<1>4. QED
  BY <1>2, <1>3 DEF f, g

\* What comes after the character and after the nets.
LEMMA Endings ==
  /\ Ending \in Seq(CallNames) /\ AfterNets \in Seq(CallNames)
  /\ {"put", "store"} \cap ToSet(Ending) = {}
  /\ "close" \in ToSet(Ending) <=> call.op = "close"
  /\ "close" \in ToSet(AfterNets) <=> call.op = "close"
  /\ call.op \in {"endl", "flush", "close"} =>
       /\ Ending # << >> /\ Tail(Ending) \in Seq(CallNames)
       /\ {"put", "store"} \cap ToSet(Tail(Ending)) = {}
       /\ Ending # <<"bol">> => Head(Ending) = "simpleflush"
       /\ "close" \in ToSet(Tail(Ending)) <=> call.op = "close"
       /\ Tail(Ending) = IF call.op = "close" THEN <<"close">> ELSE << >>
  /\ call.op = "endl" => AfterNets = <<"put">> \o Ending
  /\ call.op # "endl" => AfterNets = Ending
<1>1. \A c \in CallNames :
        /\ << >> \in Seq(CallNames) /\ ToSet(<< >>) = {}
        /\ <<c>> \in Seq(CallNames) /\ <<c>> # << >> /\ Head(<<c>>) = c /\ Tail(<<c>>) = << >>
        /\ ToSet(<<c>>) = {c}
  BY NoneOrOne
<1>2. {"put", "store", "simpleflush", "bol", "close"} \subseteq CallNames
  BY DEF CallNames
<1>3. CASE call.op = "endl"
  <2>1. PICK c \in CallNames : c \in {"simpleflush", "bol"} /\ Ending = <<c>>
    BY <1>2, <1>3 DEF Ending
  <2>2. AfterNets = <<"put">> \o Ending /\ Ending \in Seq(CallNames)
    BY <1>1, <1>3, <2>1 DEF AfterNets
  <2>3. AfterNets \in Seq(CallNames) /\ ToSet(AfterNets) = {"put"} \cup ToSet(Ending)
    <3>1. PICK p \in CallNames : p = "put"
      BY <1>2
    <3>2. <<p>> \o Ending \in Seq(CallNames) /\ ToSet(<<p>> \o Ending) = {p} \cup ToSet(Ending)
      BY <2>2, Before
    <3>3. QED
      BY <2>2, <3>1, <3>2
  <2>4. ToSet(Ending) = {c} /\ Tail(Ending) = << >> /\ ToSet(Tail(Ending)) = {} /\ Head(Ending) = c
        /\ Ending # << >> /\ Tail(Ending) \in Seq(CallNames)
       /\ {"put", "store"} \cap ToSet(Tail(Ending)) = {}
    BY <1>1, <2>1
  <2>5. Ending # <<"bol">> => c = "simpleflush"
    BY <2>1
  <2>6. QED
    BY <1>3, <2>1, <2>2, <2>3, <2>4, <2>5
<1>4. CASE call.op = "flush"
  <2>1. PICK c \in CallNames : c = "simpleflush" /\ Ending = <<c>> /\ AfterNets = Ending
    BY <1>2, <1>4 DEF Ending, AfterNets
  <2>2. /\ ToSet(Ending) = {c} /\ Tail(Ending) = << >> /\ ToSet(Tail(Ending)) = {}
        /\ Head(Ending) = c /\ Ending # << >> /\ {Ending, Tail(Ending)} \subseteq Seq(CallNames)
    BY <1>1, <2>1
  <2>3. QED
    BY <1>4, <2>1, <2>2
<1>5. CASE call.op = "close"
  <2>1. PICK c \in CallNames, d \in CallNames :
          c = "simpleflush" /\ d = "close" /\ Ending = <<c, d>> /\ AfterNets = Ending
    BY <1>2, <1>5 DEF Ending, AfterNets
  <2>2. /\ <<c, d>> \in Seq(CallNames) /\ <<c, d>> # << >> /\ Head(<<c, d>>) = c
        /\ Tail(<<c, d>>) = <<d>> /\ ToSet(<<c, d>>) = {c, d}
    <3>1. c \in CallNames /\ d \in CallNames
      BY <2>1
    <3>2. <<c, d>> \in Seq(CallNames) /\ <<c, d>> # << >> /\ Head(<<c, d>>) = c
      BY ONLY <3>1
    <3>3. Tail(<<c, d>>) = <<d>>
      BY ONLY <3>1
    <3>4. ToSet(<<c, d>>) = {c, d}
      BY ONLY <3>1 DEF ToSet
    <3>5. QED
      BY <3>2, <3>3, <3>4
  <2>3. <<d>> \in Seq(CallNames) /\ ToSet(<<d>>) = {d}
    BY <1>1
  <2>4. /\ ToSet(Ending) = {c, d} /\ Tail(Ending) = <<d>> /\ ToSet(Tail(Ending)) = {d}
        /\ Head(Ending) = c /\ Ending # << >> /\ {Ending, Tail(Ending)} \subseteq Seq(CallNames)
    BY <2>1, <2>2, <2>3
  <2>5. QED
    BY <1>5, <2>1, <2>4
<1>6. CASE call.op \notin {"endl", "flush", "close"}
  <2>1. Ending = << >> /\ AfterNets = Ending
    BY <1>6 DEF Ending, AfterNets
  <2>2. ToSet(Ending) = {} /\ Ending \in Seq(CallNames)
    <3>1. PICK p \in CallNames : p = "put"
      BY <1>2
    <3>2. ToSet(<< >>) = {} /\ << >> \in Seq(CallNames)
      BY <1>1
    <3>3. QED
      BY <2>1, <3>2
  <2>3. QED
    BY <1>6, <2>1, <2>2
<1>7. QED
  BY <1>3, <1>4, <1>5, <1>6

-----------------------------------------------------------------------------
(* The file: its parts, and how operations go on.                           *)

Kept == ToSet(written) \cup ToSet(outbuffer) \cup ToSet(rest) \cup ToSet(nets)

Types ==
  /\ written \in Seq(Nat) /\ outbuffer \in Seq(Nat) /\ rest \in Seq(Nat) /\ nets \in Seq(Nat)
  /\ todo \in Seq(CallNames)
  /\ call \in [op : OpNames, ok : BOOLEAN] /\ hadNet \in BOOLEAN
  /\ given \in Nat

\* FileInv, in terms of the parts.
Parts ==
  /\ Types
  /\ Len(outbuffer) <= BufferSize /\ outbol \in 0 .. Len(outbuffer)
  /\ Kept \subseteq 1 .. given /\ Awaited \subseteq (1 .. given) \ Kept
  /\ ~hadNet => nets = << >>
  /\ Ordered(written, outbuffer, rest, nets)

LEMMA FileParts ==
  /\ FileInv <=> Parts
  /\ Types => ToSet(Stream) = Kept
<1>1. Types => /\ ToSet(Stream) = Kept
               /\ Increasing(Stream) <=> Ordered(written, outbuffer, rest, nets)
  BY StreamOf DEF Types, Stream, Kept
<1>2. InOrder <=> Increasing(Stream)
  BY DEF InOrder, Increasing
<1>3. QED
  BY <1>1, <1>2 DEF FileInv, Parts, Types

\* The same after a step.
LEMMA FilePartsNext ==
  /\ FileInv' <=> Parts'
  /\ (Types => ToSet(Stream) = Kept)'
BY FileParts, PTL

\* An operation whose calls are s waits for its character.
Awaits(s) == {"put", "store"} \cap ToSet(s) # {}

LEMMA AwaitsMore ==
  ASSUME NEW s \in Seq(CallNames), s # << >>
  PROVE  Awaits(s) <=> Head(s) \in {"put", "store"} \/ Awaits(Tail(s))
<1>1. ToSet(s) = {Head(s)} \cup ToSet(Tail(s))
  BY FirstOf
<1>2. QED
  BY <1>1 DEF Awaits

\* A call before what comes after the character or the nets.
LEMMA BeforeEnding ==
  ASSUME NEW c \in CallNames
  PROVE  /\ <<c>> \o Ending \in Seq(CallNames) /\ <<c>> \o Ending # << >>
         /\ Head(<<c>> \o Ending) = c /\ Tail(<<c>> \o Ending) = Ending
         /\ ToSet(<<c>> \o Ending) = {c} \cup ToSet(Ending)
<1>1. Ending \in Seq(CallNames)
  BY Endings
<1>2. QED
  BY <1>1, Before

\* Two calls before what comes after the character.
LEMMA TwoBeforeEnding ==
  ASSUME NEW c \in CallNames, NEW d \in CallNames
  PROVE  <<c, d>> \o Ending = <<c>> \o (<<d>> \o Ending)
<1> DEFINE f == <<c>>
           g == <<d>>
           r == Ending
<1>1. f \in Seq(CallNames) /\ g \in Seq(CallNames) /\ r \in Seq(CallNames)
  BY Endings
<1>2. Append(f, d) = <<c, d>>
  <2>1. Append(<<c>>, d) = <<c, d>>
    BY Two
  <2>2. QED
    BY <2>1
<1>3. Append(f, d) = f \o g
  BY <1>1, AppendIsConcat
<1> HIDE DEF f, g, r
<1>4. (f \o g) \o r = f \o (g \o r)
  BY <1>1, ConcatAssociative
<1>5. QED
  BY <1>2, <1>3, <1>4 DEF f, g, r

LEMMA BeforeAfterNets ==
  ASSUME NEW c \in CallNames
  PROVE  /\ <<c>> \o AfterNets \in Seq(CallNames) /\ <<c>> \o AfterNets # << >>
         /\ Head(<<c>> \o AfterNets) = c /\ Tail(<<c>> \o AfterNets) = AfterNets
         /\ ToSet(<<c>> \o AfterNets) = {c} \cup ToSet(AfterNets)
<1>1. AfterNets \in Seq(CallNames)
  BY Endings
<1>2. QED
  BY <1>1, Before

\* The operation as it is: only what has been done of it is another.
Operation == call' = call /\ outisatty' = outisatty

LEMMA EndingsStay ==
  ASSUME call'.op = call.op, outisatty' = outisatty
  PROVE  Ending' = Ending /\ AfterNets' = AfterNets
BY DEF Ending, AfterNets

\* After the character an operation flushes or begins a line, or it is over.
LEMMA GoToEnding ==
  ASSUME call.op \in {"char", "endl"}, Operation, Go(Ending), rest' = << >>
  PROVE  CallInv' /\ todo' \in Seq(CallNames) /\ ~Awaits(todo)'
<1>1. Ending' = Ending /\ todo' = Ending /\ call' = call
  BY EndingsStay DEF Go, Operation
<1>2. todo' \in Seq(CallNames) /\ ~Awaits(todo)'
  BY <1>1, Endings DEF Awaits
<1>3. CASE call.op = "char"
  <2>1. todo' = << >> /\ rest' = << >> /\ call'.op = "char"
    BY <1>1, <1>3 DEF Ending
  <2>2. QED
    BY <1>2, <2>1 DEF CallInv, FlushedMeansWritten
<1>4. CASE call.op = "endl"
  <2>1. /\ todo' # << >> /\ Tail(todo)' = << >> /\ pc' = "run" /\ call'.op = "endl"
        /\ Tail(todo)' = Tail(Ending)'
    BY <1>1, <1>4, Endings DEF Go, Goto
  <2>2. \/ Head(todo)' = "bol"
        \/ Head(todo)' = "simpleflush" /\ Ending' # <<"bol">>
    BY <1>1, <1>4, Endings DEF Ending
  <2>3. QED
    BY <1>2, <2>1, <2>2 DEF CallInv, OnEnd
<1>5. QED
  BY <1>3, <1>4

\* After the nets it puts its character, or flushes.
LEMMA GoToAfterNets ==
  ASSUME call.op \in {"endl", "flush", "close"}, Operation, Go(AfterNets), rest' = << >>, ~hadNet'
  PROVE  /\ CallInv' /\ todo' \in Seq(CallNames)
         /\ Awaits(todo)' <=> call.op = "endl"
<1>1. Ending' = Ending /\ todo' = AfterNets /\ call' = call
  BY EndingsStay DEF Go, Operation
<1>2. todo' \in Seq(CallNames)
  BY <1>1, Endings
<1>3. CASE call.op = "endl"
  <2>1. PICK p \in CallNames : p = "put"
    BY DEF CallNames
  <2>2. /\ <<p>> \o Ending # << >> /\ Head(<<p>> \o Ending) = p /\ Tail(<<p>> \o Ending) = Ending
        /\ ToSet(<<p>> \o Ending) = {p} \cup ToSet(Ending)
    BY <2>1, BeforeEnding
  <2>3. todo' = <<p>> \o Ending
    BY <1>1, <1>3, <2>1, Endings
  <2>4. todo' # << >> /\ pc' = "run" /\ Head(todo)' = "put" /\ Tail(todo)' = Ending'
    BY <1>1, <2>1, <2>2, <2>3 DEF Go, Goto
  <2>5. Awaits(todo)'
    BY <2>1, <2>2, <2>3 DEF Awaits
  <2>6. QED
    BY <1>1, <1>2, <1>3, <2>4, <2>5 DEF CallInv, OnPut
<1>4. CASE call.op \in {"flush", "close"}
  <2>1. todo' = Ending /\ todo' # << >> /\ Head(todo)' = "simpleflush" /\ Tail(todo)' = Tail(Ending)'
    BY <1>1, <1>4, Endings DEF Ending
  <2>2. Ending' # <<"bol">>
    <3>1. Head(Ending) = "simpleflush"
      BY <1>1, <2>1
    <3>2. Head(<<"bol">>) = "bol"
      OBVIOUS
    <3>3. QED
      BY <1>1, <3>1, <3>2
  <2>3. ~Awaits(todo)' /\ pc' = "run"
    BY <2>1, Endings DEF Awaits, Go, Goto
  <2>4. QED
    BY <1>1, <1>2, <1>4, <2>1, <2>2, <2>3 DEF CallInv, OnEnd
<1>5. QED
  BY <1>3, <1>4

\* What flushes the buffer, and why.
Flushes == todo # << >> /\ Head(todo) \in {"simpleflush", "while", "write"} /\ (OnStore \/ OnOut \/ OnEnd)

\* A flush goes on.
LEMMA StillFlushing ==
  ASSUME Types, Flushes, Operation, NEW c \in {"simpleflush", "while", "write"},
         Go(<<c>> \o Tail(todo)), rest' = rest, hadNet' = hadNet, c # "simpleflush" => outbol' = 0
  PROVE  CallInv' /\ todo' \in Seq(CallNames) /\ (Awaits(todo)' <=> Awaits(todo))
<1>1. Tail(todo) \in Seq(CallNames) /\ (Awaits(todo) <=> Awaits(Tail(todo)))
  BY FirstOf, AwaitsMore DEF Types, Flushes
<1>2. c \in CallNames
  BY DEF CallNames
<1>3. /\ todo' \in Seq(CallNames) /\ todo' # << >> /\ Head(todo') = c /\ Tail(todo') = Tail(todo)
      /\ pc' = "run"
  BY <1>1, <1>2, Before DEF Go, Goto
<1>4. Awaits(todo)' <=> Awaits(Tail(todo))
  BY <1>3, AwaitsMore DEF Awaits
<1>5. Ending' = Ending /\ AfterNets' = AfterNets /\ call' = call
  BY EndingsStay DEF Operation
<1>6. (OnStore \/ OnOut \/ OnEnd)'
  BY <1>3, <1>5 DEF Flushes, OnStore, OnOut, OnEnd
<1>7. QED
  BY <1>1, <1>3, <1>4, <1>6 DEF CallInv

\* A flush is over, with an empty buffer.
LEMMA FlushReturns ==
  ASSUME Types, Flushes, Operation, ~hadNet => nets = << >>,
         Go(Tail(todo)), rest' = rest, hadNet' = hadNet, nets' = nets, outbuffer' = << >>
  PROVE  CallInv' /\ todo' \in Seq(CallNames) /\ (Awaits(todo)' <=> Awaits(todo))
<1>1. todo' = Tail(todo) /\ Tail(todo) \in Seq(CallNames) /\ (Awaits(todo)' <=> Awaits(todo))
  BY FirstOf, AwaitsMore DEF Types, Flushes, Go, Awaits
<1>2. Ending' = Ending /\ AfterNets' = AfterNets /\ call' = call
  BY EndingsStay DEF Operation
<1>3. CASE OnStore
  <2>1. PICK c \in CallNames : c = "store"
    BY DEF CallNames
  <2>2. todo' = <<c>> \o Ending
    BY <1>1, <1>3, <2>1 DEF OnStore
  <2>3. todo' # << >> /\ Head(todo') = "store" /\ Tail(todo') = Ending
    BY <2>1, <2>2, BeforeEnding, BeforeAfterNets
  <2>4. pc' = "run" /\ Len(outbuffer') < BufferSize
    BY <1>1, <2>3, FileAssumption DEF Go, Goto
  <2>5. OnPut' /\ ~hadNet'
    BY <1>2, <1>3, <2>3 DEF OnPut, OnStore
  <2>6. QED
    BY <1>1, <2>3, <2>4, <2>5 DEF CallInv
<1>4. CASE OnOut
  <2>1. PICK c \in CallNames : c = "simpleout"
    BY DEF CallNames
  <2>2. todo' = <<c>> \o AfterNets
    BY <1>1, <1>4, <2>1 DEF OnOut
  <2>3. todo' # << >> /\ Head(todo') = "simpleout" /\ Tail(todo') = AfterNets
    BY <2>1, <2>2, BeforeEnding, BeforeAfterNets
  <2>4. pc' = "run"
    BY <1>1, <2>3 DEF Go, Goto
  <2>5. OnNets' /\ ~hadNet'
    BY <1>2, <1>4, <2>3 DEF OnNets, OnOut
  <2>6. QED
    BY <1>1, <2>3, <2>4, <2>5 DEF CallInv
<1>5. CASE OnEnd
  <2>1. /\ todo' = IF call.op = "close" THEN <<"close">> ELSE << >>
        /\ rest' = << >> /\ (call.op # "endl" => ~hadNet' /\ nets' = << >>)
        /\ call.op \in {"endl", "flush", "close"} /\ call' = call
    BY <1>1, <1>2, <1>5, Endings DEF OnEnd
  <2>2. CASE call.op = "close"
    <3>1. todo' # << >> /\ Head(todo') = "close" /\ Tail(todo') = << >>
      BY <2>1, <2>2
    <3>2. pc' = "run"
      BY <1>1, <3>1 DEF Go, Goto
    <3>3. QED
      BY <1>1, <2>1, <2>2, <3>1, <3>2 DEF CallInv, OnClose
  <2>3. CASE call.op # "close"
    BY <1>1, <2>1, <2>3 DEF CallInv, FlushedMeansWritten
  <2>4. QED
    BY <2>2, <2>3
<1>6. QED
  BY <1>3, <1>4, <1>5 DEF Flushes

\* A flush comes back with ERROR.
LEMMA ErrorReturns ==
  ASSUME Types, Flushes, ReturnError, outisatty' = outisatty
  PROVE  /\ CallInv' /\ todo' \in Seq(CallNames) /\ ~Awaits(todo)'
         /\ call' \in [op : OpNames, ok : BOOLEAN] /\ (rest' = rest \/ rest' = << >>)
<1>1. /\ Tail(todo) \in Seq(CallNames) /\ ToSet(todo) = {Head(todo)} \cup ToSet(Tail(todo))
      /\ Len(todo) > 1 <=> Tail(todo) # << >>
      /\ Len(todo) > 1 => todo[2] = Head(Tail(todo))
      /\ Head(todo) # "close" /\ call \in [op : OpNames, ok : BOOLEAN]
  BY FirstOf DEF Types, Flushes
<1>2. CASE OnStore
  <2>1. PICK c \in CallNames : c = "store"
    BY DEF CallNames
  <2>2. Tail(todo) = <<c>> \o Ending
    BY <1>2, <2>1 DEF OnStore
  <2>3. Tail(todo) # << >> /\ Head(Tail(todo)) = "store" /\ Tail(Tail(todo)) = Ending
    BY <2>1, <2>2, BeforeEnding, BeforeAfterNets
  <2>4. Go(Ending) /\ UNCHANGED <<call, rest>>
    BY <1>1, <2>3 DEF ReturnError
  <2>5. QED
    BY <1>1, <1>2, <2>4, GoToEnding DEF OnStore, Operation
<1>3. CASE OnOut \/ OnEnd
  <2>1. /\ ~(Len(todo) > 1 /\ todo[2] = "store")
        /\ "close" \in ToSet(todo) <=> call.op = "close"
    <3>1. CASE OnOut
      <4>1. PICK c \in CallNames : c = "simpleout"
        BY DEF CallNames
      <4>2. Tail(todo) = <<c>> \o AfterNets
        BY <3>1, <4>1 DEF OnOut
      <4>3. /\ Tail(todo) # << >> /\ Head(Tail(todo)) = "simpleout"
            /\ ToSet(Tail(todo)) = {"simpleout"} \cup ToSet(AfterNets)
        BY <4>1, <4>2, BeforeAfterNets
      <4>4. QED
        BY <1>1, <4>3, Endings
    <3>2. CASE OnEnd
      <4>1. /\ Tail(todo) = IF call.op = "close" THEN <<"close">> ELSE << >>
            /\ "close" \in ToSet(Tail(todo)) <=> call.op = "close"
        BY <3>2, Endings DEF OnEnd
      <4>2. Tail(todo) # << >> => Head(Tail(todo)) = "close"
        <5>1. Head(<<"close">>) = "close"
          OBVIOUS
        <5>2. QED
          BY <4>1, <5>1
      <4>3. QED
        BY <1>1, <4>1, <4>2
    <3>3. QED
      BY <1>3, <3>1, <3>2
  <2>2. /\ Go(IF call.op = "close" THEN <<"leave">> ELSE << >>)
        /\ call' = [call EXCEPT !.ok = FALSE] /\ rest' = << >>
    BY <2>1 DEF ReturnError
  <2>3. call' \in [op : OpNames, ok : BOOLEAN] /\ ~call'.ok /\ call'.op = call.op
    BY <1>1, <2>2
  <2>4. CASE call.op = "close"
    <3>1. PICK c \in CallNames : c = "leave"
      BY DEF CallNames
    <3>2. todo' = <<c>> /\ pc' = "run"
      BY <2>2, <2>4, <3>1 DEF Go, Goto
    <3>3. /\ todo' \in Seq(CallNames) /\ todo' # << >> /\ Head(todo') = "leave" /\ Tail(todo') = << >>
          /\ ToSet(todo') = {"leave"}
      BY <3>1, <3>2, NoneOrOne
    <3>4. QED
      BY <2>2, <2>3, <2>4, <3>2, <3>3 DEF CallInv, OnClose, Awaits
  <2>5. CASE call.op # "close"
    <3>1. todo' = << >> /\ ToSet(todo') = {} /\ todo' \in Seq(CallNames)
      BY <2>2, <2>5 DEF Go, ToSet
    <3>2. QED
      BY <2>2, <2>3, <3>1 DEF CallInv, FlushedMeansWritten, Awaits
  <2>6. QED
    BY <2>4, <2>5
<1>4. QED
  BY <1>2, <1>3 DEF Flushes

-----------------------------------------------------------------------------
(* Each call keeps the file, and loses nothing without a reason.            *)

Losses == Missing' \subseteq Missing \/ error' \/ interruptedFlag

\* What is in the file or awaited stays so.
LEMMA NothingMissing ==
  ASSUME Types, Types', given' = given, Kept \cup Awaited \subseteq Kept' \cup Awaited'
  PROVE  Losses
<1>1. ToSet(Stream) = Kept /\ ToSet(Stream)' = Kept'
  BY FileParts, FilePartsNext
<1>2. QED
  BY <1>1 DEF Losses, Missing

\* A step that puts nothing new into the file.
LEMMA PartsKept ==
  ASSUME Parts, Types', given' = given, Kept' \cup Awaited' \subseteq Kept \cup Awaited,
         Kept' \cap Awaited' = {}, Len(outbuffer') <= BufferSize, outbol' \in 0 .. Len(outbuffer'),
         ~hadNet' => nets' = << >>, Ordered(written, outbuffer, rest, nets)'
  PROVE  Parts'
<1>1. Kept' \subseteq 1 .. given' /\ Awaited' \subseteq (1 .. given') \ Kept'
  BY DEF Parts
<1>2. QED
  BY <1>1 DEF Parts

LEMMA AwaitedIs ==
  /\ Awaited = IF Awaits(todo) THEN {given} ELSE {}
  /\ Awaited' = IF Awaits(todo)' THEN {given'} ELSE {}
BY DEF Awaited, Awaits

LEMMA SimpleFlushKeeps ==
  ASSUME Parts, CallInv, SimpleFlush
  PROVE  Parts' /\ CallInv' /\ Losses
<1>1. /\ Flushes /\ Types /\ (~hadNet => nets = << >>)
      /\ UNCHANGED <<written, outbuffer, nets, hadNet, call, rest, outisatty, given>> /\ outbol' = 0
  BY DEF SimpleFlush, Step, Executing, LineStartReset, Return, Parts, CallInv, Flushes
<1>2. CallInv' /\ todo' \in Seq(CallNames) /\ (Awaits(todo)' <=> Awaits(todo))
  <2>1. CASE outbuffer = << >>
    BY <1>1, <2>1, FlushReturns DEF SimpleFlush, Return, Operation
  <2>2. CASE outbuffer # << >>
    <3>1. Go(<<"while">> \o Tail(todo))
      BY <2>2 DEF SimpleFlush
    <3>2. QED
      BY <1>1, <3>1, StillFlushing DEF Operation
  <2>3. QED
    BY <2>1, <2>2
<1>3. Kept' = Kept /\ Awaited' = Awaited /\ Types'
  BY <1>1, <1>2, AwaitedIs DEF Kept, Types
<1>4. Len(outbuffer) \in Nat
  BY <1>1, LenProperties DEF Types
<1>5. Parts'
  BY <1>1, <1>3, <1>4, PartsKept DEF Parts
<1>6. QED
  BY <1>1, <1>2, <1>3, <1>5, NothingMissing

LEMMA WriteLoopKeeps ==
  ASSUME Parts, CallInv, WriteLoop
  PROVE  Parts' /\ CallInv' /\ Losses
<1>1. /\ Flushes /\ Types /\ (~hadNet => nets = << >>) /\ outbol = 0
      /\ UNCHANGED <<written, outbol, nets, hadNet, outisatty, given>>
  BY DEF WriteLoop, Step, Executing, Parts, CallInv, Flushes
<1>2. Len(outbuffer) \in Nat
  BY <1>1, LenProperties DEF Types
<1>3. CASE interruptedFlag
  <2>1. outbuffer' = << >> /\ ReturnError
    BY <1>3 DEF WriteLoop
  <2>2. /\ CallInv' /\ todo' \in Seq(CallNames) /\ ~Awaits(todo)'
        /\ call' \in [op : OpNames, ok : BOOLEAN] /\ (rest' = rest \/ rest' = << >>)
    BY <1>1, <2>1, ErrorReturns
  <2>3. << >> \in Seq(Nat) /\ ToSet(<< >>) = {} /\ Increasing(<< >>) /\ Len(<< >>) = 0
    BY Single
  <2>4. Types' /\ Kept' \subseteq Kept /\ Awaited' = {}
    BY <1>1, <2>1, <2>2, <2>3, AwaitedIs DEF Types, Kept
  <2>5. Ordered(written, outbuffer, rest, nets)'
    BY <1>1, <2>1, <2>2, <2>3 DEF Parts, Ordered
  <2>6. Parts'
    BY <1>1, <2>1, <2>3, <2>4, <2>5, PartsKept, FileAssumption DEF Parts
  <2>7. QED
    BY <1>3, <2>2, <2>6 DEF Losses
<1>4. CASE ~interruptedFlag
  <2>1. UNCHANGED <<outbuffer, call, rest>>
    BY <1>4 DEF WriteLoop, Return
  <2>2. CallInv' /\ todo' \in Seq(CallNames) /\ (Awaits(todo)' <=> Awaits(todo))
    <3>1. CASE outbuffer = << >>
      BY <1>1, <1>4, <2>1, <3>1, FlushReturns DEF WriteLoop, Return, Operation
    <3>2. CASE outbuffer # << >>
      <4>1. Go(<<"write">> \o Tail(todo))
        BY <1>4, <3>2 DEF WriteLoop
      <4>2. QED
        BY <1>1, <2>1, <4>1, StillFlushing DEF Operation
    <3>3. QED
      BY <3>1, <3>2
  <2>3. Kept' = Kept /\ Awaited' = Awaited /\ Types'
    BY <1>1, <2>1, <2>2, AwaitedIs DEF Kept, Types
  <2>4. Parts'
    BY <1>1, <1>2, <2>1, <2>3, PartsKept DEF Parts
  <2>5. QED
    BY <1>1, <2>2, <2>3, <2>4, NothingMissing
<1>5. QED
  BY <1>3, <1>4

LEMMA WriteKeeps ==
  ASSUME Parts, CallInv, Write
  PROVE  Parts' /\ CallInv' /\ Losses
<1>1. /\ Flushes /\ Types /\ (~hadNet => nets = << >>) /\ outbol = 0
      /\ UNCHANGED <<outbol, nets, hadNet, call, rest, outisatty, given>>
      /\ Go(<<"while">> \o Tail(todo))
  BY DEF Write, Step, Executing, Parts, CallInv, Flushes
<1>2. CallInv' /\ todo' \in Seq(CallNames) /\ (Awaits(todo)' <=> Awaits(todo))
  BY <1>1, StillFlushing DEF Operation
<1>3. PICK n \in 1 .. Len(outbuffer) :
        /\ written' = written \o SubSeq(outbuffer, 1, n)
        /\ outbuffer' = SubSeq(outbuffer, n + 1, Len(outbuffer))
  BY DEF Write
<1>4. PICK a \in Seq(Nat) :
        /\ written' = written \o a /\ outbuffer' \in Seq(Nat) /\ Len(outbuffer') <= Len(outbuffer)
        /\ Len(outbuffer') \in Nat
        /\ ToSet(outbuffer) = ToSet(a) \cup ToSet(outbuffer')
        /\ Increasing(outbuffer)
             => /\ Increasing(a) /\ Increasing(outbuffer')
                /\ \A x \in ToSet(a), y \in ToSet(outbuffer') : x < y
  <2>1. outbuffer \in Seq(Nat) /\ Len(outbuffer) \in Nat /\ n \in 0 .. Len(outbuffer)
    BY <1>1, <1>3, LenProperties DEF Types
  <2> DEFINE a == SubSeq(outbuffer, 1, n)
             b == SubSeq(outbuffer, n + 1, Len(outbuffer))
  <2>2. /\ a \in Seq(Nat) /\ b \in Seq(Nat) /\ Len(b) = Len(outbuffer) - n
        /\ ToSet(outbuffer) = ToSet(a) \cup ToSet(b)
        /\ Increasing(outbuffer)
             => /\ Increasing(a) /\ Increasing(b)
                /\ \A x \in ToSet(a), y \in ToSet(b) : x < y
    BY <2>1, Cut
  <2> HIDE DEF a
  <2>3. written' = written \o a /\ outbuffer' = b
    BY <1>3 DEF a
  <2> HIDE DEF b
  <2>4. Len(outbuffer') <= Len(outbuffer) /\ Len(outbuffer') \in Nat
    BY <2>1, <2>2, <2>3, <1>3
  <2>5. QED
    BY <2>2, <2>3, <2>4
<1>5. /\ written \o a \in Seq(Nat) /\ ToSet(written \o a) = ToSet(written) \cup ToSet(a)
      /\ Increasing(written \o a) <=> /\ Increasing(written) /\ Increasing(a)
                                      /\ \A x \in ToSet(written), y \in ToSet(a) : x < y
  BY <1>1, <1>4, Join DEF Types
<1>6. Types'
  BY <1>1, <1>2, <1>4, <1>5 DEF Types
<1>7. Kept' = Kept /\ Awaited' = Awaited
  BY <1>1, <1>2, <1>4, <1>5, AwaitedIs DEF Kept
<1>8. Ordered(written, outbuffer, rest, nets)'
  <2>1. Ordered(written, outbuffer, rest, nets)
    BY DEF Parts
  <2>2. Increasing(written') /\ Increasing(outbuffer')
    BY <1>4, <1>5, <2>1 DEF Ordered
  <2>3. QED
    BY <1>1, <1>4, <1>5, <2>1, <2>2 DEF Ordered
<1>9. Parts'
  <2>1. Len(outbuffer') <= BufferSize /\ outbol' \in 0 .. Len(outbuffer')
    BY <1>1, <1>3, <1>4, FileAssumption DEF Parts, Types
  <2>2. QED
    BY <1>1, <1>6, <1>7, <1>8, <2>1, PartsKept DEF Parts
<1>10. QED
  BY <1>1, <1>2, <1>6, <1>7, <1>9, NothingMissing

LEMMA WriteFailsKeeps ==
  ASSUME Parts, CallInv, WriteFails
  PROVE  Parts' /\ CallInv' /\ Losses
<1>1. /\ Flushes /\ Types /\ (~hadNet => nets = << >>)
      /\ UNCHANGED <<written, outbuffer, outbol, nets, hadNet, outisatty, given>>
      /\ ReturnError /\ error' = TRUE
  BY DEF WriteFails, Step, Executing, Parts, CallInv, Flushes
<1>2. /\ CallInv' /\ todo' \in Seq(CallNames) /\ ~Awaits(todo)'
      /\ call' \in [op : OpNames, ok : BOOLEAN] /\ (rest' = rest \/ rest' = << >>)
  BY <1>1, ErrorReturns
<1>3. << >> \in Seq(Nat) /\ ToSet(<< >>) = {} /\ Increasing(<< >>)
  BY Single
<1>4. Types' /\ Kept' \subseteq Kept /\ Awaited' = {}
  BY <1>1, <1>2, <1>3, AwaitedIs DEF Types, Kept
<1>5. Ordered(written, outbuffer, rest, nets)'
  BY <1>1, <1>2, <1>3 DEF Parts, Ordered
<1>6. Parts'
  BY <1>1, <1>4, <1>5, PartsKept DEF Parts
<1>7. QED
  BY <1>1, <1>2, <1>6 DEF Losses

\* What a call that is not about to flush leaves as it is.
LEMMA FlushNetsKeeps ==
  ASSUME Parts, CallInv, FlushNets
  PROVE  Parts' /\ CallInv' /\ Losses
<1>1. /\ Types /\ todo # << >> /\ Head(todo) = "nets" /\ OnNets /\ rest = << >>
      /\ (~hadNet => nets = << >>)
      /\ UNCHANGED <<written, outbuffer, outbol, error, outisatty, given>>
  BY DEF FlushNets, Step, Executing, Parts, CallInv
<1>2. /\ Tail(todo) = AfterNets /\ call.op \in {"endl", "flush", "close"}
      /\ (Awaits(todo) <=> Awaits(AfterNets)) /\ AfterNets \in Seq(CallNames)
  BY <1>1, AwaitsMore, Endings DEF OnNets, Types
<1>3. << >> \in Seq(Nat) /\ ToSet(<< >>) = {} /\ Increasing(<< >>)
  BY Single
<1>4. CASE hadNet
  <2>1. /\ rest' = nets /\ nets' = << >> /\ hadNet' = FALSE /\ call' = call
        /\ Go(<<"simpleout">> \o AfterNets)
    BY <1>2, <1>4 DEF FlushNets
  <2>2. PICK c \in CallNames : c = "simpleout"
    BY DEF CallNames
  <2>3. /\ todo' = <<c>> \o AfterNets /\ <<c>> \o AfterNets \in Seq(CallNames)
        /\ <<c>> \o AfterNets # << >> /\ Head(<<c>> \o AfterNets) = c
        /\ Tail(<<c>> \o AfterNets) = AfterNets
    BY <2>1, <2>2, BeforeAfterNets DEF Go
  <2>4. /\ todo' \in Seq(CallNames) /\ todo' # << >> /\ Head(todo') = "simpleout"
        /\ Tail(todo') = AfterNets /\ pc' = "run"
    BY <2>1, <2>2, <2>3 DEF Go, Goto
  <2>5. Awaits(todo') <=> Awaits(Tail(todo'))
    BY <2>4, AwaitsMore
  <2>6. AfterNets' = AfterNets
    BY <1>1, <2>1, EndingsStay
  <2>7. CallInv'
    BY <1>2, <2>1, <2>4, <2>6 DEF CallInv, OnNets
  <2>8. Types' /\ Kept' = Kept /\ Awaited' = Awaited
    BY <1>1, <1>2, <1>3, <2>1, <2>4, <2>5, AwaitedIs DEF Types, Kept, Awaits
  <2>9. Ordered(written, outbuffer, rest, nets)'
    BY <1>1, <1>3, <2>1 DEF Parts, Ordered
  <2>10. Parts'
    BY <1>1, <2>1, <2>8, <2>9, PartsKept DEF Parts
  <2>11. QED
    BY <1>1, <2>7, <2>8, <2>10, NothingMissing
<1>5. CASE ~hadNet
  <2>1. /\ Go(AfterNets) /\ UNCHANGED <<call, rest, nets, hadNet>>
    BY <1>2, <1>5 DEF FlushNets, Return
  <2>2. rest' = << >> /\ ~hadNet' /\ Operation
    BY <1>1, <1>5, <2>1 DEF Operation
  <2>3. CallInv'
    BY <1>2, <2>1, <2>2, GoToAfterNets
  <2>4. todo' = AfterNets /\ (Awaits(todo)' <=> Awaits(todo))
    BY <1>2, <2>1 DEF Go, Awaits
  <2>5. Types' /\ Kept' = Kept /\ Awaited' = Awaited
    BY <1>1, <1>2, <2>1, <2>4, AwaitedIs DEF Types, Kept
  <2>6. Ordered(written, outbuffer, rest, nets)'
    BY <1>1, <2>1 DEF Parts
  <2>7. Parts'
    BY <1>1, <2>1, <2>5, <2>6, PartsKept DEF Parts
  <2>8. QED
    BY <1>1, <2>3, <2>5, <2>7, NothingMissing
<1>6. QED
  BY <1>4, <1>5

LEMMA SimpleOutKeeps ==
  ASSUME Parts, CallInv, SimpleOut
  PROVE  Parts' /\ CallInv' /\ Losses
<1>1. /\ Types /\ todo # << >> /\ Head(todo) = "simpleout" /\ OnNets /\ ~hadNet /\ nets = << >>
      /\ pc = "run"
      /\ UNCHANGED <<written, outbol, nets, hadNet, error, outisatty, given>>
  BY DEF SimpleOut, Step, Executing, Parts, CallInv
<1>2. /\ Tail(todo) = AfterNets /\ call.op \in {"endl", "flush", "close"}
      /\ (Awaits(todo) <=> Awaits(AfterNets)) /\ AfterNets \in Seq(CallNames)
  BY <1>1, AwaitsMore, Endings DEF OnNets, Types
<1>3. CASE rest = << >>
  <2>1. Go(AfterNets) /\ UNCHANGED <<outbuffer, call, rest>>
    BY <1>2, <1>3 DEF SimpleOut, Return
  <2>2. rest' = << >> /\ ~hadNet' /\ Operation
    BY <1>1, <1>3, <2>1 DEF Operation
  <2>3. CallInv'
    BY <1>2, <2>1, <2>2, GoToAfterNets
  <2>4. todo' = AfterNets /\ (Awaits(todo)' <=> Awaits(todo))
    BY <1>2, <2>1 DEF Go, Awaits
  <2>5. Types' /\ Kept' = Kept /\ Awaited' = Awaited
    BY <1>1, <1>2, <2>1, <2>4, AwaitedIs DEF Types, Kept
  <2>6. Ordered(written, outbuffer, rest, nets)'
    BY <1>1, <2>1 DEF Parts
  <2>7. Parts'
    BY <1>1, <2>1, <2>5, <2>6, PartsKept DEF Parts
  <2>8. QED
    BY <1>1, <2>3, <2>5, <2>7, NothingMissing
<1>4. CASE rest # << >> /\ Len(outbuffer) = BufferSize
  <2>1. Go(<<"simpleflush">> \o todo) /\ UNCHANGED <<outbuffer, call, rest>>
    BY <1>4 DEF SimpleOut, Make
  <2>2. PICK c \in CallNames : c = "simpleflush"
    BY DEF CallNames
  <2>3. /\ <<c>> \o todo \in Seq(CallNames) /\ <<c>> \o todo # << >> /\ Head(<<c>> \o todo) = c
        /\ Tail(<<c>> \o todo) = todo
    <3>1. todo \in Seq(CallNames)
      BY <1>1 DEF Types
    <3>2. QED
      BY <3>1, Before
  <2>4. /\ todo' \in Seq(CallNames) /\ todo' # << >> /\ Head(todo') = "simpleflush"
        /\ Tail(todo') = todo /\ pc' = "run"
    BY <2>1, <2>2, <2>3 DEF Go, Goto
  <2>5. Awaits(todo') <=> Awaits(Tail(todo'))
    BY <2>4, AwaitsMore
  <2>6. AfterNets' = AfterNets /\ Ending' = Ending
    BY <1>1, <2>1, EndingsStay
  <2>7. todo = <<"simpleout">> \o AfterNets
    BY <1>1, <1>2, FirstOf DEF Types
  <2>8. OnOut'
    BY <1>1, <1>2, <2>1, <2>4, <2>6, <2>7 DEF OnOut
  <2>9. CallInv'
    BY <2>4, <2>8 DEF CallInv
  <2>10. Types' /\ Kept' = Kept /\ Awaited' = Awaited
    BY <1>1, <2>1, <2>4, <2>5, AwaitedIs DEF Types, Kept, Awaits
  <2>11. Ordered(written, outbuffer, rest, nets)'
    BY <1>1, <2>1 DEF Parts
  <2>12. Parts'
    BY <1>1, <2>1, <2>10, <2>11, PartsKept DEF Parts
  <2>13. QED
    BY <1>1, <2>9, <2>10, <2>12, NothingMissing
<1>5. CASE rest # << >> /\ Len(outbuffer) # BufferSize
  <2>1. /\ rest \in Seq(Nat) /\ outbuffer \in Seq(Nat) /\ Len(rest) \in Nat /\ Len(outbuffer) \in Nat
        /\ Len(outbuffer) < BufferSize /\ BufferSize \in Nat /\ outbol \in 0 .. Len(outbuffer)
    <3>1. rest \in Seq(Nat) /\ outbuffer \in Seq(Nat)
      BY <1>1 DEF Types
    <3>2. QED
      BY <1>5, <3>1, FileAssumption, LenProperties DEF Parts
  <2> DEFINE room == BufferSize - Len(outbuffer)
             n    == IF Len(rest) < room THEN Len(rest) ELSE room
             a    == SubSeq(rest, 1, n)
             b    == SubSeq(rest, n + 1, Len(rest))
  <2>2. outbuffer' = outbuffer \o a /\ rest' = b /\ UNCHANGED <<todo, call, pc>>
    BY <1>5 DEF SimpleOut
  <2>3. n \in 0 .. Len(rest) /\ n <= BufferSize - Len(outbuffer)
    BY <2>1
  <2> HIDE DEF n
  <2>4. /\ a \in Seq(Nat) /\ b \in Seq(Nat) /\ Len(a) = n /\ ToSet(rest) = ToSet(a) \cup ToSet(b)
        /\ Increasing(rest)
             => /\ Increasing(a) /\ Increasing(b)
                /\ \A x \in ToSet(a), y \in ToSet(b) : x < y
    BY <2>1, <2>3, Cut
  <2> HIDE DEF a, b
  <2>5. /\ outbuffer \o a \in Seq(Nat) /\ Len(outbuffer \o a) = Len(outbuffer) + Len(a)
        /\ ToSet(outbuffer \o a) = ToSet(outbuffer) \cup ToSet(a)
        /\ Increasing(outbuffer \o a) <=> /\ Increasing(outbuffer) /\ Increasing(a)
                                          /\ \A x \in ToSet(outbuffer), y \in ToSet(a) : x < y
    BY <2>1, <2>4, Join
  <2>6. Types' /\ Kept' = Kept /\ Awaited' = Awaited
    BY <1>1, <2>2, <2>4, <2>5, AwaitedIs DEF Types, Kept, Awaits
  <2>7. Ordered(written, outbuffer, rest, nets)'
    <3>1. Ordered(written, outbuffer, rest, nets)
      BY DEF Parts
    <3>2. Increasing(outbuffer') /\ Increasing(rest')
      BY <2>2, <2>4, <2>5, <3>1 DEF Ordered
    <3>3. QED
      BY <1>1, <2>2, <2>4, <2>5, <3>1, <3>2 DEF Ordered
  <2>8. Len(outbuffer') <= BufferSize /\ outbol' \in 0 .. Len(outbuffer')
    BY <1>1, <2>1, <2>2, <2>3, <2>4, <2>5
  <2>9. Parts'
    BY <1>1, <2>6, <2>7, <2>8, PartsKept DEF Parts
  <2>10. OnNets' /\ ~hadNet'
    BY <1>1, <1>2, <2>2, EndingsStay DEF OnNets
  <2>11. CallInv'
    BY <1>1, <2>2, <2>10 DEF CallInv
  <2>12. QED
    BY <1>1, <2>6, <2>9, <2>11, NothingMissing
<1>6. QED
  BY <1>3, <1>4, <1>5

\* The character that is given comes last in the file.
LEMMA LastGiven ==
  ASSUME Parts, Awaits(todo)
  PROVE  /\ given \in 1 .. given /\ given \notin Kept
         /\ \A x \in Kept : x \in Nat /\ x < given
<1>1. Awaited = {given}
  BY AwaitedIs
<1>2. Kept \subseteq 1 .. given /\ given \in (1 .. given) \ Kept /\ given \in Nat
  BY <1>1 DEF Parts, Types
<1>3. QED
  BY <1>2

LEMMA PutCharKeeps ==
  ASSUME Parts, CallInv, PutChar
  PROVE  Parts' /\ CallInv' /\ Losses
<1>1. /\ Types /\ todo # << >> /\ Head(todo) = "put" /\ OnPut /\ rest = << >>
      /\ (~hadNet => nets = << >>)
      /\ UNCHANGED <<written, outbol, hadNet, error, outisatty, given>>
  BY DEF PutChar, Step, Executing, Parts, CallInv, OnPut
<1>2. /\ Tail(todo) = Ending /\ call.op \in {"char", "endl"} /\ Awaits(todo)
      /\ Ending \in Seq(CallNames) /\ ~Awaits(Ending)
  BY <1>1, AwaitsMore, Endings DEF OnPut, Types, Awaits
<1>3. Awaited = {given}
  BY <1>2, AwaitedIs
<1>4. CASE interruptedFlag
  <2>1. Go(Ending) /\ UNCHANGED <<call, rest, outbuffer, nets>>
    BY <1>2, <1>4 DEF PutChar, Return
  <2>2. rest' = << >> /\ Operation
    BY <1>1, <2>1 DEF Operation
  <2>3. CallInv' /\ todo' \in Seq(CallNames) /\ ~Awaits(todo)'
    BY <1>2, <2>1, <2>2, GoToEnding
  <2>4. Types' /\ Kept' = Kept /\ Awaited' = {}
    BY <1>1, <2>1, <2>3, AwaitedIs DEF Types, Kept
  <2>5. Ordered(written, outbuffer, rest, nets)'
    BY <1>1, <2>1 DEF Parts
  <2>6. Parts'
    BY <1>1, <2>1, <2>4, <2>5, PartsKept DEF Parts
  <2>7. QED
    BY <1>4, <2>3, <2>6 DEF Losses
<1>5. CASE ~interruptedFlag /\ hadNet
  <2>1. Go(Ending) /\ UNCHANGED <<call, rest, outbuffer>> /\ nets' = Append(nets, given)
    BY <1>2, <1>5 DEF PutChar, Return
  <2>2. rest' = << >> /\ Operation
    BY <1>1, <2>1 DEF Operation
  <2>3. CallInv' /\ todo' \in Seq(CallNames) /\ ~Awaits(todo)'
    BY <1>2, <2>1, <2>2, GoToEnding
  <2>4. /\ nets' \in Seq(Nat) /\ ToSet(nets') = ToSet(nets) \cup {given}
        /\ Increasing(nets') <=> Increasing(nets) /\ \A y \in ToSet(nets) : y < given
    <3>1. nets \in Seq(Nat) /\ given \in Nat
      BY <1>1 DEF Types
    <3>2. QED
      BY <2>1, <3>1, Added
  <2>5. Types' /\ Kept' = Kept \cup {given} /\ Awaited' = {}
    BY <1>1, <2>1, <2>3, <2>4, AwaitedIs DEF Types, Kept
  <2>6. \A x \in Kept : x \in Nat /\ x < given
    BY <1>1, <1>2, LastGiven DEF Types, Kept
  <2>7. Ordered(written, outbuffer, rest, nets)'
    BY <1>1, <2>1, <2>4, <2>6 DEF Parts, Ordered, Kept
  <2>8. Parts'
    BY <1>1, <1>3, <1>5, <2>1, <2>5, <2>7, PartsKept DEF Parts
  <2>9. QED
    BY <1>1, <1>3, <2>3, <2>5, <2>8, NothingMissing
<1>6. CASE ~interruptedFlag /\ ~hadNet
  <2>1. /\ UNCHANGED <<nets, outbuffer, call, rest>>
        /\ Go((IF Len(outbuffer) = BufferSize THEN <<"simpleflush", "store">> ELSE <<"store">>)
                \o Ending)
    BY <1>2, <1>6 DEF PutChar
  <2>2. PICK c \in CallNames, d \in CallNames : c = "store" /\ d = "simpleflush"
    BY DEF CallNames
  <2>3. /\ <<c>> \o Ending \in Seq(CallNames) /\ <<c>> \o Ending # << >>
        /\ Head(<<c>> \o Ending) = c /\ Tail(<<c>> \o Ending) = Ending
    BY BeforeEnding
  <2>4. Ending' = Ending /\ rest' = << >> /\ ~hadNet' /\ call' = call
    BY <1>1, <1>6, <2>1, EndingsStay
  <2>5. CallInv' /\ todo' \in Seq(CallNames) /\ Awaits(todo')
    <3>1. CASE Len(outbuffer) = BufferSize
      <4>1. <<d, c>> \o Ending = <<d>> \o (<<c>> \o Ending)
        BY TwoBeforeEnding
      <4>2. /\ todo' = <<d>> \o (<<c>> \o Ending) /\ pc' = IF todo' = << >> THEN "eval" ELSE "run"
        BY <2>1, <2>2, <3>1, <4>1 DEF Go, Goto
      <4>3. /\ <<d>> \o (<<c>> \o Ending) \in Seq(CallNames) /\ <<d>> \o (<<c>> \o Ending) # << >>
            /\ Head(<<d>> \o (<<c>> \o Ending)) = d
            /\ Tail(<<d>> \o (<<c>> \o Ending)) = <<c>> \o Ending
        BY <2>3, Before
      <4>4. /\ todo' \in Seq(CallNames) /\ todo' # << >> /\ Head(todo') = "simpleflush"
            /\ Tail(todo') = <<c>> \o Ending /\ pc' = "run"
        BY <2>2, <4>2, <4>3
      <4>5. OnStore'
        BY <1>2, <2>2, <2>4, <4>4 DEF OnStore
      <4>6. Awaits(Tail(todo')) /\ Awaits(todo')
        BY <2>2, <2>3, <4>4, AwaitsMore
      <4>7. QED
        BY <4>4, <4>5, <4>6 DEF CallInv
    <3>2. CASE Len(outbuffer) # BufferSize
      <4>1. todo' = <<c>> \o Ending /\ pc' = IF todo' = << >> THEN "eval" ELSE "run"
        BY <2>1, <2>2, <3>2 DEF Go, Goto
      <4>2. /\ todo' \in Seq(CallNames) /\ todo' # << >> /\ Head(todo') = "store"
            /\ Tail(todo') = Ending /\ pc' = "run"
        BY <2>2, <2>3, <4>1
      <4>3. Len(outbuffer') < BufferSize
        <5>1. Len(outbuffer) \in Nat /\ Len(outbuffer) <= BufferSize /\ BufferSize \in Nat
          BY FileAssumption, LenProperties DEF Parts, Types
        <5>2. QED
          BY <2>1, <3>2, <5>1
      <4>4. OnPut'
        BY <1>2, <2>4, <4>2 DEF OnPut
      <4>5. Awaits(todo')
        BY <4>2, AwaitsMore
      <4>6. QED
        BY <2>4, <4>2, <4>3, <4>4, <4>5 DEF CallInv
    <3>3. QED
      BY <3>1, <3>2
  <2>6. Types' /\ Kept' = Kept /\ Awaited' = Awaited
    BY <1>1, <1>3, <2>1, <2>5, AwaitedIs DEF Types, Kept, Awaits
  <2>7. Ordered(written, outbuffer, rest, nets)'
    BY <1>1, <2>1 DEF Parts
  <2>8. Parts'
    BY <1>1, <2>1, <2>6, <2>7, PartsKept DEF Parts
  <2>9. QED
    BY <1>1, <2>5, <2>6, <2>8, NothingMissing
<1>7. QED
  BY <1>4, <1>5, <1>6

LEMMA StoreCharKeeps ==
  ASSUME Parts, CallInv, StoreChar
  PROVE  Parts' /\ CallInv' /\ Losses
<1>1. /\ Types /\ todo # << >> /\ Head(todo) = "store" /\ OnPut /\ rest = << >> /\ ~hadNet
      /\ nets = << >> /\ Len(outbuffer) < BufferSize
      /\ UNCHANGED <<written, outbol, nets, hadNet, error, outisatty, given, call, rest>>
      /\ outbuffer' = Append(outbuffer, given)
  BY DEF StoreChar, Step, Executing, Return, Parts, CallInv, OnPut
<1>2. /\ Tail(todo) = Ending /\ call.op \in {"char", "endl"} /\ Awaits(todo)
  BY <1>1, AwaitsMore DEF OnPut, Types
<1>3. Awaited = {given}
  BY <1>2, AwaitedIs
<1>4. Go(Ending) /\ rest' = << >> /\ Operation
  BY <1>1, <1>2 DEF StoreChar, Return, Operation
<1>5. CallInv' /\ todo' \in Seq(CallNames) /\ ~Awaits(todo)'
  BY <1>2, <1>4, GoToEnding
<1>6. outbuffer \in Seq(Nat) /\ given \in Nat /\ Len(outbuffer) \in Nat /\ outbol \in 0 .. Len(outbuffer)
  BY <1>1, LenProperties DEF Types, Parts
<1>7. /\ outbuffer' \in Seq(Nat) /\ ToSet(outbuffer') = ToSet(outbuffer) \cup {given}
      /\ Len(outbuffer') = Len(outbuffer) + 1
      /\ Increasing(outbuffer') <=> Increasing(outbuffer) /\ \A y \in ToSet(outbuffer) : y < given
  BY <1>1, <1>6, Added
<1>8. Types' /\ Kept' = Kept \cup {given} /\ Awaited' = {}
  BY <1>1, <1>5, <1>7, AwaitedIs DEF Types, Kept
<1>9. \A x \in Kept : x \in Nat /\ x < given
  BY <1>1, <1>2, LastGiven DEF Types, Kept
<1>10. ToSet(rest) = {} /\ ToSet(nets) = {}
  BY <1>1, Single
<1>11. Ordered(written, outbuffer, rest, nets)'
  BY <1>1, <1>7, <1>9, <1>10 DEF Parts, Ordered, Kept
<1>12. Parts'
  <2>1. Len(outbuffer') <= BufferSize /\ outbol' \in 0 .. Len(outbuffer')
    BY <1>1, <1>6, <1>7, FileAssumption
  <2>2. QED
    BY <1>1, <1>3, <1>8, <1>11, <2>1, PartsKept
<1>13. QED
  BY <1>1, <1>3, <1>5, <1>8, <1>12, NothingMissing

LEMMA BeginLineKeeps ==
  ASSUME Parts, CallInv, BeginLine
  PROVE  Parts' /\ CallInv' /\ Losses
<1>1. /\ Types /\ todo # << >> /\ Head(todo) = "bol" /\ call.op = "endl" /\ Tail(todo) = << >>
      /\ rest = << >> /\ (~hadNet => nets = << >>) /\ outbol' = Len(outbuffer) /\ todo' = Tail(todo)
      /\ UNCHANGED <<written, outbuffer, nets, hadNet, error, outisatty, given, call, rest>>
  BY DEF BeginLine, Step, Executing, Return, Go, Parts, CallInv
<1>2. Tail(todo) \in Seq(CallNames) /\ (Awaits(todo)' <=> Awaits(todo))
  BY <1>1, FirstOf, AwaitsMore DEF Types, Awaits
<1>3. CallInv'
  BY <1>1 DEF CallInv, FlushedMeansWritten
<1>4. Types' /\ Kept' = Kept /\ Awaited' = Awaited
  BY <1>1, <1>2, AwaitedIs DEF Types, Kept
<1>5. Parts'
  <2>1. Len(outbuffer') <= BufferSize /\ outbol' \in 0 .. Len(outbuffer')
    BY <1>1, LenProperties DEF Parts, Types
  <2>2. Ordered(written, outbuffer, rest, nets)'
    BY <1>1 DEF Parts
  <2>3. QED
    BY <1>1, <1>4, <2>1, <2>2, PartsKept DEF Parts
<1>6. QED
  BY <1>1, <1>3, <1>4, <1>5, NothingMissing

LEMMA CloseOutKeeps ==
  ASSUME Parts, CallInv, CloseOut
  PROVE  Parts' /\ CallInv' /\ Losses
<1>1. /\ Types /\ todo # << >> /\ Head(todo) \in {"close", "leave"} /\ OnClose
      /\ (Head(todo) = "close" => ~hadNet /\ outbuffer = << >> /\ fd' = "closed")
      /\ (Head(todo) = "leave" => ~call.ok)
      /\ (~hadNet => nets = << >>) /\ todo' = Tail(todo)
      /\ UNCHANGED <<written, outbuffer, outbol, nets, hadNet, error, outisatty, given, call, rest>>
  BY DEF CloseOut, Step, Executing, Return, Go, Parts, CallInv
<1>2. /\ Tail(todo) = << >> /\ rest = << >> /\ Tail(todo) \in Seq(CallNames)
      /\ (Awaits(todo)' <=> Awaits(todo))
  BY <1>1, FirstOf, AwaitsMore DEF Types, Awaits, OnClose
<1>3. CallInv'
  BY <1>1, <1>2 DEF CallInv, FlushedMeansWritten
<1>4. Types' /\ Kept' = Kept /\ Awaited' = Awaited
  BY <1>1, <1>2, AwaitedIs DEF Types, Kept
<1>5. Parts'
  <2>1. Ordered(written, outbuffer, rest, nets)'
    BY <1>1 DEF Parts
  <2>2. QED
    BY <1>1, <1>4, <2>1, PartsKept DEF Parts
<1>6. QED
  BY <1>1, <1>3, <1>4, <1>5, NothingMissing

\* A step that puts a new character into the file, or has it awaited.
LEMMA OneMore ==
  ASSUME Parts, Types', given' = given + 1, Kept' \cup Awaited' = Kept \cup Awaited \cup {given + 1},
         Kept' \cap Awaited' = {}, Len(outbuffer') <= BufferSize, outbol' \in 0 .. Len(outbuffer'),
         ~hadNet' => nets' = << >>, Ordered(written, outbuffer, rest, nets)'
  PROVE  Parts' /\ Losses
<1>1. given \in Nat
  BY DEF Parts, Types
<1>2. Kept' \subseteq 1 .. given' /\ Awaited' \subseteq (1 .. given') \ Kept'
  <2>1. Kept \subseteq 1 .. given /\ Awaited \subseteq 1 .. given
    BY DEF Parts
  <2>2. 1 .. given' = (1 .. given) \cup {given + 1}
    BY <1>1
  <2>3. Kept' \cup Awaited' \subseteq 1 .. given'
    BY <2>1, <2>2
  <2>4. QED
    BY <2>3
<1>3. ToSet(Stream) = Kept /\ ToSet(Stream)' = Kept'
  BY FileParts, FilePartsNext DEF Parts
<1>4. Missing' \subseteq Missing
  BY <1>1, <1>3 DEF Missing
<1>5. QED
  BY <1>2, <1>4 DEF Parts, Losses

\* No operation is under way.
LEMMA Idle ==
  ASSUME Parts, CallInv, todo = << >>
  PROVE  /\ Types /\ Awaited = {} /\ rest = << >> /\ ToSet(rest) = {} /\ ~Awaits(todo)
         /\ outbol \in 0 .. Len(outbuffer) /\ Len(outbuffer) <= BufferSize /\ Len(outbuffer) \in Nat
         /\ BufferSize \in Nat /\ given \in Nat /\ (~hadNet => nets = << >>)
<1>1. << >> \in Seq(Nat) /\ ToSet(<< >>) = {}
  BY Single
<1>2. Types /\ Len(outbuffer) \in Nat
  BY LenProperties DEF Parts, Types
<1>3. ~Awaits(todo)
  BY <1>1 DEF Awaits
<1>4. QED
  BY <1>1, <1>2, <1>3, AwaitedIs, FileAssumption DEF Parts, Types, CallInv

LEMMA OtherKeeps ==
  ASSUME Parts, CallInv, Other
  PROVE  Parts' /\ CallInv' /\ Losses
<1>1. /\ todo = << >>
      /\ UNCHANGED <<written, outbuffer, outbol, nets, hadNet, output, fd, error, call, todo, rest, given>>
  BY DEF Other, fileVars
<1>2. Types /\ Awaited = {} /\ rest = << >>
  BY <1>1, Idle
<1>3. Kept' = Kept /\ Awaited' = Awaited /\ Types'
  BY <1>1, <1>2, AwaitedIs DEF Types, Kept, Awaits
<1>4. Parts'
  BY <1>1, <1>3 DEF Parts, Ordered
<1>5. CallInv'
  BY <1>1, <1>2 DEF CallInv, FlushedMeansWritten
<1>6. QED
  BY <1>1, <1>2, <1>3, <1>4, <1>5, NothingMissing

LEMMA NetKeeps ==
  ASSUME Parts, CallInv, Net
  PROVE  Parts' /\ CallInv' /\ Losses
<1>1. /\ todo = << >> /\ todo' = << >> /\ given' = given + 1 /\ hadNet' = TRUE
      /\ call' = [op |-> "net", ok |-> TRUE]
      /\ UNCHANGED <<written, outbol, output, fd, error, rest>>
  BY DEF Net
<1>2. /\ Types /\ Awaited = {} /\ rest = << >> /\ ToSet(rest) = {} /\ ~Awaits(todo)
      /\ outbol \in 0 .. Len(outbuffer) /\ Len(outbuffer) <= BufferSize /\ Len(outbuffer) \in Nat
      /\ BufferSize \in Nat /\ given \in Nat /\ (~hadNet => nets = << >>)
  BY <1>1, Idle
<1>3. outbuffer \in Seq(Nat) /\ nets \in Seq(Nat) /\ given + 1 \in Nat
  BY <1>2 DEF Types
<1>4. Awaited' = {}
  BY <1>1, <1>2, AwaitedIs DEF Awaits
<1>5. CallInv'
  BY <1>1, <1>2 DEF CallInv, FlushedMeansWritten
<1>6. Ordered(written, outbuffer, rest, nets) /\ Kept \subseteq 1 .. given
  BY DEF Parts
<1>7. \A x \in Kept : x \in Nat /\ x < given + 1
  BY <1>2, <1>6
<1>8. call' \in [op : OpNames, ok : BOOLEAN]
  <2>1. PICK op \in OpNames : op = "net"
    BY DEF OpNames
  <2>2. QED
    BY <1>1, <2>1
<1>9. CASE hadNet
  <2>1. nets' = Append(nets, given + 1) /\ outbuffer' = outbuffer
    BY <1>9 DEF Net
  <2>2. /\ nets' \in Seq(Nat) /\ ToSet(nets') = ToSet(nets) \cup {given + 1}
        /\ Increasing(nets') <=> Increasing(nets) /\ \A y \in ToSet(nets) : y < given + 1
    BY <1>3, <2>1, Added
  <2>3. Types' /\ Kept' = Kept \cup {given + 1}
    BY <1>1, <1>2, <1>8, <2>1, <2>2 DEF Types, Kept
  <2>4. Ordered(written, outbuffer, rest, nets)'
    BY <1>1, <1>6, <1>7, <2>1, <2>2 DEF Ordered, Kept
  <2>5. Parts' /\ Losses
    BY <1>1, <1>2, <1>4, <2>1, <2>3, <2>4, OneMore
  <2>6. QED
    BY <1>5, <2>5
<1>10. CASE ~hadNet
  <2> DEFINE a == SubSeq(outbuffer, 1, outbol)
             b == SubSeq(outbuffer, outbol + 1, Len(outbuffer))
             c == <<given + 1>>
  <2>1. /\ a \in Seq(Nat) /\ b \in Seq(Nat) /\ Len(a) = outbol
        /\ ToSet(outbuffer) = ToSet(a) \cup ToSet(b)
        /\ Increasing(outbuffer)
             => /\ Increasing(a) /\ Increasing(b)
                /\ \A x \in ToSet(a), y \in ToSet(b) : x < y
    BY <1>2, <1>3, Cut
  <2>2. c \in Seq(Nat) /\ ToSet(c) = {given + 1} /\ Increasing(c)
    BY <1>3, Single
  <2> HIDE DEF a, c
  <2>3. outbuffer' = a /\ nets' = (nets \o b) \o c
    BY <1>10 DEF Net, LineTaken, a, c
  <2> HIDE DEF b
  <2>4. nets = << >> /\ ToSet(nets) = {} /\ Increasing(nets)
    BY <1>2, <1>10, Single
  <2>5. /\ nets \o b \in Seq(Nat) /\ ToSet(nets \o b) = ToSet(b)
        /\ Increasing(nets \o b) <=> Increasing(b)
    BY <1>3, <2>1, <2>4, Join
  <2>6. /\ nets' \in Seq(Nat) /\ ToSet(nets') = ToSet(b) \cup {given + 1}
        /\ Increasing(nets') <=> /\ Increasing(nets \o b) /\ Increasing(c)
                                 /\ \A x \in ToSet(nets \o b), y \in ToSet(c) : x < y
    BY <2>2, <2>3, <2>5, Join
  <2>7. Types' /\ Kept' = Kept \cup {given + 1}
    BY <1>1, <1>2, <1>3, <1>8, <2>1, <2>3, <2>4, <2>6 DEF Types, Kept
  <2>8. Increasing(nets')
    BY <1>6, <1>7, <2>1, <2>2, <2>5, <2>6 DEF Ordered, Kept
  <2>9. Ordered(written, outbuffer, rest, nets)'
    BY <1>1, <1>2, <1>6, <1>7, <2>1, <2>3, <2>6, <2>8 DEF Ordered, Kept
  <2>10. Len(outbuffer') <= BufferSize /\ outbol' \in 0 .. Len(outbuffer')
    BY <1>1, <1>2, <2>1, <2>3
  <2>11. Parts' /\ Losses
    BY <1>1, <1>2, <1>4, <2>7, <2>9, <2>10, OneMore
  <2>12. QED
    BY <1>5, <2>11
<1>11. QED
  BY <1>9, <1>10

\* The calls that an operation starts with.
LEMMA BeginsWith ==
  ASSUME NEW op \in {"char", "endl", "flush", "close"}, Begin(op), rest = << >>
  PROVE  CallInv' /\ todo' \in Seq(CallNames) /\ (Awaits(todo)' <=> op \in {"char", "endl"})
<1>1. /\ call'.op = op /\ todo' = Calls(op) /\ pc' = "run" /\ rest' = << >> /\ outisatty' = outisatty
  BY DEF Begin, Executing, At
<1>2. CASE op = "char"
  <2>1. PICK p \in CallNames : p = "put"
    BY DEF CallNames
  <2>2. todo' = <<p>>
    BY <1>1, <1>2, <2>1 DEF Calls
  <2>3. /\ todo' \in Seq(CallNames) /\ todo' # << >> /\ Head(todo') = "put" /\ Tail(todo') = << >>
        /\ ToSet(todo') = {"put"}
    BY <2>1, <2>2, NoneOrOne
  <2>4. Ending' = << >>
    BY <1>1, <1>2 DEF Ending
  <2>5. QED
    BY <1>1, <1>2, <2>3, <2>4 DEF CallInv, OnPut, Awaits
<1>3. CASE op = "endl"
  <2>1. PICK n \in CallNames, p \in CallNames, e \in CallNames :
          n = "nets" /\ p = "put" /\ e = IF outisatty THEN "simpleflush" ELSE "bol"
    BY DEF CallNames
  <2>2. todo' = <<n, p, e>> /\ Ending' = <<e>> /\ AfterNets' = <<p>> \o Ending'
    BY <1>1, <1>3, <2>1 DEF Calls, Ending, AfterNets
  <2>3. n \in CallNames /\ p \in CallNames /\ e \in CallNames
    BY <2>1
  <2>4. /\ <<n, p, e>> \in Seq(CallNames) /\ <<n, p, e>> # << >> /\ Head(<<n, p, e>>) = n
        /\ ToSet(<<n, p, e>>) = {n, p, e}
    <3>1. /\ <<n, p, e>> \in Seq(CallNames) /\ <<n, p, e>> # << >> /\ Head(<<n, p, e>>) = n
      BY ONLY <2>3
    <3>2. ToSet(<<n, p, e>>) = {n, p, e}
      BY ONLY <2>3 DEF ToSet
    <3>3. QED
      BY <3>1, <3>2
  <2>5. Tail(<<n, p, e>>) = <<p, e>>
    BY ONLY <2>3
  <2>6. <<p, e>> = <<p>> \o <<e>>
    BY ONLY <2>3, TwoCalls
  <2>7. Tail(todo') = AfterNets'
    BY <2>2, <2>5, <2>6
  <2>8. todo' \in Seq(CallNames) /\ todo' # << >> /\ Head(todo') = "nets" /\ Awaits(todo)'
    BY <2>1, <2>2, <2>4 DEF Awaits
  <2>9. QED
    BY <1>1, <1>3, <2>7, <2>8 DEF CallInv, OnNets
<1>4. CASE op = "flush"
  <2>1. PICK n \in CallNames, c \in CallNames : n = "nets" /\ c = "simpleflush"
    BY DEF CallNames
  <2>2. todo' = <<n, c>> /\ AfterNets' = <<c>>
    BY <1>1, <1>4, <2>1 DEF Calls, Ending, AfterNets
  <2>3. n \in CallNames /\ c \in CallNames
    BY <2>1
  <2>4. /\ <<n, c>> \in Seq(CallNames) /\ <<n, c>> # << >> /\ Head(<<n, c>>) = n /\ Tail(<<n, c>>) = <<c>>
    BY ONLY <2>3
  <2>5. ToSet(<<n, c>>) = {n, c}
    BY ONLY <2>3 DEF ToSet
  <2>6. QED
    BY <1>1, <1>4, <2>1, <2>2, <2>4, <2>5 DEF CallInv, OnNets, Awaits
<1>5. CASE op = "close"
  <2>1. PICK n \in CallNames, c \in CallNames, d \in CallNames :
          n = "nets" /\ c = "simpleflush" /\ d = "close"
    BY DEF CallNames
  <2>2. todo' = <<n, c, d>> /\ AfterNets' = <<c, d>>
    BY <1>1, <1>5, <2>1 DEF Calls, Ending, AfterNets
  <2>3. n \in CallNames /\ c \in CallNames /\ d \in CallNames
    BY <2>1
  <2>4. /\ <<n, c, d>> \in Seq(CallNames) /\ <<n, c, d>> # << >> /\ Head(<<n, c, d>>) = n
        /\ Tail(<<n, c, d>>) = <<c, d>>
    BY ONLY <2>3
  <2>5. ToSet(<<n, c, d>>) = {n, c, d}
    BY ONLY <2>3 DEF ToSet
  <2>6. QED
    BY <1>1, <1>5, <2>1, <2>2, <2>4, <2>5 DEF CallInv, OnNets, Awaits
<1>6. QED
  BY <1>2, <1>3, <1>4, <1>5

LEMMA BeginKeeps ==
  ASSUME Parts, CallInv, NEW op \in {"char", "endl", "flush", "close"}, Begin(op)
  PROVE  Parts' /\ CallInv' /\ Losses
<1>1. /\ todo = << >> /\ call' = [op |-> op, ok |-> TRUE]
      /\ given' = IF op \in {"char", "endl"} THEN given + 1 ELSE given
      /\ UNCHANGED <<written, outbuffer, outbol, nets, hadNet, output, fd, error, rest>>
  BY DEF Begin
<1>2. /\ Types /\ Awaited = {} /\ rest = << >> /\ ToSet(rest) = {} /\ ~Awaits(todo)
      /\ outbol \in 0 .. Len(outbuffer) /\ Len(outbuffer) <= BufferSize /\ Len(outbuffer) \in Nat
      /\ BufferSize \in Nat /\ given \in Nat /\ (~hadNet => nets = << >>)
  BY <1>1, Idle
<1>3. CallInv' /\ todo' \in Seq(CallNames) /\ (Awaits(todo)' <=> op \in {"char", "endl"})
  BY <1>2, BeginsWith
<1>4. call' \in [op : OpNames, ok : BOOLEAN] /\ given' \in Nat
  <2>1. op \in OpNames
    BY DEF OpNames
  <2>2. call' = [op |-> op, ok |-> TRUE]
    BY <1>1
  <2>3. call' \in [op : OpNames, ok : BOOLEAN]
    BY ONLY <2>1, <2>2
  <2>4. QED
    BY <1>1, <1>2, <2>3
<1>5. Types' /\ Kept' = Kept
  BY <1>1, <1>2, <1>3, <1>4 DEF Types, Kept
<1>6. Ordered(written, outbuffer, rest, nets)' /\ Kept \subseteq 1 .. given
  BY <1>1 DEF Parts, Ordered
<1>7. CASE op \in {"char", "endl"}
  <2>1. given' = given + 1 /\ Awaited' = {given + 1} /\ given + 1 \notin Kept
    BY <1>1, <1>2, <1>3, <1>6, <1>7, AwaitedIs
  <2>2. Parts' /\ Losses
    BY <1>1, <1>2, <1>5, <1>6, <2>1, OneMore
  <2>3. QED
    BY <1>3, <2>2
<1>8. CASE op \notin {"char", "endl"}
  <2>1. given' = given /\ Awaited' = {}
    BY <1>1, <1>3, <1>8, AwaitedIs
  <2>2. Parts'
    BY <1>1, <1>2, <1>5, <1>6, <2>1, PartsKept
  <2>3. QED
    BY <1>2, <1>3, <1>5, <2>1, <2>2, NothingMissing
<1>9. QED
  BY <1>7, <1>8

\* Code keeps the file, goes on with its operation or comes to its end, and no error is forgotten.
LEMMA CodeKeeps ==
  ASSUME Parts, CallInv, Code
  PROVE  /\ Parts' /\ CallInv' /\ Losses
         /\ pc' = "eval" \/ (pc' = "run" /\ todo' # << >>)
         /\ CodeStep /\ UNCHANGED <<outisatty, reported>> /\ (error => error')
<1>1. Parts' /\ CallInv' /\ Losses
  BY OtherKeeps, NetKeeps, FlushNetsKeeps, SimpleOutKeeps, PutCharKeeps, StoreCharKeeps, BeginLineKeeps,
     SimpleFlushKeeps, WriteLoopKeeps, WriteKeeps, WriteFailsKeeps, CloseOutKeeps, BeginKeeps DEF Code
<1>2. Executing /\ (error => error')
  BY DEF Code, Other, Net, FlushNets, SimpleOut, PutChar, StoreChar, BeginLine, SimpleFlush, WriteLoop,
         Write, WriteFails, CloseOut, Begin, Step, fileVars
<1>3. pc' = "eval" \/ (pc' = "run" /\ todo' # << >>)
  <2>1. ASSUME NEW t, Go(t) PROVE pc' = "eval" \/ (pc' = "run" /\ todo' # << >>)
    BY <2>1 DEF Go, Goto
  <2>2. CASE Other \/ Net
    BY <2>2 DEF Other, Net, Goto
  <2>3. CASE FlushNets \/ PutChar \/ StoreChar \/ BeginLine \/ SimpleFlush \/ WriteLoop \/ Write
             \/ WriteFails \/ CloseOut
    <3>1. \E t : Go(t)
      BY <2>3 DEF FlushNets, PutChar, StoreChar, BeginLine, SimpleFlush, WriteLoop, Write, WriteFails,
                  CloseOut, Return, ReturnError
    <3>2. QED
      BY <2>1, <3>1
  <2>4. CASE SimpleOut
    <3>1. (\E t : Go(t)) \/ (UNCHANGED <<todo, pc>> /\ todo # << >> /\ pc = "run")
      BY <2>4 DEF SimpleOut, Return, Make, Step, Executing, At
    <3>2. QED
      BY <2>1, <3>1
  <2>5. CASE \E op \in {"char", "endl", "flush", "close"} : Begin(op)
    <3>1. PICK op \in {"char", "endl", "flush", "close"} : Begin(op)
      BY <2>5
    <3>2. pc' = "run" /\ todo' = Calls(op)
      BY <3>1 DEF Begin, Executing, At
    <3>3. Calls(op) # << >>
      BY <3>1 DEF Calls
    <3>4. QED
      BY <3>2, <3>3
  <2>6. QED
    BY <2>2, <2>3, <2>4, <2>5 DEF Code
<1>4. QED
  BY <1>1, <1>2, <1>3 DEF CodeStep, Executing

-----------------------------------------------------------------------------
(* The program keeps its invariant.                                         *)

Limits == given <= MaxGiven /\ output = (fd = "open") /\ fd \in {"open", "closed", "leaked"}

Inv == FlagsInv /\ FileInv /\ CallInv /\ LossInv /\ ShieldInv /\ Limits

\* The file is left alone.
FileStays == UNCHANGED <<fileVars, outisatty>>

LEMMA FileStaysKept ==
  ASSUME FileInv, CallInv, FileStays, (todo # << >> => pc' = pc)
  PROVE  FileInv' /\ CallInv' /\ Missing' = Missing
<1>1. UNCHANGED <<written, outbuffer, outbol, nets, hadNet, output, fd, error, call, todo, rest, given,
                  outisatty>>
  BY DEF FileStays, fileVars
<1>2. Stream' = Stream /\ Awaited' = Awaited
  BY <1>1 DEF Stream, Awaited
<1>3. FileInv'
  BY <1>1, <1>2 DEF FileInv, InOrder
<1>4. Missing' = Missing
  BY <1>1, <1>2 DEF Missing
<1>5. Ending' = Ending /\ AfterNets' = AfterNets
  BY <1>1, EndingsStay
<1>6. CASE todo = << >>
  <2>1. rest = << >> /\ FlushedMeansWritten
    BY <1>6 DEF CallInv
  <2>2. todo' = << >> /\ rest' = << >>
    BY <1>1, <1>6, <2>1
  <2>3. FlushedMeansWritten'
    BY <1>1, <2>1 DEF FlushedMeansWritten
  <2>4. QED
    BY <1>3, <1>4, <2>2, <2>3 DEF CallInv
<1>7. CASE todo # << >>
  <2>1. /\ OnPut' = OnPut /\ OnNets' = OnNets /\ OnStore' = OnStore /\ OnOut' = OnOut
        /\ OnEnd' = OnEnd /\ OnClose' = OnClose
    BY <1>1, <1>5 DEF OnPut, OnNets, OnStore, OnOut, OnEnd, OnClose
  <2>2. todo' # << >> /\ pc' = pc
    BY <1>1, <1>7
  <2>3. CallInv'
    BY <1>1, <1>7, <2>1, <2>2 DEF CallInv
  <2>4. QED
    BY <1>3, <1>4, <2>3
<1>8. QED
  BY <1>3, <1>4, <1>6, <1>7

\* The program starts with an empty file.
LEMMA InvInit ==
  Init => Inv
<1> SUFFICES ASSUME Init PROVE Inv
  OBVIOUS
<1>1. FlagsInv
  BY FlagsInit DEF Init
<1>2. << >> \in Seq(Nat) /\ ToSet(<< >>) = {} /\ Increasing(<< >>) /\ Len(<< >>) = 0
  BY Single
<1>3. Types
  <2>1. PICK op \in OpNames : op = "none"
    BY DEF OpNames
  <2>2. call = [op |-> op, ok |-> TRUE]
    BY <2>1 DEF Init
  <2>3. call \in [op : OpNames, ok : BOOLEAN]
    BY ONLY <2>2
  <2>4. todo \in Seq(CallNames)
    BY DEF Init
  <2>5. QED
    BY <1>2, <2>3, <2>4 DEF Init, Types
<1>4. Kept = {} /\ Awaited = {}
  BY <1>2, AwaitedIs DEF Init, Kept, Awaits
<1>5. Parts
  BY <1>2, <1>3, <1>4, FileAssumption DEF Init, Parts, Ordered
<1>6. CallInv /\ Limits
  <2>1. todo = << >> /\ rest = << >> /\ call.op = "none"
    BY DEF Init
  <2>2. CallInv
    BY <2>1 DEF CallInv, FlushedMeansWritten
  <2>3. Limits
    <3>1. given = 0 /\ output = TRUE /\ fd = "open"
      BY DEF Init
    <3>2. given <= MaxGiven
      BY <3>1, FileAssumption
    <3>3. QED
      BY <3>1, <3>2 DEF Limits
  <2>4. QED
    BY <2>2, <2>3
<1>7. LossInv /\ ShieldInv
  <2>1. Missing = {}
    BY DEF Init, Missing
  <2>2. QED
    BY <2>1 DEF Init, InterruptInit, LossInv, ShieldInv
<1>8. QED
  BY <1>1, <1>5, <1>6, <1>7, FileParts DEF Inv

\* No error is on its way up while code runs.
LEMMA CodeRuns ==
  ASSUME FlagsInv, pc = "run"
  PROVE  ~unwinding
BY DEF FlagsInv, UnwindingInv

\* Code: what it loses an error tells of, or the interrupt that it has found.
LEMMA CodeInv ==
  ASSUME Inv, Code
  PROVE  Inv'
<1>1. /\ Parts' /\ CallInv' /\ Losses
      /\ pc' = "eval" \/ (pc' = "run" /\ todo' # << >>)
      /\ CodeStep /\ UNCHANGED reported /\ (error => error')
  BY CodeKeeps, FileParts DEF Inv
<1>2. FlagsInv'
  BY <1>1, FlagsKept DEF FlagsStep, Inv
<1>3. /\ pc = "run" /\ ~unwinding
      /\ UNCHANGED <<interruptedFlag, exceptionFlag, interruptPending, interruptShield, unwinding, straddled>>
  BY <1>1, CodeRuns DEF CodeStep, At, Same, flags, Inv
<1>4. LossInv'
  <2>1. CASE Missing' \subseteq Missing
    BY <1>1, <1>3, <2>1 DEF Inv, LossInv
  <2>2. CASE error'
    BY <1>3, <2>2 DEF LossInv
  <2>3. CASE interruptedFlag
    BY <1>1, <1>3, <2>3 DEF Inv, FlagsInv, FlagsAgree, LossInv
  <2>4. QED
    BY <1>1, <2>1, <2>2, <2>3 DEF Losses
<1>5. ShieldInv'
  <2>1. began' = began \/ began' = interruptShield
    BY DEF Code, Other, Net, FlushNets, SimpleOut, PutChar, StoreChar, BeginLine, SimpleFlush, WriteLoop,
           Write, WriteFails, CloseOut, Begin, Step
  <2>2. QED
    BY <1>1, <1>3, <2>1 DEF Inv, ShieldInv
<1>6. Limits'
  <2>1. given \in Nat /\ MaxGiven \in Nat
    BY FileAssumption DEF Inv, FileInv
  <2>2. given' <= MaxGiven
    BY <2>1 DEF Inv, Limits, Code, Other, Net, FlushNets, SimpleOut, PutChar, StoreChar, BeginLine,
                SimpleFlush, WriteLoop, Write, WriteFails, CloseOut, Begin, Step, fileVars
  <2>3. \/ UNCHANGED <<output, fd>>
        \/ output' = FALSE /\ fd' \in {"closed", "leaked"}
    BY DEF Code, Other, Net, FlushNets, SimpleOut, PutChar, StoreChar, BeginLine,
           SimpleFlush, WriteLoop, Write, WriteFails, CloseOut, Begin, fileVars
  <2>4. QED
    BY <2>2, <2>3 DEF Inv, Limits
<1>7. QED
  BY <1>1, <1>2, <1>4, <1>5, <1>6, FilePartsNext DEF Inv

\* The ends of a shield stand between two pieces of code.
LEMMA ShieldCodeInv ==
  ASSUME Inv, ShieldCode
  PROVE  Inv'
<1>1. /\ pc = "run" /\ todo = << >> /\ FileStays /\ UNCHANGED <<began, reported>>
      /\ UNCHANGED <<interruptedFlag, exceptionFlag, interruptShield, unwinding, straddled>>
      /\ pc' \in {"enter", "unshield"} /\ (pc' = "enter" => ~interruptShield)
  BY DEF ShieldCode, EnterShield, LeaveShield, At, Same, Goto, flags, FileStays
<1>2. FlagsInv'
  BY FlagsKept DEF ShieldCode, FlagsStep, Inv
<1>3. FileInv' /\ CallInv' /\ Missing' = Missing
  BY <1>1, FileStaysKept DEF Inv
<1>4. UNCHANGED <<error, given, output, fd>>
  BY <1>1 DEF FileStays, fileVars
<1>5. LossInv'
  BY <1>1, <1>3, <1>4 DEF Inv, LossInv
<1>6. ShieldInv'
  BY <1>1 DEF Inv, ShieldInv
<1>7. QED
  BY <1>2, <1>3, <1>4, <1>5, <1>6 DEF Inv, Limits

\* The evaluator answers an interrupt by an error, which tells of what is missing.
LEMMA EvaluatorInv ==
  ASSUME Inv, Evaluator, FileStays, began' = (began /\ interruptShield'),
         reported' = IF unwinding' /\ ~unwinding THEN Missing ELSE reported
  PROVE  Inv'
<1>1. pc # "run" /\ (pc' = "run" => pc = "eval")
  BY DEF Evaluator, Eval, Raise, ClearInterruptFlag, Restore, LoadFlag, StoreFlag, HandleError, Wipe, Wiped,
         BeginShield, Unshield, At, Goto
<1>2. FlagsInv'
  BY FlagsKept DEF FlagsStep, Inv
<1>3. todo = << >>
  BY <1>1 DEF Inv, CallInv
<1>4. FileInv' /\ CallInv' /\ Missing' = Missing
  BY <1>3, FileStaysKept DEF Inv
<1>5. UNCHANGED <<error, given, output, fd, todo>>
  BY DEF FileStays, fileVars
<1>6. FlagTypesOK
  BY FlagTypes DEF Inv, FlagsInv
<1>7. LossInv'
  <2> USE <1>3, <1>4, <1>5 DEF LossInv, At, Goto, Same, flags
  <2> LossInv /\ UnwindingInv
    BY DEF Inv, FlagsInv
  <2>1. CASE Eval
    BY <2>1 DEF Eval
  <2>2. CASE Raise
    BY <2>2 DEF Raise, UnwindingInv
  <2>3. CASE ClearInterruptFlag \/ Restore \/ LoadFlag \/ StoreFlag \/ HandleError \/ Wipe \/ BeginShield
    BY <2>3 DEF ClearInterruptFlag, Restore, LoadFlag, StoreFlag, HandleError, Wipe, BeginShield
  <2>4. CASE Unshield
    <3>1. pc = "unshield" /\ UNCHANGED <<interruptedFlag, exceptionFlag, unwinding, straddled>>
      BY <2>4 DEF Unshield
    <3>2. QED
      BY <3>1
  <2>5. CASE Wiped
    <3>1. unwinding /\ (unwinding' => unwinding)
      BY <2>5 DEF Wiped, UnwindingInv
    <3>2. QED
      BY <3>1
  <2>6. QED
    BY <2>1, <2>2, <2>3, <2>4, <2>5 DEF Evaluator
<1>8. ShieldInv'
  <2> USE <1>6 DEF ShieldInv, At, Goto, Same, flags, FlagTypesOK
  <2> ShieldInv /\ UnwindingInv /\ FlagsAgree
    BY DEF Inv, FlagsInv
  <2>1. CASE Eval
    BY <2>1 DEF Eval, FlagsAgree
  <2>2. CASE Raise
    BY <2>2 DEF Raise
  <2>3. CASE ClearInterruptFlag \/ HandleError \/ Wipe
    BY <2>3 DEF ClearInterruptFlag, HandleError, Wipe, UnwindingInv
  <2>4. CASE Restore \/ LoadFlag \/ StoreFlag
    BY <2>4 DEF Restore, LoadFlag, StoreFlag
  <2>5. CASE BeginShield
    BY <2>5 DEF BeginShield
  <2>6. CASE Unshield
    BY <2>6 DEF Unshield
  <2>7. CASE Wiped
    <3>1. interruptShield' = interruptShield /\ pc' \in {"error", "unshield", "eval"}
          /\ (interruptShield' => unwinding')
      BY <2>7 DEF Wiped
    <3>2. QED
      BY <3>1
  <2>8. QED
    BY <2>1, <2>2, <2>3, <2>4, <2>5, <2>6, <2>7 DEF Evaluator
<1>9. QED
  BY <1>2, <1>4, <1>5, <1>7, <1>8 DEF Inv, Limits

\* A signal takes nothing away, and in a shield it raises no flag.
LEMMA SignalInv ==
  ASSUME Inv, Interrupt, FileStays, UNCHANGED <<began, reported>>
  PROVE  Inv'
<1>1. /\ UNCHANGED <<interruptShield, pc, unwinding>> /\ ~interruptedFlag
      /\ (interruptShield => UNCHANGED <<interruptedFlag, exceptionFlag>>)
      /\ (straddled => straddled')
  BY DEF Interrupt, Signal
<1>2. FlagsInv'
  BY FlagsKept DEF FlagsStep, Inv
<1>3. FileInv' /\ CallInv' /\ Missing' = Missing
  BY <1>1, FileStaysKept DEF Inv
<1>4. UNCHANGED <<error, given, output, fd, todo>>
  BY DEF FileStays, fileVars
<1>5. LossInv'
  BY <1>1, <1>3, <1>4 DEF Inv, LossInv
<1>6. ShieldInv'
  BY <1>1 DEF Inv, ShieldInv
<1>7. QED
  BY <1>2, <1>3, <1>4, <1>5, <1>6 DEF Inv, Limits

LEMMA InvNext ==
  ASSUME Inv, [Next]_vars
  PROVE  Inv'
<1>1. CASE UNCHANGED vars
  <2>1. FileStays /\ UNCHANGED <<began, reported>> /\ UNCHANGED interruptVars
    BY <1>1 DEF vars, FileStays
  <2>2. UNCHANGED <<interruptedFlag, exceptionFlag, interruptShield, pc, unwinding, straddled>>
    BY <2>1 DEF interruptVars, flags
  <2>3. UNCHANGED <<error, given, output, fd, todo>>
    BY <2>1 DEF FileStays, fileVars
  <2>4. FlagsInv'
    BY <2>1, FlagsKept DEF FlagsStep, Inv
  <2>5. FileInv' /\ CallInv' /\ Missing' = Missing
    BY <2>1, <2>2, FileStaysKept DEF Inv
  <2>6. LossInv' /\ ShieldInv'
    BY <2>1, <2>2, <2>3, <2>5 DEF Inv, LossInv, ShieldInv
  <2>7. QED
    BY <2>3, <2>4, <2>5, <2>6 DEF Inv, Limits
<1>2. CASE Code
  BY <1>2, CodeInv
<1>3. CASE ShieldCode
  BY <1>3, ShieldCodeInv
<1>4. CASE /\ Evaluator /\ UNCHANGED <<fileVars, outisatty>>
           /\ began' = (began /\ interruptShield')
           /\ reported' = IF unwinding' /\ ~unwinding THEN Missing ELSE reported
  BY <1>4, EvaluatorInv DEF FileStays
<1>5. CASE Interrupt /\ UNCHANGED <<fileVars, outisatty, began, reported>>
  <2>1. FileStays /\ UNCHANGED <<began, reported>>
    BY <1>5 DEF FileStays
  <2>2. QED
    BY <1>5, <2>1, SignalInv
<1>6. QED
  BY <1>1, <1>2, <1>3, <1>4, <1>5 DEF Next, Thread

\* The invariant holds in every state of every run, for every number of signals and of levels of
\* eval, every length of the buffer and every number of characters.
THEOREM OutputInvariant ==
  Spec => []Inv
<1>1. Inv /\ UNCHANGED vars => Inv'
  BY InvNext
<1>2. QED
  BY InvInit, InvNext, PTL DEF Spec

\* The flags of the interrupts and those of the file tell the truth in every moment: no flag is
\* up without an interrupt that is still to be answered (clearAllFlags, shieldfun), and the line
\* of the buffer begins where the buffer has it (simpleflush).
THEOREM FlagsAlwaysTruthful ==
  Spec => []FlagsTruthful
<1>1. Inv => FlagsTruthful
  <2> SUFFICES ASSUME Inv PROVE FlagsTruthful
    OBVIOUS
  <2>1. FlagsOK /\ OnlyOwed
    BY DEF Inv, FlagsInv, OwedInv
  <2>2. given \in 0 .. MaxGiven
    BY FileAssumption DEF Inv, FileInv, Limits
  <2>3. QED
    BY <2>1, <2>2 DEF Inv, FileInv, Limits, FlagsTruthful, TypeOK
<1>2. QED
  BY <1>1, OutputInvariant, PTL

\* What was given to the file reaches it in order and once, no character is lost of which no
\* error tells, and a flush or close that comes back without error has written everything.
THEOREM OutputAlwaysKept ==
  Spec => []OutputKept
<1>1. Inv => OutputKept
  <2> SUFFICES ASSUME Inv PROVE OutputKept
    OBVIOUS
  <2>1. InOrder
    BY DEF Inv, FileInv
  <2>2. NothingLostQuietly
    BY DEF Inv, LossInv, NothingLostQuietly
  <2>3. FlushedMeansWritten
    BY DEF Inv, CallInv, FlushedMeansWritten
  <2>4. QED
    BY <2>1, <2>2, <2>3 DEF OutputKept
<1>2. QED
  BY <1>1, OutputInvariant, PTL

\* While code runs in a shield, no interrupt takes output from it or ends it: the signal is put
\* off (shieldfun), and the exceptions are a write that failed and a signal that came as the
\* flags were being put back.
THEOREM ShieldAlwaysKeeps ==
  Spec => ShieldKeeps
<1> DEFINE Safe == began /\ interruptShield /\ ~unwinding /\ ~straddled /\ ~straddled'
                     => (Missing' \subseteq Missing \/ error') /\ ~unwinding'
<1>1. ASSUME Inv, Next PROVE Safe
  <2> SUFFICES ASSUME began, interruptShield, ~unwinding, ~straddled
               PROVE  (Missing' \subseteq Missing \/ error') /\ ~unwinding'
    OBVIOUS
  <2>1. pc \in {"eval", "run", "unshield"} /\ ~interruptedFlag /\ ~exceptionFlag
    BY <1>1 DEF Inv, ShieldInv
  <2>2. CASE Code
    <3>1. Losses /\ CodeStep
      BY <1>1, <2>2, CodeKeeps, FileParts DEF Inv
    <3>2. QED
      BY <2>1, <3>1 DEF Losses, CodeStep, Same
  <2>3. ASSUME FileStays PROVE Missing' = Missing
    BY <2>3 DEF FileStays, fileVars, Missing, Stream, Awaited
  <2>4. CASE ShieldCode
    <3>1. FileStays /\ unwinding' = unwinding
      BY <2>4 DEF ShieldCode, EnterShield, LeaveShield, Same, FileStays
    <3>2. QED
      BY <2>3, <3>1
  <2>5. CASE Evaluator /\ FileStays
    <3>1. Eval \/ Unshield
      BY <2>1, <2>5 DEF Evaluator, Raise, ClearInterruptFlag, Restore, LoadFlag, StoreFlag, HandleError, Wipe,
                        Wiped, BeginShield, At
    <3>2. unwinding' = unwinding
      BY <3>1 DEF Eval, Unshield, Same
    <3>3. QED
      BY <2>3, <2>5, <3>2
  <2>6. CASE Interrupt /\ FileStays
    BY <2>3, <2>6 DEF Interrupt
  <2>7. QED
    BY <1>1, <2>2, <2>4, <2>5, <2>6 DEF Next, Thread, FileStays
<1>2. ASSUME Inv, [Next]_vars PROVE [Safe]_vars
  BY <1>1, <1>2
<1>3. QED
  BY <1>2, OutputInvariant, PTL DEF Spec, ShieldKeeps
=============================================================================
