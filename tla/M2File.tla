------------------------------- MODULE M2File -------------------------------
(***************************************************************************)
(* The lock of a file that several threads write to or read from:          *)
(* src/M2/Macaulay2/system/m2file.cpp and m2file.hpp.  A file is in one of *)
(* three modes.  Unsynchronized: nothing is locked.  Synchronized: the     *)
(* state of the output is held, recursively, by one thread between         *)
(* GetState and ReleaseState.  Exclusive: each thread has a state of its   *)
(* own, and only the exclusive owner gets past StartOutput or StartInput.  *)
(*                                                                         *)
(* The callers are the functions of d/stdio.d, which bracket what they do  *)
(* with GetState ... ReleaseState and Start ... End, properly nested, and  *)
(* setIOSynchronized, setIOExclusive and setIOUnSynchronized, which an     *)
(* interpreter thread calls outside of all brackets.                       *)
(*                                                                         *)
(* The mode is a plain int.  SetThreadMode writes it without the mutex,    *)
(* and every other function reads it without the mutex or more than once:  *)
(* each of these reads is a step of its own.                               *)
(***************************************************************************)
EXTENDS Integers, Sequences, FiniteSets

CONSTANTS
  Threads,
  InitialMode,     \* mode of the file when the threads begin to use it
  InitialOwner,    \* the thread that chose the exclusive mode, if it is that
  MaxDepth,        \* bound on the nesting of brackets
  MaxCalls,        \* bound on the brackets each thread opens
  Disciplines,     \* how callers change the mode: which changes they make while the file is
                   \* in use, to which modes they change it, and a bound on how often
  SizeModulus,     \* 2^w for the width w of size_t
  NoThread         \* pthread_t 0

Modes == {0, 1, 2}
Unsynchronized == 0
Synchronized   == 1
Exclusive      == 2

ASSUME ConstantsAssumption ==
  /\ InitialMode \in Modes
  /\ InitialOwner \in Threads \cup {NoThread}
  /\ InitialMode = Exclusive <=> InitialOwner # NoThread
  /\ MaxDepth \in Nat /\ MaxCalls \in Nat
  /\ Disciplines \subseteq [inUse : SUBSET (Modes \X Modes), modes : SUBSET Modes, switches : Nat]
  /\ SizeModulus \in Nat /\ SizeModulus > MaxDepth
  /\ NoThread \notin Threads

VARIABLES
  currentThreadMode,
  threadStates,            \* the threads that have a state of their own
  m_MapMutex,              \* its owner between steps
  exclusiveOwner,
  recurseCount,            \* size_t
  exclusiveRecurseCount,   \* size_t
  pc,                      \* where each thread is
  held,                    \* the brackets each thread has opened, innermost last
  change,                  \* the mode that each thread found in its SetThreadMode, and the new one
  discipline,              \* the one of Disciplines that the callers keep
  calls,                   \* brackets each thread may still open
  switches,                \* calls of SetThreadMode still allowed
  aborted                  \* ReleaseState has called abort()

file   == <<currentThreadMode, threadStates, m_MapMutex, exclusiveOwner, recurseCount,
            exclusiveRecurseCount>>
bounds == <<change, discipline, calls, switches>>
vars   == <<file, pc, held, bounds, aborted>>

Labels ==
  {"idle", "getSecond", "getThird", "getMap",
   "acquire", "acquireOwner", "acquireSelf", "acquireSleep", "acquireWait",
   "releaseSecond", "releaseThird", "releaseCount", "releaseMap", "start", "end",
   "startExclusive", "endExclusive", "ownerLast", "startLeave", "endLeave",
   "startSleep", "endSleep", "startWait", "endWait",
   "leaveExclusive", "testOwner", "dropOwner", "broadcast", "setOwner", "writeMode"}

\* GetState ... ReleaseState, and StartOutput ... EndOutput or StartInput ... EndInput.
Kinds == {"state", "io"}

Init ==
  /\ currentThreadMode = InitialMode
  /\ threadStates = {}
  /\ m_MapMutex = NoThread
  /\ exclusiveOwner = InitialOwner
  /\ recurseCount = 0
  /\ exclusiveRecurseCount = 0
  /\ pc = [t \in Threads |-> "idle"]
  /\ held = [t \in Threads |-> <<>>]
  /\ change = [t \in Threads |-> <<InitialMode, InitialMode>>]
  /\ calls = [t \in Threads |-> MaxCalls]
  /\ discipline \in Disciplines /\ switches = discipline.switches
  /\ aborted = FALSE

-----------------------------------------------------------------------------
At(t, label)  == pc[t] = label /\ ~aborted
Go(t, label)  == pc' = [pc EXCEPT ![t] = label]
MapMutexFree  == m_MapMutex = NoThread
Open(t, kind) == held' = [held EXCEPT ![t] = Append(@, kind)]
Close(t)      == held' = [held EXCEPT ![t] = SubSeq(@, 1, Len(@) - 1)]
Innermost(t, kind) == held[t] # <<>> /\ held[t][Len(held[t])] = kind

\* pthread_cond_broadcast(&exclusiveChangeCondition), as t goes to label.
BroadcastAndGo(t, label) ==
  pc' = [u \in Threads |->
           IF u = t THEN label
           ELSE CASE pc[u] = "acquireWait" -> "acquire"
                  [] pc[u] = "startWait"   -> "startExclusive"
                  [] pc[u] = "endWait"     -> "endExclusive"
                  [] OTHER                 -> pc[u]]

Switching(t) ==
  pc[t] \in {"leaveExclusive", "testOwner", "dropOwner", "broadcast", "setOwner", "writeMode"}

\* A change of the mode that the callers do not make while the file is in use excludes
\* everything else.
InUse(c)     == c \in discipline.inUse
MayUse(t)    == At(t, "idle") /\ \A u \in Threads : Switching(u) => InUse(change[u])
MaySwitch(t, c) ==
  /\ MayUse(t) /\ held[t] = <<>>
  /\ ~InUse(c) => \A u \in Threads : pc[u] = "idle" /\ held[u] = <<>>

\* t opens a bracket: the bounds.
Opens(t) ==
  /\ MayUse(t)
  /\ calls[t] > 0
  /\ Len(held[t]) < MaxDepth
  /\ calls' = [calls EXCEPT ![t] = @ - 1]
  /\ UNCHANGED <<file, change, discipline, switches, aborted>>

-----------------------------------------------------------------------------
(* M2File_GetState.  The mode is read up to three times. *)

GetState(t) ==
  /\ Opens(t)
  /\ IF currentThreadMode = Unsynchronized THEN Open(t, "state") /\ UNCHANGED pc
                                           ELSE Go(t, "getSecond") /\ UNCHANGED held

GetSecond(t) ==
  /\ At(t, "getSecond")
  /\ Go(t, IF currentThreadMode = Synchronized THEN "acquire" ELSE "getThird")
  /\ UNCHANGED <<file, held, bounds, aborted>>

\* When no test holds, the function ends without a return value, which is undefined: some
\* pointer is returned, or the compiler has left the last test out.
GetThird(t) ==
  /\ At(t, "getThird")
  /\ \/ Go(t, "getMap") /\ UNCHANGED held
     \/ currentThreadMode # Exclusive /\ Go(t, "idle") /\ Open(t, "state")
  /\ UNCHANGED <<file, bounds, aborted>>

\* Exclusive mode: the thread's own state, found or created.
GetOwnState(t) ==
  /\ At(t, "getMap") /\ MapMutexFree
  /\ threadStates' = threadStates \cup {t}
  /\ Go(t, "idle") /\ Open(t, "state")
  /\ UNCHANGED <<currentThreadMode, m_MapMutex, exclusiveOwner, recurseCount,
                 exclusiveRecurseCount, bounds, aborted>>

\* waitExclusiveThreadAcquire(1).  SetThreadMode may drop the owner at any moment, so that
\* each of the three tests is a step, with the mutex held.
Acquire(t) ==
  /\ At(t, "acquire") /\ MapMutexFree
  /\ m_MapMutex' = t
  /\ Go(t, IF exclusiveRecurseCount # 0 /\ exclusiveOwner # t THEN "acquireSleep"
           ELSE "acquireOwner")
  /\ UNCHANGED <<currentThreadMode, threadStates, exclusiveOwner, recurseCount,
                 exclusiveRecurseCount, held, bounds, aborted>>

\* Mutant: a thread takes the state whoever owns it.
AlwaysUnowned == TRUE

Unowned == exclusiveOwner = NoThread

TakeOwner(t) ==
  /\ At(t, "acquireOwner")
  /\ IF Unowned
       THEN /\ exclusiveOwner' = t /\ recurseCount' = 1
            /\ m_MapMutex' = NoThread
            /\ BroadcastAndGo(t, "idle") /\ Open(t, "state")
       ELSE /\ Go(t, "acquireSelf")
            /\ UNCHANGED <<m_MapMutex, exclusiveOwner, recurseCount, held>>
  /\ UNCHANGED <<currentThreadMode, threadStates, exclusiveRecurseCount, bounds, aborted>>

CountOwner(t) ==
  /\ At(t, "acquireSelf")
  /\ IF exclusiveOwner = t
       THEN /\ recurseCount' = (recurseCount + 1) % SizeModulus
            /\ m_MapMutex' = NoThread
            /\ Go(t, "idle") /\ Open(t, "state")
       ELSE Go(t, "acquireSleep") /\ UNCHANGED <<m_MapMutex, recurseCount, held>>
  /\ UNCHANGED <<currentThreadMode, threadStates, exclusiveOwner, exclusiveRecurseCount, bounds,
                 aborted>>

\* pthread_cond_wait(&exclusiveChangeCondition, &m_MapMutex.m_Mutex).
Sleep(t) ==
  /\ \/ At(t, "acquireSleep") /\ Go(t, "acquireWait")
     \/ At(t, "startSleep") /\ Go(t, "startWait")
     \/ At(t, "endSleep") /\ Go(t, "endWait")
  /\ m_MapMutex' = NoThread
  /\ UNCHANGED <<currentThreadMode, threadStates, exclusiveOwner, recurseCount,
                 exclusiveRecurseCount, held, bounds, aborted>>

(* M2File_ReleaseState.  The mode is read again, up to three times. *)

ReleaseState(t) ==
  /\ MayUse(t) /\ Innermost(t, "state")
  /\ IF currentThreadMode = Unsynchronized THEN Close(t) /\ UNCHANGED pc
                                           ELSE Go(t, "releaseSecond") /\ UNCHANGED held
  /\ UNCHANGED <<file, bounds, aborted>>

ReleaseSecond(t) ==
  /\ At(t, "releaseSecond")
  /\ Go(t, IF currentThreadMode = Synchronized THEN "releaseCount" ELSE "releaseThird")
  /\ UNCHANGED <<file, held, bounds, aborted>>

ReleaseThird(t) ==
  /\ At(t, "releaseThird")
  /\ IF currentThreadMode = Exclusive THEN Go(t, "releaseMap") /\ UNCHANGED held
                                      ELSE Go(t, "idle") /\ Close(t)
  /\ UNCHANGED <<file, bounds, aborted>>

\* Mutant: the first release frees the state, whatever the depth.
ReleaseAll(t) ==
  /\ At(t, "releaseCount") /\ MapMutexFree
  /\ recurseCount' = (recurseCount - 1) % SizeModulus
  /\ exclusiveOwner' = NoThread /\ BroadcastAndGo(t, "idle")
  /\ Close(t)
  /\ UNCHANGED <<currentThreadMode, threadStates, m_MapMutex, exclusiveRecurseCount, bounds,
                 aborted>>

\* Mutant: the last release does not broadcast.
ReleaseSilently(t) ==
  /\ At(t, "releaseCount") /\ MapMutexFree
  /\ recurseCount' = (recurseCount - 1) % SizeModulus
  /\ exclusiveOwner' = IF recurseCount' = 0 THEN NoThread ELSE exclusiveOwner
  /\ Go(t, "idle") /\ Close(t)
  /\ UNCHANGED <<currentThreadMode, threadStates, m_MapMutex, exclusiveRecurseCount, bounds,
                 aborted>>

\* releaseExclusiveThreadCount(1).
ReleaseCount(t) ==
  /\ At(t, "releaseCount") /\ MapMutexFree
  /\ recurseCount' = (recurseCount - 1) % SizeModulus
  /\ IF recurseCount' = 0
       THEN exclusiveOwner' = NoThread /\ BroadcastAndGo(t, "idle")
       ELSE UNCHANGED exclusiveOwner /\ Go(t, "idle")
  /\ Close(t)
  /\ UNCHANGED <<currentThreadMode, threadStates, m_MapMutex, exclusiveRecurseCount, bounds,
                 aborted>>

\* Exclusive mode: a thread that has no state of its own aborts the program.
ReleaseOwnState(t) ==
  /\ At(t, "releaseMap") /\ MapMutexFree
  /\ IF t \in threadStates
       THEN /\ recurseCount' = (recurseCount - 1) % SizeModulus
            /\ Go(t, "idle") /\ Close(t)
            /\ UNCHANGED aborted
       ELSE aborted' = TRUE /\ UNCHANGED <<recurseCount, pc, held>>
  /\ UNCHANGED <<currentThreadMode, threadStates, m_MapMutex, exclusiveOwner,
                 exclusiveRecurseCount, bounds>>

-----------------------------------------------------------------------------
(* M2File_StartOutput and StartInput, EndOutput and EndInput: the mode and  *)
(* then exclusiveRecurseCount are read without a lock.                      *)

Start(t) ==
  /\ Opens(t)
  /\ Go(t, IF currentThreadMode = Exclusive THEN "startExclusive" ELSE "start")
  /\ UNCHANGED held

End(t) ==
  /\ MayUse(t) /\ Innermost(t, "io")
  /\ Go(t, IF currentThreadMode = Exclusive THEN "endExclusive" ELSE "end")
  /\ UNCHANGED <<file, held, bounds, aborted>>

TestRecurse(t) ==
  /\ \/ /\ At(t, "start")
        /\ IF exclusiveRecurseCount = 0 THEN Go(t, "idle") /\ Open(t, "io")
                                        ELSE Go(t, "startExclusive") /\ UNCHANGED held
     \/ /\ At(t, "end")
        /\ IF exclusiveRecurseCount = 0 THEN Go(t, "idle") /\ Close(t)
                                        ELSE Go(t, "endExclusive") /\ UNCHANGED held
  /\ UNCHANGED <<file, bounds, aborted>>

\* What waitExclusiveThread does for the bracket of t.
Bracket(t, label) ==
  IF label \in {"startExclusive", "startLeave"} THEN Open(t, "io") ELSE Close(t)

IsOwner(t) == exclusiveOwner = t

\* waitExclusiveThread by the owner: count, and broadcast when nothing is left.
OwnerPasses(t, label, delta) ==
  /\ At(t, label) /\ MapMutexFree
  /\ IsOwner(t)
  /\ exclusiveRecurseCount' = (exclusiveRecurseCount + delta) % SizeModulus
  /\ IF exclusiveRecurseCount' = 0 THEN m_MapMutex' = t /\ BroadcastAndGo(t, "ownerLast")
                                   ELSE Go(t, "idle") /\ UNCHANGED m_MapMutex
  /\ Bracket(t, label)
  /\ UNCHANGED <<currentThreadMode, threadStates, exclusiveOwner, recurseCount, bounds, aborted>>

\* Then the owner gives up the file, if the mode is no longer exclusive.
OwnerLeaves(t) ==
  /\ At(t, "ownerLast")
  /\ exclusiveOwner' = IF currentThreadMode # Exclusive THEN NoThread ELSE exclusiveOwner
  /\ m_MapMutex' = NoThread
  /\ Go(t, "idle")
  /\ UNCHANGED <<currentThreadMode, threadStates, recurseCount, exclusiveRecurseCount, held, bounds,
                 aborted>>

\* waitExclusiveThread by another thread, the mode no longer exclusive.
OtherLeaves(t, label, leave) ==
  /\ At(t, label) /\ MapMutexFree
  /\ ~IsOwner(t)
  /\ currentThreadMode # Exclusive
  /\ m_MapMutex' = t
  /\ Go(t, leave)
  /\ UNCHANGED <<currentThreadMode, threadStates, exclusiveOwner, recurseCount,
                 exclusiveRecurseCount, held, bounds, aborted>>

\* Mutant: the mutex is not unlocked in the synchronized mode either.
OtherPassesLocked(t, leave) ==
  /\ At(t, leave)
  /\ Go(t, "idle") /\ Bracket(t, leave)
  /\ UNCHANGED <<file, bounds, aborted>>

\* The mode is read again, and m_MapMutex unlocked only if it is synchronized.
OtherPasses(t, leave) ==
  /\ At(t, leave)
  /\ m_MapMutex' = IF currentThreadMode = Synchronized THEN NoThread ELSE m_MapMutex
  /\ Go(t, "idle") /\ Bracket(t, leave)
  /\ UNCHANGED <<currentThreadMode, threadStates, exclusiveOwner, recurseCount,
                 exclusiveRecurseCount, bounds, aborted>>

OtherWaits(t, label, sleep) ==
  /\ At(t, label) /\ MapMutexFree
  /\ ~IsOwner(t)
  /\ currentThreadMode = Exclusive
  /\ m_MapMutex' = t
  /\ Go(t, sleep)
  /\ UNCHANGED <<currentThreadMode, threadStates, exclusiveOwner, recurseCount,
                 exclusiveRecurseCount, held, bounds, aborted>>

WaitExclusiveThread(t) ==
  \/ OwnerPasses(t, "startExclusive", 1) \/ OwnerPasses(t, "endExclusive", -1)
  \/ OwnerLeaves(t)
  \/ OtherLeaves(t, "startExclusive", "startLeave") \/ OtherLeaves(t, "endExclusive", "endLeave")
  \/ OtherPasses(t, "startLeave") \/ OtherPasses(t, "endLeave")
  \/ OtherWaits(t, "startExclusive", "startSleep") \/ OtherWaits(t, "endExclusive", "endSleep")

-----------------------------------------------------------------------------
(* M2File_SetThreadMode: no step but setExclusiveOwner takes the mutex. *)

NewMode(t) == change[t][2]

SetThreadMode(t) ==
  /\ switches > 0
  /\ switches' = switches - 1
  /\ \E m \in discipline.modes :
       /\ MaySwitch(t, <<currentThreadMode, m>>)
       /\ change' = [change EXCEPT ![t] = <<currentThreadMode, m>>]
       /\ Go(t, IF currentThreadMode = Exclusive THEN "leaveExclusive"
                ELSE IF m = Exclusive THEN "setOwner" ELSE "writeMode")
  /\ UNCHANGED <<file, held, discipline, calls, aborted>>

LeaveExclusive(t) ==
  /\ At(t, "leaveExclusive")
  /\ currentThreadMode' = NewMode(t)
  /\ Go(t, IF NewMode(t) = Exclusive THEN "idle" ELSE "testOwner")
  /\ UNCHANGED <<threadStates, m_MapMutex, exclusiveOwner, recurseCount, exclusiveRecurseCount,
                 held, bounds, aborted>>

\* The test and the assignment that follows are not one step: the owner may go
\* through StartOutput between them.
TestOwner(t) ==
  /\ At(t, "testOwner")
  /\ Go(t, IF exclusiveRecurseCount = 0 THEN "dropOwner" ELSE "broadcast")
  /\ UNCHANGED <<file, held, bounds, aborted>>

DropOwner(t) ==
  /\ At(t, "dropOwner")
  /\ exclusiveOwner' = NoThread
  /\ Go(t, "broadcast")
  /\ UNCHANGED <<currentThreadMode, threadStates, m_MapMutex, recurseCount, exclusiveRecurseCount,
                 held, bounds, aborted>>

Broadcast(t) ==
  /\ At(t, "broadcast")
  /\ BroadcastAndGo(t, "idle")
  /\ UNCHANGED <<file, held, bounds, aborted>>

\* setExclusiveOwner(pthread_self(), 0).
SetExclusiveOwner(t) ==
  /\ At(t, "setOwner") /\ MapMutexFree
  /\ recurseCount' = 0
  /\ exclusiveOwner' = t
  /\ BroadcastAndGo(t, "writeMode")
  /\ UNCHANGED <<currentThreadMode, threadStates, m_MapMutex, exclusiveRecurseCount, held, bounds,
                 aborted>>

WriteMode(t) ==
  /\ At(t, "writeMode")
  /\ currentThreadMode' = NewMode(t)
  /\ Go(t, "idle")
  /\ UNCHANGED <<threadStates, m_MapMutex, exclusiveOwner, recurseCount, exclusiveRecurseCount,
                 held, bounds, aborted>>

-----------------------------------------------------------------------------
\* What a thread does once it is in a call, and its closing of brackets.
Proceed(t) ==
  \/ GetSecond(t) \/ GetThird(t) \/ GetOwnState(t)
  \/ Acquire(t) \/ TakeOwner(t) \/ CountOwner(t) \/ Sleep(t)
  \/ ReleaseState(t) \/ ReleaseSecond(t) \/ ReleaseThird(t) \/ ReleaseCount(t) \/ ReleaseOwnState(t)
  \/ End(t) \/ TestRecurse(t) \/ WaitExclusiveThread(t)
  \/ LeaveExclusive(t) \/ TestOwner(t) \/ DropOwner(t) \/ Broadcast(t)
  \/ SetExclusiveOwner(t) \/ WriteMode(t)

Next == \E t \in Threads : Proceed(t) \/ GetState(t) \/ Start(t) \/ SetThreadMode(t)

Spec == Init /\ [][Next]_vars

\* The functions of stdio.d close what they open; calls are finitely many, so weak
\* fairness is enough for a thread that waits for the mutex.
FairSpec == Spec /\ \A t \in Threads : WF_vars(Proceed(t))

-----------------------------------------------------------------------------
(* Properties. *)

TypeOK ==
  /\ currentThreadMode \in Modes
  /\ threadStates \subseteq Threads
  /\ m_MapMutex \in Threads \cup {NoThread}
  /\ exclusiveOwner \in Threads \cup {NoThread}
  /\ recurseCount \in 0 .. SizeModulus - 1
  /\ exclusiveRecurseCount \in 0 .. SizeModulus - 1
  /\ pc \in [Threads -> Labels]
  /\ held \in [Threads -> Seq(Kinds)]
  /\ change \in [Threads -> Modes \X Modes]
  /\ discipline \in Disciplines
  /\ calls \in [Threads -> Nat]
  /\ switches \in Nat
  /\ aborted \in BOOLEAN

Holds(t, kind) == \E i \in DOMAIN held[t] : held[t][i] = kind
Depth(t, kind) == Cardinality({i \in DOMAIN held[t] : held[t][i] = kind})

\* Callers change the mode only while nobody uses the file.
QuietCallers == discipline.inUse = {}
Quiet        == QuietCallers /\ \A t \in Threads : ~Switching(t)

\* Into and out of the exclusive mode, that is.
ExclusiveQuiet == \A c \in discipline.inUse : Exclusive \notin {c[1], c[2]}

\* In use the exclusive mode is only left for the synchronized one, and no other mode is used.
HandsOver ==
  /\ discipline.inUse \subseteq {<<Exclusive, Synchronized>>}
  /\ Unsynchronized \notin discipline.modes \cup {InitialMode}

\* In the synchronized mode at most one thread has the state of the output: two
\* threads do not mix the lines and nets they write (M2File_GetState).
OneHolder ==
  currentThreadMode = Synchronized /\ Quiet =>
    \A t, u \in Threads : Holds(t, "state") /\ Holds(u, "state") => t = u

\* recurseCount is how often the owner has the state, so that the owner loses it
\* with its last ReleaseState and not before (releaseExclusiveThreadCount).
RecurseCountTruthful ==
  currentThreadMode = Synchronized /\ Quiet =>
    /\ exclusiveOwner = NoThread => \A t \in Threads : ~Holds(t, "state")
    /\ exclusiveOwner # NoThread => recurseCount = Depth(exclusiveOwner, "state")

\* In the exclusive mode only the owner is between StartOutput and EndOutput, as
\* often as exclusiveRecurseCount says (waitExclusiveThread).
OwnerAlone ==
  currentThreadMode = Exclusive /\ ExclusiveQuiet /\ (\A t \in Threads : ~Switching(t)) =>
    /\ \A t \in Threads : Holds(t, "io") => t = exclusiveOwner
    /\ exclusiveOwner # NoThread => exclusiveRecurseCount = Depth(exclusiveOwner, "io")

\* Where a thread has m_MapMutex locked between two steps.
Locking == {"acquireOwner", "acquireSelf", "acquireSleep", "ownerLast", "startLeave", "endLeave",
            "startSleep", "endSleep"}

\* No call returns with m_MapMutex locked, where the exclusive mode is entered and left only
\* while nobody uses the file, or where a thread hands the file over from the exclusive mode
\* to the synchronized one at any moment: waitExclusiveThread, whose last return (:55) does not
\* unlock, comes to it only if it finds the unsynchronized mode, or finds another mode at its
\* second read (:50) than at its first (:48).
MapMutexReleased ==
  (ExclusiveQuiet \/ HandsOver) /\ m_MapMutex # NoThread =>
    pc[m_MapMutex] \in Locking

\* Callers do not enter the exclusive mode while the file is in use; they may leave it.
EntersQuietly == \A c \in discipline.inUse : c[2] # Exclusive

\* A thread that releases the state in the exclusive mode has a state of its own, however the
\* mode has changed since its GetState: ReleaseState does not abort (:212-213, "this shouldn't
\* happen").
NeverAborts == EntersQuietly => ~aborted

\* One thread at a time has a file: the holder of its state, and its exclusive owner.
OneAtATime == OneHolder /\ OwnerAlone

\* The lock of a file does not fail its users: no mutex is left locked, and no release aborts
\* (waitExclusiveThread, M2File_ReleaseState).
LockSound == TypeOK /\ MapMutexReleased /\ NeverAborts

\* Every call of GetState in the synchronized mode returns: the last ReleaseState
\* of the owner wakes a thread that waits (releaseExclusiveThreadCount).
GetStateReturns ==
  \A t \in Threads : QuietCallers /\ pc[t] = "getSecond" ~> pc[t] = "idle"

-----------------------------------------------------------------------------
(* The inductive invariants of the proofs (M2FileProofs).                   *)

Opening == {"getSecond", "getThird", "getMap",
            "acquire", "acquireOwner", "acquireSelf", "acquireSleep", "acquireWait",
            "start", "startExclusive", "startLeave", "startSleep", "startWait"}

Releasing == {"releaseSecond", "releaseThird", "releaseCount", "releaseMap"}

Ending == {"end", "endExclusive", "endLeave", "endSleep", "endWait"}

\* A thread that opens a bracket has room for it, and one that closes a bracket has it open.
BracketsOf(t) ==
  /\ Len(held[t]) <= MaxDepth
  /\ pc[t] \in Opening => Len(held[t]) < MaxDepth
  /\ pc[t] \in Releasing => Innermost(t, "state")
  /\ pc[t] \in Ending => Innermost(t, "io")
  /\ Switching(t) => held[t] = <<>> /\ NewMode(t) \in discipline.modes

BracketsInv == \A t \in Threads : BracketsOf(t)

\* Thread t changes the mode in a way that its callers do not while the file is in use:
\* nobody else uses it.
Excluding(t) == Switching(t) /\ ~InUse(change[t])

AloneInv ==
  \A t, u \in Threads : Excluding(t) /\ u # t => pc[u] = "idle" /\ held[u] = <<>>

\* Where threads are in the calls that each mode leads to, and where they are in whatever
\* mode but the exclusive one, when the mode changes among the others.
ExclusiveLabels ==
  {"idle", "getSecond", "getThird", "getMap", "releaseSecond", "releaseThird", "releaseMap",
   "startExclusive", "startSleep", "startWait", "endExclusive", "endSleep", "endWait", "ownerLast"}
SynchronizedLabels ==
  {"idle", "getSecond", "acquire", "acquireOwner", "acquireSelf", "acquireSleep", "acquireWait",
   "releaseSecond", "releaseCount", "start", "end"}
UnsynchronizedLabels == {"idle", "start", "end"}

ModeLabels ==
  IF currentThreadMode = Exclusive THEN ExclusiveLabels
  ELSE IF ~QuietCallers THEN SynchronizedLabels \cup {"getThird", "getMap", "releaseThird"}
  ELSE IF currentThreadMode = Synchronized THEN SynchronizedLabels
  ELSE UnsynchronizedLabels

\* Thread t is there, or changes the mode between two that do not exclude.
PlacedAt(t) ==
  \/ pc[t] \in ModeLabels
  \/ pc[t] = "writeMode" /\ InUse(change[t]) /\ currentThreadMode # Exclusive

\* The owner and the two counts say who has the file.
CountsInv ==
  /\ currentThreadMode # Exclusive => exclusiveRecurseCount = 0
  /\ currentThreadMode = Exclusive =>
       /\ \A t \in Threads :
            Depth(t, "io") = IF t = exclusiveOwner THEN exclusiveRecurseCount ELSE 0
       /\ exclusiveOwner # NoThread
  /\ currentThreadMode = Unsynchronized /\ QuietCallers => exclusiveOwner = NoThread
  /\ currentThreadMode = Synchronized /\ QuietCallers =>
       /\ \A t \in Threads : Depth(t, "state") = IF t = exclusiveOwner THEN recurseCount ELSE 0
       /\ exclusiveOwner # NoThread => recurseCount > 0

\* What holds while no thread excludes the others.
SettledInv == (\A t \in Threads : PlacedAt(t)) /\ CountsInv

\* Thread t excludes the others: nobody has the file, and t drops the owner or becomes it.
SwitchInv(t) ==
  /\ exclusiveRecurseCount = 0
  /\ currentThreadMode = Exclusive <=> pc[t] = "leaveExclusive"
  /\ pc[t] = "leaveExclusive" => exclusiveOwner # NoThread
  /\ pc[t] = "setOwner" => NewMode(t) = Exclusive
  /\ pc[t] = "writeMode" /\ NewMode(t) = Exclusive => exclusiveOwner # NoThread
  /\ QuietCallers =>
       /\ pc[t] \in {"setOwner", "broadcast"} => exclusiveOwner = NoThread
       /\ pc[t] = "writeMode" /\ NewMode(t) # Exclusive => exclusiveOwner = NoThread

OwnersInv ==
  ExclusiveQuiet =>
    /\ (\A t \in Threads : ~Excluding(t)) => SettledInv
    /\ \A t \in Threads : Excluding(t) => SwitchInv(t)

\* When the exclusive mode is not entered while the file is in use, whoever has a state in
\* that mode has one of its own.
Acquiring == {"acquire", "acquireOwner", "acquireSelf", "acquireSleep", "acquireWait"}

OwnStateOf(t) ==
  /\ currentThreadMode = Exclusive =>
       /\ pc[t] \notin Acquiring
       /\ Holds(t, "state") => t \in threadStates
  /\ pc[t] = "releaseMap" => t \in threadStates

OwnStatesInv == EntersQuietly => ~aborted /\ \A t \in Threads : OwnStateOf(t)

\* A thread that goes on without the owner finds the synchronized mode again.
Leaving == {"startLeave", "endLeave"}

MutexInv ==
  /\ MapMutexReleased
  /\ HandsOver =>
       /\ currentThreadMode # Unsynchronized
       /\ \A t \in Threads : pc[t] \in Leaving => currentThreadMode = Synchronized
=============================================================================
