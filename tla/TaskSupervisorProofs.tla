------------------------ MODULE TaskSupervisorProofs ------------------------
(***************************************************************************)
(* Proofs about TaskSupervisor, for every set of tasks, every number of    *)
(* workers and every script of calls.                                      *)
(***************************************************************************)
EXTENDS TaskSupervisor, TLAPS

-----------------------------------------------------------------------------
(* The queue. *)

\* push_back adds one entry at the end and keeps the others.
LEMMA QueueAppend ==
  ASSUME NEW S, NEW q \in Seq(S), NEW e \in S
  PROVE  /\ Append(q, e) \in Seq(S)
         /\ \A k : (\E i \in DOMAIN Append(q, e) : Append(q, e)[i] = k)
                     <=> (\E i \in DOMAIN q : q[i] = k) \/ k = e
         /\ (/\ \A i, j \in DOMAIN q : q[i] = q[j] => i = j
             /\ ~\E i \in DOMAIN q : q[i] = e)
            => \A i, j \in DOMAIN Append(q, e) : Append(q, e)[i] = Append(q, e)[j] => i = j
<1>1. Append(q, e) \in Seq(S) /\ Len(Append(q, e)) = Len(q) + 1
  OBVIOUS
<1>2. DOMAIN q = 1 .. Len(q) /\ DOMAIN Append(q, e) = 1 .. Len(q) + 1
  BY <1>1
<1>3. /\ \A i \in 1 .. Len(q) : Append(q, e)[i] = q[i]
      /\ Append(q, e)[Len(q) + 1] = e
  OBVIOUS
<1>4. Len(q) \in Nat
  OBVIOUS
<1>5. \A k : (\E i \in DOMAIN Append(q, e) : Append(q, e)[i] = k)
               <=> (\E i \in DOMAIN q : q[i] = k) \/ k = e
  BY <1>2, <1>3, <1>4
<1>6. QED
  BY <1>1, <1>2, <1>3, <1>4, <1>5

\* pop_front removes the first entry; the head of a queue without repetition is
\* not in its tail.
LEMMA QueueTail ==
  ASSUME NEW S, NEW q \in Seq(S), q # <<>>,
         \A i, j \in DOMAIN q : q[i] = q[j] => i = j
  PROVE  /\ Tail(q) \in Seq(S)
         /\ Head(q) \in S
         /\ \E i \in DOMAIN q : q[i] = Head(q)
         /\ \A k : (\E i \in DOMAIN Tail(q) : Tail(q)[i] = k)
                     <=> (\E i \in DOMAIN q : q[i] = k) /\ k # Head(q)
         /\ \A i, j \in DOMAIN Tail(q) : Tail(q)[i] = Tail(q)[j] => i = j
<1>1. /\ Tail(q) \in Seq(S) /\ Len(Tail(q)) = Len(q) - 1
      /\ Len(q) \in Nat \ {0} /\ Head(q) = q[1] /\ q[1] \in S
  OBVIOUS
<1>2. DOMAIN q = 1 .. Len(q) /\ DOMAIN Tail(q) = 1 .. Len(q) - 1
  BY <1>1
<1>3. \A i \in 1 .. Len(q) - 1 : Tail(q)[i] = q[i + 1]
  BY <1>1
<1>4. \A k : (\E i \in DOMAIN Tail(q) : Tail(q)[i] = k)
               <=> (\E i \in DOMAIN q : q[i] = k) /\ k # Head(q)
  <2> TAKE k
  <2>1. ASSUME NEW i \in DOMAIN Tail(q), Tail(q)[i] = k
        PROVE  (\E j \in DOMAIN q : q[j] = k) /\ k # Head(q)
    <3>1. i + 1 \in DOMAIN q /\ q[i + 1] = k /\ 1 \in DOMAIN q /\ i + 1 # 1
      BY <1>1, <1>2, <1>3, <2>1
    <3>2. QED
      BY <3>1, <1>1
  <2>2. ASSUME NEW j \in DOMAIN q, q[j] = k, k # Head(q)
        PROVE  \E i \in DOMAIN Tail(q) : Tail(q)[i] = k
    <3>1. j # 1 /\ j - 1 \in 1 .. Len(q) - 1 /\ (j - 1) + 1 = j
      BY <1>1, <1>2, <2>2
    <3>2. QED
      BY <3>1, <1>2, <1>3, <2>2
  <2>3. QED
    BY <2>1, <2>2
<1>5. \A i, j \in DOMAIN Tail(q) : Tail(q)[i] = Tail(q)[j] => i = j
  BY <1>1, <1>2, <1>3
<1>6. QED
  BY <1>1, <1>2, <1>4, <1>5

-----------------------------------------------------------------------------
USE ConstantsAssumption

LEMMA InitIInv == Init => IInv
<1> SUFFICES ASSUME Init PROVE IInv
  OBVIOUS
<1> USE DEF Init
<1>1. TypeOK
  BY DEF TypeOK, ThreadTask, NewTask, Frame, WorkerLabels, CallLabels, Threads
<1>2. EachTaskInOneList
  BY DEF EachTaskInOneList, Queued, NewTask
<1>3. OneExecutor /\ TerminalListsTruthful
  BY DEF OneExecutor, TerminalListsTruthful, Threads
<1>4. TaskMutexDiscipline
  BY DEF TaskMutexDiscipline, Threads, EndingTask
<1>5. ThreadLabels
  BY DEF ThreadLabels, Threads, CallLabels, NoCall
<1>6. StageOfTask /\ NotTaken
  BY DEF StageOfTask, NotTaken, NewTask
<1>7. QED
  BY <1>1, <1>2, <1>3, <1>4, <1>5, <1>6 DEF IInv

LEMMA LockSupervisorStep ==
  ASSUME IInv, NEW t \in Threads, LockSupervisor(t)
  PROVE  IInv'
<1> USE DEF IInv, LockSupervisor, lists, flags, env
<1>1. TypeOK'
  BY DEF TypeOK, CallLabels
<1>2. EachTaskInOneList' /\ TerminalListsTruthful' /\ NotTaken'
  BY DEF EachTaskInOneList, TerminalListsTruthful, NotTaken, Queued
<1>3. OneExecutor'
  BY DEF OneExecutor, TypeOK, Threads
<1>4. TaskMutexDiscipline'
  BY DEF TaskMutexDiscipline, TypeOK, Threads, EndingTask
<1>5. ThreadLabels'
  BY DEF ThreadLabels, TypeOK, Threads, CallLabels, Frame
<1>6. StageOfTask'
  BY DEF StageOfTask, StageOf, TypeOK, Threads, EndingTask, Queued
<1>7. QED
  BY <1>1, <1>2, <1>3, <1>4, <1>5, <1>6

-----------------------------------------------------------------------------
(* The end of a call: pushTask, _i_startTask, _i_cancelTask, waitOn, ...   *)

\* t goes back to where its call came from; at most workers that wait for a task
\* are woken besides.
Resumed(t) ==
  /\ pc' \in [Threads -> WorkerLabels \cup CallLabels]
  /\ pc'[t] = call[t].ret
  /\ \A u \in Threads \ {t} : \/ pc'[u] = pc[u]
                              \/ u \in Workers /\ pc[u] = "waiting" /\ pc'[u] = "getTask"

LEMMA ReturnResumes ==
  ASSUME TypeOK, NEW t \in Threads, Return(t), call[t].ret \in {"func", "dispatch"}
  PROVE  Resumed(t)
BY DEF TypeOK, Return, Resumed, WorkerLabels, CallLabels

LEMMA SignalResumes ==
  ASSUME TypeOK, NEW t \in Threads, pc[t] = "lockTask", ReturnAndSignal(t),
         call[t].ret \in {"func", "dispatch"}
  PROVE  Resumed(t)
<1>1. CASE {w \in Workers : pc[w] = "waiting"} = {}
  BY <1>1, ReturnResumes DEF ReturnAndSignal
<1>2. CASE {w \in Workers : pc[w] = "waiting"} # {}
  <2>1. PICK w \in Workers : /\ pc[w] = "waiting"
                             /\ pc' = [pc EXCEPT ![t] = call[t].ret, ![w] = "getTask"]
    BY <1>2 DEF ReturnAndSignal
  <2>2. w \in Threads /\ w # t
    BY <2>1 DEF Threads
  <2>3. QED
    BY <2>1, <2>2 DEF TypeOK, Resumed, WorkerLabels, CallLabels
<1>3. QED
  BY <1>1, <1>2

\* No task has come further; one that no worker is ending may be canceled.
SameProgress ==
  \A k \in Tasks : /\ task'[k].m_Started = task[k].m_Started
                   /\ task'[k].m_Done = task[k].m_Done
                   /\ task'[k].m_Result = task[k].m_Result
                   /\ \/ task'[k].m_KeepRunning = task[k].m_KeepRunning
                      \/ taskMutex[k] = NoThread /\ ~task'[k].m_KeepRunning

LEMMA ReturnKeepsTypes ==
  ASSUME TypeOK, NEW t \in Threads, Resumed(t), call' = [call EXCEPT ![t] = NoCall],
         task' \in [Tasks -> ThreadTask], m_ReadyTasks' \in Seq(Tasks),
         m_WaitingTasks' \in SUBSET Tasks, supMutex' \in Threads \cup {NoThread},
         interrupt' \in [Workers -> BOOLEAN], exception' \in [Workers -> BOOLEAN],
         UNCHANGED <<taskMutex, cur, m_RunningTasks, m_FinishedTasks, m_CanceledTasks, todo,
                     currentAllowedThreads, step, spurious>>
  PROVE  TypeOK'
<1>1. call' \in [Threads -> Frame] /\ pc' \in [Threads -> WorkerLabels \cup CallLabels]
  BY DEF TypeOK, Resumed, Frame
<1>2. QED
  BY <1>1 DEF TypeOK

\* No worker goes from one stage of ThreadTask::run to another.
SameStages ==
  \A w \in Workers :
    /\ EndingTask(w)' <=> EndingTask(w)
    /\ pc'[w] = "run" <=> pc[w] = "run"
    /\ pc'[w] = "drop" <=> pc[w] = "drop"
    /\ pc'[w] = "finish" <=> pc[w] = "finish"
    /\ pc'[w] = "return" <=> pc[w] = "return"
    /\ pc'[w] \in {"loop", "getTask", "waiting"} <=> pc[w] \in {"loop", "getTask", "waiting"}

\* Then the part of the invariant that is about the workers is preserved, even if
\* a task is canceled that no worker is ending.
LEMMA StagesKept ==
  ASSUME IInv, SameStages, SameProgress,
         UNCHANGED <<taskMutex, cur, m_RunningTasks, m_FinishedTasks, m_CanceledTasks>>,
         \A k \in Tasks : Queued(k)' => Queued(k) \/ ~task[k].m_ReadyToRun
  PROVE  OneExecutor' /\ TerminalListsTruthful' /\ TaskMutexDiscipline' /\ StageOfTask'
<1> USE DEF IInv, SameStages, SameProgress
<1>1. OneExecutor'
  BY DEF OneExecutor
<1>2. TerminalListsTruthful'
  <2>1. \A k \in m_CanceledTasks : k \in Tasks /\ ~task'[k].m_Started /\ ~task'[k].m_KeepRunning
    BY DEF TerminalListsTruthful, TypeOK
  <2>2. QED
    BY <2>1 DEF TerminalListsTruthful, TypeOK
<1>3. TaskMutexDiscipline'
  BY DEF TaskMutexDiscipline
<1>4. StageOfTask'
  <2> SUFFICES ASSUME NEW w \in Workers, cur[w] # NoTask
               PROVE  StageOf(w, cur[w])'
    BY DEF StageOfTask
  <2>1. cur[w] \in Tasks /\ task[cur[w]].m_ReadyToRun
    BY DEF TypeOK, NotTaken
  <2>2. pc[w] = "finish" => taskMutex[cur[w]] # NoThread
    BY <2>1 DEF TaskMutexDiscipline, EndingTask, Threads
  <2>3. StageOf(w, cur[w])
    BY DEF StageOfTask
  <2>4. PICK k \in Tasks : k = cur[w] /\ cur' = cur
    BY <2>1
  <2>5. StageOf(w, k)'
    BY <2>1, <2>2, <2>3, <2>4 DEF StageOf
  <2>6. QED
    BY <2>4, <2>5 DEF StageOf, Queued, EndingTask
<1>5. QED
  BY <1>1, <1>2, <1>3, <1>4

\* The readiness of the tasks and the queue are left alone.
LEMMA QueueKept ==
  ASSUME IInv, SameProgress,
         UNCHANGED <<cur, m_ReadyTasks, m_WaitingTasks, m_RunningTasks, m_FinishedTasks,
                     m_CanceledTasks>>,
         \A k \in Tasks : /\ task'[k].m_ReadyToRun = task[k].m_ReadyToRun
                          /\ task[k].m_Dependencies \subseteq task'[k].m_Dependencies
  PROVE  EachTaskInOneList' /\ NotTaken' /\ \A k \in Tasks : Queued(k)' => Queued(k)
<1> USE DEF IInv, SameProgress
<1>1. EachTaskInOneList'
  <2>1. \A k \in m_WaitingTasks : ~task'[k].m_ReadyToRun /\ task'[k].m_Dependencies # {}
    BY DEF EachTaskInOneList, TypeOK
  <2>2. \A k \in Tasks : Queued(k)' <=> Queued(k)
    BY DEF Queued
  <2>3. QED
    BY <2>1, <2>2 DEF EachTaskInOneList
<1>2. NotTaken' /\ \A k \in Tasks : Queued(k)' => Queued(k)
  BY DEF NotTaken, Queued
<1>3. QED
  BY <1>1, <1>2

\* The end of a call is such a step.
LEMMA ReturnKeepsControl ==
  ASSUME IInv, NEW t \in Threads, pc[t] \in CallLabels \ {"func"}, Resumed(t),
         call' = [call EXCEPT ![t] = NoCall],
         UNCHANGED <<taskMutex, cur, m_RunningTasks, m_FinishedTasks, m_CanceledTasks>>,
         SameProgress,
         \A k \in Tasks : Queued(k)' => Queued(k) \/ ~task[k].m_ReadyToRun
  PROVE  /\ OneExecutor' /\ TerminalListsTruthful' /\ TaskMutexDiscipline'
         /\ ThreadLabels' /\ StageOfTask'
<1> USE DEF IInv
<1>1. call' \in [Threads -> Frame] /\ pc' \in [Threads -> WorkerLabels \cup CallLabels]
  BY DEF TypeOK, Resumed, Frame
<1>2. call[t].ret \in {"func", "dispatch"}
  BY DEF TypeOK, Frame, NoCall
<1>3. \A w \in Workers : EndingTask(w)' <=> EndingTask(w)
  BY <1>1, <1>2 DEF EndingTask, Resumed, TypeOK, Threads, CallLabels, ThreadLabels
<1>4. SameStages
  BY <1>1, <1>2, <1>3 DEF SameStages, Resumed, Threads, CallLabels
<1>5. ThreadLabels'
  <2>1. \A w \in Workers : pc'[w] \in {"loop", "getTask", "waiting"} <=> cur'[w] = NoTask
    BY <1>4 DEF ThreadLabels, SameStages
  <2>2. \A c \in Clients : pc'[c] \in CallLabels /\ call'[c].ret = "func"
    BY <1>1, <1>2 DEF ThreadLabels, TypeOK, Threads, Resumed, CallLabels, NoCall
  <2>3. ASSUME NEW u \in Threads
        PROVE  /\ pc'[u] \in CallLabels \ {"func"} => call'[u].task \in Tasks /\ call'[u].other \in Tasks
               /\ pc'[u] \in CallLabels \ {"func", "lockSupervisor", "lockTask"} => call'[u].ret = "func"
               /\ pc'[u] \in {"lockSupervisor", "lockTask"} => call'[u].op \in {"push", "cancel", "start"}
               /\ call'[u].op = "start" => call'[u].ret = "dispatch"
    <3>1. CASE u = t
      BY <3>1, <1>2 DEF Resumed, CallLabels, NoCall, TypeOK
    <3>2. CASE u # t
      BY <3>2 DEF Resumed, CallLabels, ThreadLabels, TypeOK
    <3>3. QED
      BY <3>1, <3>2
  <2>4. QED
    BY <2>1, <2>2, <2>3 DEF ThreadLabels
<1>6. QED
  BY <1>4, <1>5, StagesKept

\* One task is updated, the others are left alone.
LEMMA TaskUpdate ==
  ASSUME TypeOK, NEW k \in Tasks, NEW s \in ThreadTask, task' = [task EXCEPT ![k] = s]
  PROVE  /\ task' \in [Tasks -> ThreadTask]
         /\ task'[k] = s
         /\ \A j \in Tasks \ {k} : task'[j] = task[j]
BY DEF TypeOK

\* A task that is not in the queue is put at its end.
LEMMA ReadyAppend ==
  ASSUME TypeOK, EachTaskInOneList, NEW k \in Tasks, ~Queued(k),
         m_ReadyTasks' = Append(m_ReadyTasks, k)
  PROVE  /\ m_ReadyTasks' \in Seq(Tasks)
         /\ \A j : Queued(j)' <=> Queued(j) \/ j = k
         /\ \A i, j \in DOMAIN m_ReadyTasks' : m_ReadyTasks'[i] = m_ReadyTasks'[j] => i = j
<1>1. m_ReadyTasks \in Seq(Tasks)
  BY DEF TypeOK
<1>2. /\ \A i, j \in DOMAIN m_ReadyTasks : m_ReadyTasks[i] = m_ReadyTasks[j] => i = j
      /\ ~\E i \in DOMAIN m_ReadyTasks : m_ReadyTasks[i] = k
  BY DEF EachTaskInOneList, Queued
<1>3. PICK q : q = Append(m_ReadyTasks, k)
  OBVIOUS
<1>4. /\ q \in Seq(Tasks) /\ Len(q) = Len(m_ReadyTasks) + 1
      /\ Len(m_ReadyTasks) \in Nat
      /\ DOMAIN m_ReadyTasks = 1 .. Len(m_ReadyTasks)
      /\ \A i \in 1 .. Len(m_ReadyTasks) : q[i] = m_ReadyTasks[i]
      /\ q[Len(m_ReadyTasks) + 1] = k
  BY <1>1, <1>3
<1>5. DOMAIN q = 1 .. Len(m_ReadyTasks) + 1
  BY <1>4
<1>6. \A j : (\E i \in DOMAIN q : q[i] = j)
               <=> (\E i \in DOMAIN m_ReadyTasks : m_ReadyTasks[i] = j) \/ j = k
  <2>1. \A i \in DOMAIN q : i \in DOMAIN m_ReadyTasks \/ i = Len(m_ReadyTasks) + 1
    BY <1>4, <1>5
  <2>2. /\ DOMAIN m_ReadyTasks \subseteq DOMAIN q
        /\ Len(m_ReadyTasks) + 1 \in DOMAIN q
        /\ \A i \in DOMAIN m_ReadyTasks : q[i] = m_ReadyTasks[i]
        /\ q[Len(m_ReadyTasks) + 1] = k
    BY <1>4, <1>5
  <2>3. PICK n : n = Len(m_ReadyTasks) + 1
    OBVIOUS
  <2>4. QED
    BY <2>1, <2>2, <2>3, ZenonT(60)
<1>7. \A i, j \in DOMAIN q : q[i] = q[j] => i = j
  BY <1>1, <1>2, <1>3, QueueAppend
<1>8. m_ReadyTasks' = q
  BY <1>3
<1>9. QED
  BY <1>4, <1>6, <1>7, <1>8 DEF Queued

LEMMA FrameRets == TypeOK => \A t \in Threads : call[t].ret \in {"func", "dispatch"}
BY DEF TypeOK, Frame, NoCall

LEMMA PushReadyTaskStep ==
  ASSUME IInv, NEW t \in Threads, PushReadyTask(t)
  PROVE  IInv'
<1> USE DEF IInv, lists, flags, env
<1>1. Resumed(t) /\ pc[t] \in CallLabels \ {"func"}
  BY FrameRets, ReturnResumes DEF PushReadyTask, AtTask, CallLabels
<1>2. TypeOK'
  BY <1>1 DEF TypeOK, PushReadyTask, Frame, Resumed
<1>3. EachTaskInOneList' /\ NotTaken'
  BY DEF EachTaskInOneList, NotTaken, Queued, PushReadyTask
<1>4. SameProgress /\ \A k \in Tasks : Queued(k)' => Queued(k)
  BY DEF SameProgress, Queued, PushReadyTask
<1>5. QED
  BY <1>1, <1>2, <1>3, <1>4, ReturnKeepsControl DEF PushReadyTask

LEMMA PushTaskStep ==
  ASSUME IInv, NEW t \in Threads, PushTask(t)
  PROVE  IInv'
<1> DEFINE k == call[t].task
           s == [task[k] EXCEPT !.m_ReadyToRun = TRUE]
<1> USE DEF IInv, lists, flags, env
<1>1. Resumed(t) /\ pc[t] \in CallLabels \ {"func"}
  BY FrameRets, SignalResumes DEF PushTask, AtTask, CallLabels
<1>2. k \in Tasks /\ ~task[k].m_ReadyToRun /\ ~Queued(k)
  BY <1>1 DEF ThreadLabels, PushTask, AlreadyReady, EachTaskInOneList
<1>3. /\ call' = [call EXCEPT ![t] = NoCall] /\ supMutex' = NoThread
      /\ UNCHANGED <<taskMutex, cur, m_RunningTasks, m_FinishedTasks, m_CanceledTasks, todo,
                     interrupt, exception, currentAllowedThreads, step, spurious>>
  BY DEF PushTask
<1>4. CASE task[k].m_Dependencies = {}
  <2>1. /\ task' = [task EXCEPT ![k] = s]
        /\ m_ReadyTasks' = Append(m_ReadyTasks, k)
        /\ m_WaitingTasks' = m_WaitingTasks
    BY <1>4 DEF PushTask
  <2>2. /\ s \in ThreadTask /\ s.m_ReadyToRun
        /\ s.m_Started = task[k].m_Started /\ s.m_Done = task[k].m_Done
        /\ s.m_Result = task[k].m_Result /\ s.m_KeepRunning = task[k].m_KeepRunning
        /\ s.m_Dependencies = task[k].m_Dependencies
    <3>1. task[k] \in ThreadTask
      BY <1>2 DEF TypeOK
    <3> HIDE DEF k
    <3>2. QED
      BY <3>1 DEF ThreadTask
  <2> HIDE DEF s, k
  <2>3. /\ task' \in [Tasks -> ThreadTask]
        /\ SameProgress
        /\ \A j \in Tasks : /\ task'[j].m_Dependencies = task[j].m_Dependencies
                            /\ task'[j].m_ReadyToRun <=> task[j].m_ReadyToRun \/ j = k
    BY <1>2, <2>1, <2>2, TaskUpdate DEF SameProgress
  <2>4. /\ m_ReadyTasks' \in Seq(Tasks)
        /\ \A j : Queued(j)' <=> Queued(j) \/ j = k
        /\ \A i, j \in DOMAIN m_ReadyTasks' : m_ReadyTasks'[i] = m_ReadyTasks'[j] => i = j
    BY <1>2, <2>1, ReadyAppend
  <2>5. TypeOK'
    BY <1>1, <1>3, <2>1, <2>3, <2>4, ReturnKeepsTypes DEF TypeOK
  <2>6. EachTaskInOneList'
    <3>1. /\ m_RunningTasks \cap (m_FinishedTasks \cup m_CanceledTasks) = {}
          /\ m_FinishedTasks \cap m_CanceledTasks = {}
      BY DEF EachTaskInOneList
    <3>2. k \notin m_RunningTasks \cup m_FinishedTasks \cup m_CanceledTasks
      BY <1>2 DEF EachTaskInOneList
    <3>3. \A j \in Tasks :
            /\ task'[j].m_ReadyToRun <=>
                 Queued(j)' \/ j \in m_RunningTasks \cup m_FinishedTasks \cup m_CanceledTasks
            /\ Queued(j)' => j \notin m_RunningTasks \cup m_FinishedTasks \cup m_CanceledTasks
      BY <2>3, <2>4, <3>2 DEF EachTaskInOneList
    <3>4. \A j \in m_WaitingTasks : ~task'[j].m_ReadyToRun /\ task'[j].m_Dependencies # {}
      BY <1>4, <2>3 DEF EachTaskInOneList, TypeOK
    <3> HIDE DEF IInv
    <3>5. QED
      BY <1>3, <2>1, <2>4, <3>1, <3>3, <3>4 DEF EachTaskInOneList
  <2>7. NotTaken'
    BY <1>2, <1>3, <2>3, <2>4 DEF NotTaken, SameProgress
  <2>8. \A j \in Tasks : Queued(j)' => Queued(j) \/ ~task[j].m_ReadyToRun
    BY <1>2, <2>4
  <2>9. QED
    BY <1>1, <1>3, <2>3, <2>5, <2>6, <2>7, <2>8, ReturnKeepsControl
<1>5. CASE task[k].m_Dependencies # {}
  <2>1. /\ task' = task /\ m_ReadyTasks' = m_ReadyTasks
        /\ m_WaitingTasks' = m_WaitingTasks \cup {k}
    BY <1>5 DEF PushTask
  <2> HIDE DEF s, k
  <2>2. TypeOK'
    BY <1>1, <1>2, <1>3, <2>1, ReturnKeepsTypes DEF TypeOK
  <2>3. EachTaskInOneList' /\ NotTaken'
    BY <1>2, <1>3, <1>5, <2>1 DEF EachTaskInOneList, NotTaken, Queued
  <2>4. SameProgress /\ \A j \in Tasks : Queued(j)' => Queued(j)
    BY <2>1 DEF SameProgress, Queued
  <2>5. QED
    BY <1>1, <1>3, <2>2, <2>3, <2>4, ReturnKeepsControl
<1>6. QED
  BY <1>4, <1>5

LEMMA StartReadyTaskStep ==
  ASSUME IInv, NEW t \in Threads, StartReadyTask(t)
  PROVE  IInv'
<1> USE DEF IInv, lists, flags, env
<1>1. Resumed(t) /\ pc[t] \in CallLabels \ {"func"}
  BY FrameRets, ReturnResumes DEF StartReadyTask, AtTask, CallLabels
<1>2. TypeOK'
  BY <1>1 DEF TypeOK, StartReadyTask, Frame, Resumed
<1>3. EachTaskInOneList' /\ NotTaken'
  BY DEF EachTaskInOneList, NotTaken, Queued, StartReadyTask
<1>4. SameProgress /\ \A k \in Tasks : Queued(k)' => Queued(k)
  BY DEF SameProgress, Queued, StartReadyTask
<1>5. QED
  BY <1>1, <1>2, <1>3, <1>4, ReturnKeepsControl DEF StartReadyTask

LEMMA StartTaskStep ==
  ASSUME IInv, NEW t \in Threads, StartTask(t)
  PROVE  IInv'
<1> DEFINE k == call[t].task
           left == task[k].m_Dependencies \ {call[t].other}
           fin == task[k].m_FinishedDependencies \cup (task[k].m_Dependencies \cap {call[t].other})
           s == [task[k] EXCEPT !.m_Dependencies = left, !.m_FinishedDependencies = fin,
                                !.m_ReadyToRun = (left = {})]
<1> USE DEF IInv, lists, flags, env
<1>1. Resumed(t) /\ pc[t] \in CallLabels \ {"func"}
  BY FrameRets, SignalResumes, ReturnResumes DEF StartTask, AtTask, CallLabels
<1>2. k \in Tasks /\ ~task[k].m_ReadyToRun /\ ~Queued(k)
  BY <1>1 DEF ThreadLabels, StartTask, AlreadyReady, EachTaskInOneList
<1>3. /\ call' = [call EXCEPT ![t] = NoCall] /\ supMutex' = NoThread
      /\ UNCHANGED <<taskMutex, cur, m_RunningTasks, m_FinishedTasks, m_CanceledTasks, todo,
                     interrupt, exception, currentAllowedThreads, step, spurious>>
  BY DEF StartTask, Remaining
<1>4. /\ task' = [task EXCEPT ![k] = s]
      /\ left = {} => /\ m_ReadyTasks' = Append(m_ReadyTasks, k)
                      /\ m_WaitingTasks' = m_WaitingTasks \ {k}
      /\ left # {} => m_ReadyTasks' = m_ReadyTasks /\ m_WaitingTasks' = m_WaitingTasks
  BY DEF StartTask, Remaining
<1>5. /\ left \in SUBSET Tasks /\ fin \in SUBSET Tasks /\ (left = {}) \in BOOLEAN
      /\ task[k] \in ThreadTask
  BY <1>2 DEF TypeOK, ThreadTask
<1>6. /\ s \in ThreadTask /\ s.m_ReadyToRun = (left = {})
      /\ s.m_Started = task[k].m_Started /\ s.m_Done = task[k].m_Done
      /\ s.m_Result = task[k].m_Result /\ s.m_KeepRunning = task[k].m_KeepRunning
      /\ s.m_Dependencies = left
  <2> HIDE DEF left, fin, k
  <2>1. QED
    BY <1>5 DEF ThreadTask
<1> HIDE DEF left, s, k
<1>7. /\ task' \in [Tasks -> ThreadTask]
      /\ SameProgress
      /\ \A j \in Tasks : /\ j # k => task'[j].m_Dependencies = task[j].m_Dependencies
                          /\ task'[j].m_ReadyToRun
                               <=> task[j].m_ReadyToRun \/ (j = k /\ left = {})
      /\ task'[k].m_Dependencies = left
  BY <1>2, <1>4, <1>6, TaskUpdate DEF SameProgress
<1>8. CASE left = {}
  <2>1. /\ m_ReadyTasks' \in Seq(Tasks)
        /\ \A j : Queued(j)' <=> Queued(j) \/ j = k
        /\ \A i, j \in DOMAIN m_ReadyTasks' : m_ReadyTasks'[i] = m_ReadyTasks'[j] => i = j
    BY <1>2, <1>4, <1>8, ReadyAppend
  <2>2. TypeOK'
    BY <1>1, <1>3, <1>4, <1>7, <1>8, <2>1, ReturnKeepsTypes DEF TypeOK
  <2>3. EachTaskInOneList'
    BY <1>2, <1>3, <1>4, <1>7, <1>8, <2>1 DEF EachTaskInOneList, TypeOK
  <2>4. NotTaken'
    BY <1>2, <1>3, <1>7, <2>1 DEF NotTaken, SameProgress
  <2>5. \A j \in Tasks : Queued(j)' => Queued(j) \/ ~task[j].m_ReadyToRun
    BY <1>2, <2>1
  <2>6. QED
    BY <1>1, <1>3, <1>7, <2>2, <2>3, <2>4, <2>5, ReturnKeepsControl
<1>9. CASE left # {}
  <2>1. m_ReadyTasks' = m_ReadyTasks /\ m_WaitingTasks' = m_WaitingTasks
    BY <1>4, <1>9
  <2>2. TypeOK'
    BY <1>1, <1>3, <1>7, <2>1, ReturnKeepsTypes DEF TypeOK
  <2>3. EachTaskInOneList'
    BY <1>2, <1>3, <1>7, <1>9, <2>1 DEF EachTaskInOneList, Queued, TypeOK
  <2>4. NotTaken' /\ \A j \in Tasks : Queued(j)' => Queued(j)
    BY <1>2, <1>3, <1>7, <1>9, <2>1 DEF NotTaken, Queued, SameProgress
  <2>5. QED
    BY <1>1, <1>3, <1>7, <2>2, <2>3, <2>4, ReturnKeepsControl
<1>10. QED
  BY <1>8, <1>9

LEMMA CancelTaskStep ==
  ASSUME IInv, NEW t \in Threads, CancelTask(t)
  PROVE  IInv'
<1> DEFINE k == call[t].task
           s == [task[k] EXCEPT !.m_KeepRunning = FALSE]
<1> USE DEF IInv, lists, flags, env
<1>1. Resumed(t) /\ pc[t] \in CallLabels \ {"func"}
  BY FrameRets, ReturnResumes DEF CancelTask, AtTask, CallLabels
<1>2. k \in Tasks /\ taskMutex[k] = NoThread
  BY <1>1 DEF ThreadLabels, CancelTask, AtTask
<1>3. /\ call' = [call EXCEPT ![t] = NoCall] /\ supMutex' = NoThread
      /\ task' = [task EXCEPT ![k] = s]
      /\ UNCHANGED <<taskMutex, cur, m_RunningTasks, m_FinishedTasks, m_CanceledTasks, todo,
                     m_ReadyTasks, m_WaitingTasks, currentAllowedThreads, step, spurious>>
  BY DEF CancelTask
<1>4. interrupt' \in [Workers -> BOOLEAN] /\ exception' \in [Workers -> BOOLEAN]
  BY DEF TypeOK, CancelTask
<1>5. /\ s \in ThreadTask /\ ~s.m_KeepRunning
      /\ s.m_Started = task[k].m_Started /\ s.m_Done = task[k].m_Done
      /\ s.m_Result = task[k].m_Result /\ s.m_ReadyToRun = task[k].m_ReadyToRun
      /\ s.m_Dependencies = task[k].m_Dependencies
  <2>1. task[k] \in ThreadTask
    BY <1>2 DEF TypeOK
  <2> HIDE DEF k
  <2>2. QED
    BY <2>1 DEF ThreadTask
<1> HIDE DEF s, k
<1>6. /\ task' \in [Tasks -> ThreadTask]
      /\ SameProgress
      /\ \A j \in Tasks : /\ task'[j].m_ReadyToRun = task[j].m_ReadyToRun
                          /\ task'[j].m_Dependencies = task[j].m_Dependencies
  BY <1>2, <1>3, <1>5, TaskUpdate DEF SameProgress
<1>7. TypeOK'
  BY <1>1, <1>3, <1>4, <1>6, ReturnKeepsTypes DEF TypeOK
<1>8. EachTaskInOneList'
  BY <1>3, <1>6 DEF EachTaskInOneList, Queued, TypeOK
<1>9. NotTaken' /\ \A j \in Tasks : Queued(j)' => Queued(j)
  BY <1>3, <1>6 DEF NotTaken, Queued, SameProgress
<1>10. QED
  BY <1>1, <1>3, <1>6, <1>7, <1>8, <1>9, ReturnKeepsControl

-----------------------------------------------------------------------------
(* Steps inside a call, and the beginning of one. *)

\* What addCancelTask, addStartTask and addDependency do to one task.
LEMMA LinkUpdate ==
  ASSUME TypeOK, NEW k \in Tasks, NEW s \in ThreadTask, task' = [task EXCEPT ![k] = s],
         s.m_Started = task[k].m_Started, s.m_Done = task[k].m_Done,
         s.m_Result = task[k].m_Result, s.m_KeepRunning = task[k].m_KeepRunning,
         s.m_ReadyToRun = task[k].m_ReadyToRun,
         task[k].m_Dependencies \subseteq s.m_Dependencies
  PROVE  /\ task' \in [Tasks -> ThreadTask] /\ SameProgress
         /\ \A j \in Tasks : /\ task'[j].m_ReadyToRun = task[j].m_ReadyToRun
                             /\ task[j].m_Dependencies \subseteq task'[j].m_Dependencies
BY TaskUpdate DEF SameProgress

LEMMA LinkFields ==
  ASSUME TypeOK, NEW k \in Tasks, NEW o \in Tasks,
         \/ task' = [task EXCEPT ![k].m_CancelTasks = @ \cup {o}]
         \/ task' = [task EXCEPT ![k].m_StartTasks = @ \cup {o}]
         \/ task' = [task EXCEPT ![k].m_Dependencies = @ \cup {o}]
  PROVE  /\ task' \in [Tasks -> ThreadTask] /\ SameProgress
         /\ \A j \in Tasks : /\ task'[j].m_ReadyToRun = task[j].m_ReadyToRun
                             /\ task[j].m_Dependencies \subseteq task'[j].m_Dependencies
<1> DEFINE r == task[k]
           x == [r EXCEPT !.m_CancelTasks = r.m_CancelTasks \cup {o}]
           y == [r EXCEPT !.m_StartTasks = r.m_StartTasks \cup {o}]
           z == [r EXCEPT !.m_Dependencies = r.m_Dependencies \cup {o}]
           Quiet(s) == /\ s \in ThreadTask
                       /\ s.m_Started = r.m_Started /\ s.m_Done = r.m_Done
                       /\ s.m_Result = r.m_Result /\ s.m_KeepRunning = r.m_KeepRunning
                       /\ s.m_ReadyToRun = r.m_ReadyToRun
                       /\ r.m_Dependencies \subseteq s.m_Dependencies
<1>1. \/ task' = [task EXCEPT ![k] = x]
      \/ task' = [task EXCEPT ![k] = y]
      \/ task' = [task EXCEPT ![k] = z]
  OBVIOUS
<1>2. Quiet(x) /\ Quiet(y) /\ Quiet(z)
  <2>1. r \in ThreadTask
    BY DEF TypeOK
  <2> HIDE DEF r
  <2>2. Quiet(x)
    BY <2>1 DEF ThreadTask
  <2>3. Quiet(y)
    BY <2>1 DEF ThreadTask
  <2>4. Quiet(z)
    BY <2>1 DEF ThreadTask
  <2>5. QED
    BY <2>2, <2>3, <2>4
<1> HIDE DEF x, y, z
<1>3. QED
  BY <1>1, <1>2, LinkUpdate

\* t moves inside a call, or is woken.
LEMMA MoveKeepsControl ==
  ASSUME IInv, NEW t \in Threads, NEW l, pc' = [pc EXCEPT ![t] = l], UNCHANGED <<call, cur>>,
         \/ /\ pc[t] \in {"link", "depend", "waitOn", "onFinish"}
            /\ l \in {"link", "depend", "waitOn", "onFinish"}
         \/ pc[t] = "lockSupervisor" /\ l = "lockTask"
         \/ /\ t \in Workers
            /\ pc[t] \in {"loop", "getTask", "waiting"} /\ l \in {"loop", "getTask", "waiting"}
  PROVE  /\ pc' \in [Threads -> WorkerLabels \cup CallLabels]
         /\ SameStages /\ ThreadLabels'
<1> USE DEF IInv
<1>1. pc' \in [Threads -> WorkerLabels \cup CallLabels]
  BY DEF TypeOK, WorkerLabels, CallLabels
<1>2. \A u \in Threads : u # t => pc'[u] = pc[u]
  BY DEF TypeOK
<1>3. pc'[t] = l
  BY DEF TypeOK
<1>4. SameStages
  BY <1>2, <1>3 DEF SameStages, EndingTask, Threads
<1>5. ThreadLabels'
  <2>1. \A w \in Workers : pc'[w] \in {"loop", "getTask", "waiting"} <=> cur'[w] = NoTask
    BY <1>4 DEF ThreadLabels, SameStages
  <2>2. \A c \in Clients : pc'[c] \in CallLabels /\ call'[c].ret = "func"
    BY <1>2, <1>3 DEF ThreadLabels, Threads, CallLabels
  <2>3. \A u \in Threads :
          /\ pc'[u] \in CallLabels \ {"func"} => call'[u].task \in Tasks /\ call'[u].other \in Tasks
          /\ pc'[u] \in CallLabels \ {"func", "lockSupervisor", "lockTask"} => call'[u].ret = "func"
          /\ pc'[u] \in {"lockSupervisor", "lockTask"} => call'[u].op \in {"push", "cancel", "start"}
          /\ call'[u].op = "start" => call'[u].ret = "dispatch"
    BY <1>2, <1>3 DEF ThreadLabels, CallLabels
  <2>4. QED
    BY <2>1, <2>2, <2>3 DEF ThreadLabels
<1>6. QED
  BY <1>1, <1>4, <1>5

LEMMA LinkTaskStep ==
  ASSUME IInv, NEW t \in Threads, LinkTask(t)
  PROVE  IInv'
<1> USE DEF IInv, lists, flags, env
<1>1. /\ pc[t] = "link" /\ pc[t] \in CallLabels \ {"func"}
      /\ call[t].task \in Tasks /\ call[t].other \in Tasks
  BY DEF LinkTask, CallLabels, ThreadLabels
<1>2. /\ UNCHANGED <<cur, m_ReadyTasks, m_WaitingTasks, m_RunningTasks, m_FinishedTasks,
                     m_CanceledTasks>>
      /\ UNCHANGED <<taskMutex, supMutex, todo, interrupt, exception, currentAllowedThreads, step,
                     spurious>>
  BY DEF LinkTask
<1>3. /\ task' \in [Tasks -> ThreadTask] /\ SameProgress
      /\ \A j \in Tasks : /\ task'[j].m_ReadyToRun = task[j].m_ReadyToRun
                          /\ task[j].m_Dependencies \subseteq task'[j].m_Dependencies
  BY <1>1, LinkFields DEF LinkTask
<1>4. EachTaskInOneList' /\ NotTaken' /\ \A k \in Tasks : Queued(k)' => Queued(k)
  BY <1>2, <1>3, QueueKept
<1>5. CASE call[t].op = "addDependency"
  <2>1. pc' = [pc EXCEPT ![t] = "depend"] /\ call' = call
    BY <1>5 DEF LinkTask
  <2>2. /\ pc' \in [Threads -> WorkerLabels \cup CallLabels]
        /\ SameStages /\ ThreadLabels'
    BY <1>1, <1>2, <2>1, MoveKeepsControl
  <2>3. TypeOK'
    BY <1>2, <1>3, <2>1, <2>2 DEF TypeOK
  <2>4. QED
    BY <1>2, <1>3, <1>4, <2>2, <2>3, StagesKept
<1>6. CASE call[t].op # "addDependency"
  <2>1. Resumed(t) /\ call' = [call EXCEPT ![t] = NoCall]
    BY <1>6, FrameRets, ReturnResumes DEF LinkTask
  <2>2. TypeOK'
    BY <1>2, <1>3, <2>1, ReturnKeepsTypes DEF TypeOK
  <2>3. QED
    BY <1>1, <1>2, <1>3, <1>4, <2>1, <2>2, ReturnKeepsControl
<1>7. QED
  BY <1>5, <1>6

LEMMA DependTaskStep ==
  ASSUME IInv, NEW t \in Threads, DependTask(t)
  PROVE  IInv'
<1> USE DEF IInv, lists, flags, env
<1>1. /\ pc[t] \in CallLabels \ {"func"}
      /\ call[t].task \in Tasks /\ call[t].other \in Tasks
  BY DEF DependTask, CallLabels, ThreadLabels
<1>2. /\ UNCHANGED <<cur, m_ReadyTasks, m_WaitingTasks, m_RunningTasks, m_FinishedTasks,
                     m_CanceledTasks>>
      /\ UNCHANGED <<taskMutex, supMutex, todo, interrupt, exception, currentAllowedThreads, step,
                     spurious>>
  BY DEF DependTask
<1>3. /\ task' \in [Tasks -> ThreadTask] /\ SameProgress
      /\ \A j \in Tasks : /\ task'[j].m_ReadyToRun = task[j].m_ReadyToRun
                          /\ task[j].m_Dependencies \subseteq task'[j].m_Dependencies
  BY <1>1, LinkFields DEF DependTask
<1>4. EachTaskInOneList' /\ NotTaken' /\ \A k \in Tasks : Queued(k)' => Queued(k)
  BY <1>2, <1>3, QueueKept
<1>5. Resumed(t) /\ call' = [call EXCEPT ![t] = NoCall]
  BY FrameRets, ReturnResumes DEF DependTask
<1>6. TypeOK'
  BY <1>2, <1>3, <1>5, ReturnKeepsTypes DEF TypeOK
<1>7. QED
  BY <1>1, <1>2, <1>3, <1>4, <1>5, <1>6, ReturnKeepsControl

\* A step that moves a thread and changes no task.
LEMMA MoveStep ==
  ASSUME IInv, NEW t \in Threads, UNCHANGED <<task, lists, supMutex, taskMutex, cur>>,
         todo' \in [Workers -> SUBSET ({"cancel", "start"} \X Tasks)],
         /\ pc' \in [Threads -> WorkerLabels \cup CallLabels]
         /\ SameStages /\ ThreadLabels',
         call' \in [Threads -> Frame],
         interrupt' \in [Workers -> BOOLEAN], exception' \in [Workers -> BOOLEAN],
         currentAllowedThreads' \in 1 .. MaxNumThreads,
         step' \in [Programs -> Nat], spurious' \in Nat
  PROVE  IInv'
<1> USE DEF IInv, lists
<1>1. TypeOK'
  BY DEF TypeOK
<1>2. SameProgress /\ \A k \in Tasks : /\ task'[k].m_ReadyToRun = task[k].m_ReadyToRun
                                      /\ task[k].m_Dependencies \subseteq task'[k].m_Dependencies
  BY DEF SameProgress
<1>3. EachTaskInOneList' /\ NotTaken' /\ \A k \in Tasks : Queued(k)' => Queued(k)
  BY <1>2, QueueKept
<1>4. QED
  BY <1>1, <1>2, <1>3, StagesKept

LEMMA WaitOnStep ==
  ASSUME IInv, NEW t \in Threads, WaitOn(t)
  PROVE  IInv'
<1> USE DEF IInv, flags, env
<1>1. /\ UNCHANGED <<task, lists, supMutex, taskMutex, cur, todo>>
      /\ UNCHANGED <<interrupt, exception, currentAllowedThreads, step, spurious>>
      /\ pc[t] = "waitOn" /\ pc[t] \in CallLabels \ {"func"}
  BY DEF WaitOn, CallLabels
<1>2. CASE pc' = [pc EXCEPT ![t] = "onFinish"] /\ UNCHANGED call
  BY <1>1, <1>2, MoveKeepsControl, MoveStep DEF TypeOK
<1>3. CASE Return(t) /\ call' = [call EXCEPT ![t] = NoCall]
  <2>1. Resumed(t)
    BY <1>3, FrameRets, ReturnResumes
  <2>2. SameProgress /\ \A k \in Tasks : /\ task'[k].m_ReadyToRun = task[k].m_ReadyToRun
                                        /\ task[k].m_Dependencies \subseteq task'[k].m_Dependencies
    BY <1>1 DEF SameProgress
  <2>3. EachTaskInOneList' /\ NotTaken' /\ \A k \in Tasks : Queued(k)' => Queued(k)
    BY <1>1, <2>2, QueueKept DEF lists
  <2>4. TypeOK'
    BY <1>1, <1>3, <2>1, ReturnKeepsTypes DEF TypeOK, lists
  <2>5. QED
    BY <1>1, <1>3, <2>1, <2>2, <2>3, <2>4, ReturnKeepsControl DEF lists
<1>4. QED
  BY <1>2, <1>3 DEF WaitOn

LEMMA BeginCallStep ==
  ASSUME IInv, NEW t \in Threads, BeginCall(t)
  PROVE  IInv'
<1> USE DEF IInv, flags
<1>1. /\ UNCHANGED <<task, lists, supMutex, taskMutex, cur, todo>>
      /\ UNCHANGED <<interrupt, exception, currentAllowedThreads, spurious>>
      /\ pc[t] = "func"
  BY DEF BeginCall
<1>2. Program(t) \in Programs
  BY <1>1 DEF Program, Programs, ThreadLabels, TypeOK, Threads
<1>3. PICK c \in NextCalls(Program(t)) :
        /\ c.op \in TaskOps
        /\ call' = [call EXCEPT ![t] = [op |-> c.op, task |-> c.task, other |-> c.other,
                                        ret |-> "func"]]
        /\ pc' = [pc EXCEPT ![t] = EntryLabel(c.op)]
  BY DEF BeginCall
<1>4. c \in Call
  BY <1>2, <1>3 DEF NextCalls, TypeOK
<1>5. c.task \in Tasks /\ c.other \in Tasks
  BY <1>3, <1>4 DEF Call, TaskOps, LinkOps
<1>6. /\ EntryLabel(c.op) \in {"lockSupervisor", "waitOn", "link"}
      /\ EntryLabel(c.op) = "lockSupervisor" => c.op \in {"push", "cancel"}
  BY <1>3 DEF EntryLabel, TaskOps, LinkOps
<1>7. /\ pc' \in [Threads -> WorkerLabels \cup CallLabels] /\ pc'[t] = EntryLabel(c.op)
      /\ \A u \in Threads \ {t} : pc'[u] = pc[u]
  BY <1>3, <1>6 DEF TypeOK, CallLabels
<1>8. /\ call' \in [Threads -> Frame] /\ call'[t].ret = "func" /\ call'[t].op = c.op
      /\ call'[t].task = c.task /\ call'[t].other = c.other
      /\ \A u \in Threads \ {t} : call'[u] = call[u]
  BY <1>3, <1>5 DEF TypeOK, Frame
<1>9. SameStages
  BY <1>1, <1>6, <1>7, <1>8 DEF SameStages, EndingTask, Threads
<1>10. ThreadLabels'
  <2>1. \A w \in Workers : pc'[w] \in {"loop", "getTask", "waiting"} <=> cur'[w] = NoTask
    BY <1>1, <1>9 DEF ThreadLabels, SameStages
  <2>2. \A d \in Clients : pc'[d] \in CallLabels /\ call'[d].ret = "func"
    BY <1>6, <1>7, <1>8 DEF ThreadLabels, Threads, CallLabels
  <2>3. \A u \in Threads :
          /\ pc'[u] \in CallLabels \ {"func"} => call'[u].task \in Tasks /\ call'[u].other \in Tasks
          /\ pc'[u] \in CallLabels \ {"func", "lockSupervisor", "lockTask"} => call'[u].ret = "func"
          /\ pc'[u] \in {"lockSupervisor", "lockTask"} => call'[u].op \in {"push", "cancel", "start"}
          /\ call'[u].op = "start" => call'[u].ret = "dispatch"
    BY <1>3, <1>5, <1>6, <1>7, <1>8 DEF ThreadLabels, CallLabels, TaskOps, LinkOps
  <2>4. QED
    BY <2>1, <2>2, <2>3 DEF ThreadLabels
<1>11. step' \in [Programs -> Nat]
  BY <1>2 DEF BeginCall, TypeOK
<1>12. QED
  BY <1>1, <1>7, <1>8, <1>9, <1>10, <1>11, MoveStep DEF TypeOK

LEMMA SetAllowableThreadsStep ==
  ASSUME IInv, NEW t \in Threads, SetAllowableThreads(t)
  PROVE  IInv'
<1> USE DEF IInv, flags
<1>1. /\ UNCHANGED <<task, lists, supMutex, taskMutex, cur, todo>>
      /\ UNCHANGED <<interrupt, exception, spurious, pc, call>>
      /\ pc[t] = "func"
  BY DEF SetAllowableThreads
<1>2. Program(t) \in Programs
  BY <1>1 DEF Program, Programs, ThreadLabels, TypeOK, Threads
<1>3. PICK c \in NextCalls(Program(t)) : c.op = "allow" /\ currentAllowedThreads' = c.n
  BY DEF SetAllowableThreads
<1>4. c \in Call
  BY <1>2, <1>3 DEF NextCalls, TypeOK
<1>5. currentAllowedThreads' \in 1 .. MaxNumThreads
  BY <1>3, <1>4 DEF Call, TaskOps, LinkOps
<1>6. step' \in [Programs -> Nat]
  BY <1>2 DEF SetAllowableThreads, TypeOK
<1>7. SameStages /\ ThreadLabels'
  BY <1>1 DEF SameStages, EndingTask, ThreadLabels
<1>8. QED
  BY <1>1, <1>5, <1>6, <1>7, MoveStep DEF TypeOK

LEMMA SpuriousWakeupStep ==
  ASSUME IInv, NEW t \in Threads, SpuriousWakeup(t)
  PROVE  IInv'
<1> USE DEF IInv, flags
<1>1. /\ UNCHANGED <<task, lists, supMutex, taskMutex, cur, todo, call>>
      /\ UNCHANGED <<interrupt, exception, currentAllowedThreads, step>>
      /\ spurious' \in Nat
  BY DEF SpuriousWakeup, TypeOK
<1>2. \/ t \in Workers /\ pc[t] = "waiting" /\ pc' = [pc EXCEPT ![t] = "getTask"]
      \/ pc[t] = "onFinish" /\ pc' = [pc EXCEPT ![t] = "waitOn"]
  BY DEF SpuriousWakeup, ThreadLabels, CallLabels, Threads
<1>3. /\ pc' \in [Threads -> WorkerLabels \cup CallLabels]
      /\ SameStages /\ ThreadLabels'
  BY <1>1, <1>2, MoveKeepsControl
<1>4. QED
  BY <1>1, <1>3, MoveStep DEF TypeOK

-----------------------------------------------------------------------------
(* The steps of a worker. *)

LEMMA EnterLoopStep ==
  ASSUME IInv, NEW w \in Workers, EnterLoop(w)
  PROVE  IInv'
<1> USE DEF IInv, flags, env
<1>1. /\ UNCHANGED <<task, lists, supMutex, taskMutex, cur, todo, call>>
      /\ UNCHANGED <<exception, currentAllowedThreads, step, spurious>>
      /\ pc[w] = "loop" /\ pc' = [pc EXCEPT ![w] = "getTask"] /\ w \in Threads
      /\ interrupt' \in [Workers -> BOOLEAN]
  BY DEF EnterLoop, TypeOK, Threads
<1>2. /\ pc' \in [Threads -> WorkerLabels \cup CallLabels]
      /\ SameStages /\ ThreadLabels'
  BY <1>1, MoveKeepsControl
<1>3. QED
  BY <1>1, <1>2, MoveStep DEF TypeOK

\* A worker goes from one label to another that is not inside a call.
LEMMA WorkerLabelsKept ==
  ASSUME IInv, NEW w \in Workers, NEW l \in WorkerLabels \cup {"func"},
         \A u \in Threads \ {w} :
           pc'[u] = pc[u] \/ (pc[u] = "onFinish" /\ pc'[u] = "waitOn"),
         pc'[w] = l, UNCHANGED call,
         \A v \in Workers \ {w} : cur'[v] = cur[v],
         cur'[w] = NoTask <=> l \in {"loop", "getTask", "waiting"}
  PROVE  ThreadLabels'
<1> USE DEF IInv
<1>1. ASSUME NEW v \in Workers
      PROVE  pc'[v] \in {"loop", "getTask", "waiting"} <=> cur'[v] = NoTask
  BY DEF ThreadLabels, Threads
<1>2. \A c \in Clients : c \in Threads \ {w} /\ pc'[c] \in CallLabels /\ call'[c].ret = "func"
  BY DEF ThreadLabels, Threads, CallLabels
<1>3. ASSUME NEW u \in Threads
      PROVE  /\ pc'[u] \in CallLabels \ {"func"} => call'[u].task \in Tasks /\ call'[u].other \in Tasks
             /\ pc'[u] \in CallLabels \ {"func", "lockSupervisor", "lockTask"} => call'[u].ret = "func"
             /\ pc'[u] \in {"lockSupervisor", "lockTask"} => call'[u].op \in {"push", "cancel", "start"}
             /\ call'[u].op = "start" => call'[u].ret = "dispatch"
  <2>1. CASE u = w
    BY <2>1 DEF ThreadLabels, WorkerLabels, CallLabels
  <2>2. CASE u # w
    BY <2>2 DEF ThreadLabels, CallLabels
  <2>3. QED
    BY <2>1, <2>2
<1>4. QED
  BY <1>1, <1>2, <1>3 DEF ThreadLabels

LEMMA GetTaskStep ==
  ASSUME IInv, NEW w \in Workers, GetTask(w)
  PROVE  IInv'
<1> USE DEF IInv, flags, env
<1>1. /\ w \in Threads /\ pc[w] = "getTask"
      /\ UNCHANGED <<task, m_WaitingTasks, m_FinishedTasks, m_CanceledTasks, supMutex, taskMutex>>
      /\ UNCHANGED <<call, todo, interrupt, exception, currentAllowedThreads, step, spurious>>
  BY DEF GetTask, Threads
<1>2. CASE m_ReadyTasks = <<>>
  <2>1. /\ pc' = [pc EXCEPT ![w] = "waiting"]
        /\ UNCHANGED <<lists, cur>>
    BY <1>1, <1>2 DEF GetTask, lists
  <2>2. /\ pc' \in [Threads -> WorkerLabels \cup CallLabels]
        /\ SameStages /\ ThreadLabels'
    BY <1>1, <2>1, MoveKeepsControl
  <2>3. QED
    BY <1>1, <2>1, <2>2, MoveStep DEF TypeOK
<1>3. CASE m_ReadyTasks # <<>>
  <2>0. PICK k : k = Head(m_ReadyTasks)
    OBVIOUS
  <2>1. /\ cur' = [cur EXCEPT ![w] = k] /\ m_ReadyTasks' = Tail(m_ReadyTasks)
        /\ m_RunningTasks' = m_RunningTasks \cup {k}
        /\ pc' = [pc EXCEPT ![w] = "run"]
    BY <1>3, <2>0 DEF GetTask
  <2>2. /\ m_ReadyTasks' \in Seq(Tasks) /\ k \in Tasks /\ Queued(k)
        /\ \A j : Queued(j)' <=> Queued(j) /\ j # k
        /\ \A i, j \in DOMAIN m_ReadyTasks' : m_ReadyTasks'[i] = m_ReadyTasks'[j] => i = j
    <3>1. /\ m_ReadyTasks \in Seq(Tasks)
          /\ \A i, j \in DOMAIN m_ReadyTasks : m_ReadyTasks[i] = m_ReadyTasks[j] => i = j
      BY DEF TypeOK, EachTaskInOneList
    <3> DEFINE q == Tail(m_ReadyTasks)
    <3>2. /\ q \in Seq(Tasks) /\ k \in Tasks
          /\ \E i \in DOMAIN m_ReadyTasks : m_ReadyTasks[i] = k
          /\ \A j : (\E i \in DOMAIN q : q[i] = j)
                      <=> (\E i \in DOMAIN m_ReadyTasks : m_ReadyTasks[i] = j) /\ j # k
          /\ \A i, j \in DOMAIN q : q[i] = q[j] => i = j
      BY <1>3, <2>0, <3>1, QueueTail, ZenonT(60)
    <3>3. m_ReadyTasks' = q
      BY <2>1
    <3> HIDE DEF q
    <3>4. QED
      BY <3>2, <3>3 DEF Queued
  <2>3. /\ task[k].m_ReadyToRun /\ ~task[k].m_Started
        /\ \A v \in Workers : cur[v] # k
        /\ k \notin m_RunningTasks \cup m_FinishedTasks \cup m_CanceledTasks
    BY <2>2 DEF EachTaskInOneList, NotTaken
  <2>4. /\ cur' \in [Workers -> Tasks \cup {NoTask}] /\ cur'[w] = k /\ k # NoTask
        /\ \A v \in Workers \ {w} : cur'[v] = cur[v]
        /\ pc' \in [Threads -> WorkerLabels \cup CallLabels] /\ pc'[w] = "run"
        /\ \A u \in Threads \ {w} : pc'[u] = pc[u]
    BY <1>1, <2>1, <2>2 DEF TypeOK, WorkerLabels
  <2>5. TypeOK'
    BY <1>1, <2>1, <2>2, <2>4 DEF TypeOK
  <2>6. EachTaskInOneList'
    <3>1. \A j \in Tasks :
            /\ task[j].m_ReadyToRun <=>
                 Queued(j)' \/ j \in m_RunningTasks' \cup m_FinishedTasks \cup m_CanceledTasks
            /\ Queued(j)' => j \notin m_RunningTasks' \cup m_FinishedTasks \cup m_CanceledTasks
      BY <2>1, <2>2, <2>3 DEF EachTaskInOneList
    <3>2. m_RunningTasks' \cap (m_FinishedTasks \cup m_CanceledTasks) = {}
      BY <2>1, <2>3 DEF EachTaskInOneList
    <3>3. QED
      BY <1>1, <2>2, <3>1, <3>2 DEF EachTaskInOneList
  <2>7. OneExecutor'
    BY <2>1, <2>3, <2>4 DEF OneExecutor, Threads
  <2>8. TerminalListsTruthful'
    BY <1>1 DEF TerminalListsTruthful
  <2>9. \A v \in Workers \ {w} : EndingTask(v)' <=> EndingTask(v)
    BY <1>1, <2>4 DEF EndingTask, Threads
  <2>10. ~EndingTask(w)' /\ ~EndingTask(w)
    BY <1>1, <2>4 DEF EndingTask
  <2>11. TaskMutexDiscipline'
    BY <1>1, <2>4, <2>9, <2>10 DEF TaskMutexDiscipline
  <2>12. ThreadLabels'
    <3>1. cur'[w] = NoTask <=> "run" \in {"loop", "getTask", "waiting"}
      BY <2>4
    <3>2. QED
      BY <1>1, <2>4, <3>1, WorkerLabelsKept DEF WorkerLabels
  <2>13. StageOfTask'
    <3>1. StageOf(w, k)'
      BY <1>1, <2>1, <2>2, <2>3, <2>4, <2>10 DEF StageOf
    <3>2. ASSUME NEW v \in Workers, v # w, cur[v] # NoTask
          PROVE  StageOf(v, cur[v])' /\ cur'[v] = cur[v]
      <4>0. PICK j \in Tasks : j = cur[v]
        BY <3>2 DEF TypeOK
      <4>1. StageOf(v, j) /\ cur'[v] = j /\ pc'[v] = pc[v] /\ (EndingTask(v)' <=> EndingTask(v))
        BY <2>4, <2>9, <3>2, <4>0 DEF StageOfTask, Threads
      <4>2. StageOf(v, j)'
        BY <1>1, <2>1, <2>2, <4>1 DEF StageOf
      <4>3. QED
        BY <4>0, <4>1, <4>2 DEF StageOf, Queued, EndingTask
    <3>3. QED
      BY <2>4, <3>1, <3>2 DEF StageOfTask
  <2>14. NotTaken'
    BY <1>1, <2>2, <2>3, <2>4 DEF NotTaken
  <2>15. QED
    BY <2>5, <2>6, <2>7, <2>8, <2>11, <2>12, <2>13, <2>14
<1>4. QED
  BY <1>2, <1>3

\* The list that a task in a worker's hands is in: it stays there, or it goes from
\* m_RunningTasks to one of the terminal lists.
Moved(k) ==
  \/ UNCHANGED <<m_RunningTasks, m_FinishedTasks, m_CanceledTasks>>
  \/ /\ k \in m_RunningTasks
     /\ m_RunningTasks' = m_RunningTasks \ {k}
     /\ \/ m_FinishedTasks' = m_FinishedTasks \cup {k} /\ UNCHANGED m_CanceledTasks
        \/ m_CanceledTasks' = m_CanceledTasks \cup {k} /\ UNCHANGED m_FinishedTasks

\* Worker w goes to label l with its task k: nothing else is disturbed.
LEMMA StageStep ==
  ASSUME IInv, NEW w \in Workers, NEW k \in Tasks, cur[w] = k,
         NEW l \in {"func", "drop", "return", "finish", "dispatch", "loop"},
         pc[w] \in WorkerLabels \cup {"func"}, pc'[w] = l, UNCHANGED call,
         \A u \in Threads \ {w} : pc'[u] = pc[u] \/ (pc[u] = "onFinish" /\ pc'[u] = "waitOn"),
         \A j \in Tasks \ {k} : task'[j] = task[j] /\ taskMutex'[j] = taskMutex[j],
         task'[k].m_ReadyToRun = task[k].m_ReadyToRun,
         task'[k].m_Dependencies = task[k].m_Dependencies,
         taskMutex'[k] = IF l \in {"drop", "finish", "dispatch"} THEN w ELSE NoThread,
         \A v \in Workers \ {w} : cur'[v] = cur[v],
         cur'[w] = IF l = "loop" THEN NoTask ELSE k,
         UNCHANGED <<m_ReadyTasks, m_WaitingTasks>>, Moved(k),
         l # "loop" => StageOf(w, k)',
         l \in {"drop", "return", "finish"} => k \in m_RunningTasks',
         k \in m_FinishedTasks' => task'[k].m_Done /\ task'[k].m_Started /\ task'[k].m_Result,
         k \in m_CanceledTasks' => ~task'[k].m_Started /\ ~task'[k].m_KeepRunning
  PROVE  /\ EachTaskInOneList' /\ OneExecutor' /\ TerminalListsTruthful' /\ TaskMutexDiscipline'
         /\ ThreadLabels' /\ StageOfTask' /\ NotTaken'
<1> USE DEF IInv
<1>1. \A v \in Workers \ {w} : cur[v] # k
  BY DEF OneExecutor
<1>2. \A v \in Workers \ {w} : EndingTask(v)' <=> EndingTask(v)
  BY DEF EndingTask, Threads
<1>3. EndingTask(w)' <=> l \in {"drop", "finish", "dispatch"}
  BY DEF EndingTask
<1>4. task[k].m_ReadyToRun /\ ~Queued(k)
  BY DEF NotTaken
<1>5. \A j : Queued(j)' <=> Queued(j)
  BY DEF Queued
<1>6. EachTaskInOneList'
  <2>1. \A i, j \in DOMAIN m_ReadyTasks' : m_ReadyTasks'[i] = m_ReadyTasks'[j] => i = j
    BY DEF EachTaskInOneList
  <2>2. \A j \in Tasks : task'[j].m_ReadyToRun = task[j].m_ReadyToRun
                         /\ task'[j].m_Dependencies = task[j].m_Dependencies
    OBVIOUS
  <2>3. ASSUME NEW j \in Tasks
        PROVE  /\ task'[j].m_ReadyToRun <=>
                    Queued(j)' \/ j \in m_RunningTasks' \cup m_FinishedTasks' \cup m_CanceledTasks'
               /\ Queued(j)' => j \notin m_RunningTasks' \cup m_FinishedTasks' \cup m_CanceledTasks'
    <3>1. /\ task[j].m_ReadyToRun <=>
                    Queued(j) \/ j \in m_RunningTasks \cup m_FinishedTasks \cup m_CanceledTasks
          /\ Queued(j) => j \notin m_RunningTasks \cup m_FinishedTasks \cup m_CanceledTasks
      BY DEF EachTaskInOneList
    <3>2. QED
      BY <1>4, <1>5, <2>2, <3>1 DEF Moved
  <2>4. /\ m_RunningTasks' \cap (m_FinishedTasks' \cup m_CanceledTasks') = {}
        /\ m_FinishedTasks' \cap m_CanceledTasks' = {}
    BY DEF EachTaskInOneList, Moved
  <2>5. \A j \in m_WaitingTasks : ~task'[j].m_ReadyToRun /\ task'[j].m_Dependencies # {}
    <3>1. \A j \in m_WaitingTasks :
            j \in Tasks /\ ~task[j].m_ReadyToRun /\ task[j].m_Dependencies # {}
      BY DEF EachTaskInOneList, TypeOK
    <3>2. QED
      BY <2>2, <3>1
  <2>6. m_WaitingTasks' = m_WaitingTasks
    OBVIOUS
  <2>7. QED
    BY <2>1, <2>3, <2>4, <2>5, <2>6 DEF EachTaskInOneList
<1>7. OneExecutor'
  <2>1. \A v \in Workers : cur'[v] # NoTask => cur'[v] = cur[v]
    OBVIOUS
  <2>2. ASSUME NEW u \in Workers, NEW v \in Workers, cur'[u] = cur'[v], cur'[u] # NoTask
        PROVE  u = v
    BY <2>1, <2>2 DEF OneExecutor
  <2>3. ASSUME NEW v \in Workers, pc'[v] \in {"run", "drop", "return", "finish"}
        PROVE  cur'[v] \in m_RunningTasks'
    <3>1. CASE v = w
      BY <2>3, <3>1
    <3>2. CASE v # w
      BY <1>1, <2>3, <3>2 DEF OneExecutor, Moved, Threads
    <3>3. QED
      BY <3>1, <3>2
  <2>4. QED
    BY <2>2, <2>3 DEF OneExecutor
<1>8. TerminalListsTruthful'
  <2>1. /\ \A j \in m_FinishedTasks' : j \in Tasks /\ (j # k => j \in m_FinishedTasks)
        /\ \A j \in m_CanceledTasks' : j \in Tasks /\ (j # k => j \in m_CanceledTasks)
    BY DEF Moved, TypeOK
  <2>2. QED
    BY <2>1 DEF TerminalListsTruthful
<1>9. TaskMutexDiscipline'
  <2>1. ASSUME NEW j \in Tasks, NEW v \in Workers
        PROVE  taskMutex'[j] = v <=> (cur'[v] = j /\ EndingTask(v)')
    <3>1. CASE v = w
      <4>1. CASE j = k
        BY <1>3, <3>1, <4>1 DEF Threads
      <4>2. CASE j # k
        BY <1>3, <3>1, <4>2 DEF TaskMutexDiscipline
      <4>3. QED
        BY <4>1, <4>2
    <3>2. CASE v # w
      BY <1>1, <1>2, <3>2 DEF TaskMutexDiscipline, Threads
    <3>3. QED
      BY <3>1, <3>2
  <2>2. QED
    BY <2>1 DEF TaskMutexDiscipline
<1>10. ThreadLabels'
  <2>1. cur'[w] = NoTask <=> l \in {"loop", "getTask", "waiting"}
    OBVIOUS
  <2>2. QED
    BY <2>1, WorkerLabelsKept DEF WorkerLabels
<1>11. StageOfTask'
  <2>1. ASSUME NEW v \in Workers, v # w, cur[v] # NoTask
        PROVE  StageOf(v, cur[v])'
    <3>1. PICK j \in Tasks : j = cur[v]
      BY <2>1 DEF TypeOK
    <3>2. StageOf(v, j) /\ j # k
      BY <1>1, <2>1, <3>1 DEF StageOfTask
    <3>3. /\ pc[v] \in {"run", "drop", "finish", "return"} <=> pc'[v] \in {"run", "drop", "finish", "return"}
          /\ pc[v] = "run" <=> pc'[v] = "run"
          /\ pc[v] = "drop" <=> pc'[v] = "drop"
          /\ pc[v] = "finish" <=> pc'[v] = "finish"
          /\ pc[v] = "return" <=> pc'[v] = "return"
      BY <2>1 DEF Threads
    <3>4. /\ j \in m_RunningTasks => j \in m_RunningTasks'
          /\ j \in m_FinishedTasks => j \in m_FinishedTasks'
      BY <3>2 DEF Moved
    <3>5. StageOf(v, j)'
      BY <1>2, <1>5, <2>1, <3>2, <3>3, <3>4 DEF StageOf
    <3>6. QED
      BY <2>1, <3>1, <3>5 DEF StageOf, Queued, EndingTask
  <2>2. l # "loop" => StageOf(w, cur[w])'
    BY DEF StageOf, Queued, EndingTask
  <2>3. QED
    BY <2>1, <2>2 DEF StageOfTask, StageOf, Queued, EndingTask
<1>12. NotTaken'
  <2>1. ASSUME NEW j \in Tasks, ~task'[j].m_ReadyToRun \/ Queued(j)'
        PROVE  ~task'[j].m_Started /\ \A v \in Workers : cur'[v] # j
    <3>1. j # k /\ task'[j] = task[j] /\ (Queued(j)' <=> Queued(j))
      BY <1>4, <1>5, <2>1
    <3>2. ~task[j].m_Started /\ \A v \in Workers : cur[v] # j
      BY <2>1, <3>1 DEF NotTaken
    <3>3. \A v \in Workers : cur'[v] = cur[v] \/ cur'[v] = k \/ cur'[v] = NoTask
      OBVIOUS
    <3>4. QED
      BY <3>1, <3>2, <3>3
  <2>2. QED
    BY <2>1 DEF NotTaken
<1>13. QED
  BY <1>6, <1>7, <1>8, <1>9, <1>10, <1>11, <1>12

LEMMA RunTaskStep ==
  ASSUME IInv, NEW w \in Workers, RunTask(w)
  PROVE  IInv'
<1> USE DEF IInv, lists, flags, env
<1>1. /\ w \in Threads /\ pc[w] = "run" /\ cur[w] \in Tasks
      /\ UNCHANGED <<m_ReadyTasks, m_RunningTasks, m_WaitingTasks, m_FinishedTasks, m_CanceledTasks>>
      /\ UNCHANGED <<supMutex, cur, call, todo, interrupt, exception>>
      /\ UNCHANGED <<currentAllowedThreads, step, spurious>>
  <2>1. w \in Threads /\ pc[w] = "run"
    BY DEF RunTask, Threads
  <2>2. cur[w] \in Tasks
    BY <2>1 DEF ThreadLabels, TypeOK
  <2>3. QED
    BY <2>1, <2>2 DEF RunTask
<1>2. PICK k \in Tasks : k = cur[w]
  BY <1>1
<1>3. /\ k \in m_RunningTasks /\ StageOf(w, k) /\ taskMutex[k] = NoThread
      /\ k \notin m_FinishedTasks /\ k \notin m_CanceledTasks /\ k # NoTask
  BY <1>1, <1>2 DEF RunTask, OneExecutor, StageOfTask, EachTaskInOneList
<1>4. CASE task[k].m_KeepRunning
  <2> DEFINE s == [task[k] EXCEPT !.m_CurrentThread = w, !.m_Started = TRUE, !.m_Running = TRUE]
  <2>1. task' = [task EXCEPT ![k] = s] /\ pc' = [pc EXCEPT ![w] = "func"] /\ taskMutex' = taskMutex
    BY <1>2, <1>4 DEF RunTask
  <2>2. /\ s \in ThreadTask /\ s.m_ReadyToRun = task[k].m_ReadyToRun /\ s.m_Started
        /\ s.m_Dependencies = task[k].m_Dependencies
    <3>1. task[k] \in ThreadTask
      BY DEF TypeOK
    <3>2. QED
      BY <3>1 DEF ThreadTask
  <2> HIDE DEF s
  <2>3. task' \in [Tasks -> ThreadTask] /\ task'[k] = s /\ \A j \in Tasks \ {k} : task'[j] = task[j]
    BY <2>1, <2>2, TaskUpdate
  <2>4. /\ pc' \in [Threads -> WorkerLabels \cup CallLabels] /\ pc'[w] = "func"
        /\ \A u \in Threads \ {w} : pc'[u] = pc[u]
    BY <1>1, <2>1 DEF TypeOK, CallLabels
  <2>5. TypeOK'
    BY <1>1, <2>1, <2>3, <2>4 DEF TypeOK
  <2>6. StageOf(w, k)'
    BY <1>1, <1>3, <2>2, <2>3, <2>4 DEF StageOf, EndingTask, Queued
  <2>7. QED
    BY <1>1, <1>2, <1>3, <2>1, <2>2, <2>3, <2>4, <2>5, <2>6, StageStep DEF WorkerLabels, Moved
<1>5. CASE ~task[k].m_KeepRunning
  <2>1. task' = task /\ pc' = [pc EXCEPT ![w] = "drop"] /\ taskMutex' = [taskMutex EXCEPT ![k] = w]
    BY <1>2, <1>5 DEF RunTask
  <2>2. /\ pc' \in [Threads -> WorkerLabels \cup CallLabels] /\ pc'[w] = "drop"
        /\ \A u \in Threads \ {w} : pc'[u] = pc[u]
    BY <1>1, <2>1 DEF TypeOK, WorkerLabels
  <2>3. /\ taskMutex' \in [Tasks -> Workers \cup {NoThread}] /\ taskMutex'[k] = w
        /\ \A j \in Tasks \ {k} : taskMutex'[j] = taskMutex[j]
    BY <2>1 DEF TypeOK
  <2>4. TypeOK'
    BY <1>1, <2>1, <2>2, <2>3 DEF TypeOK
  <2>5. StageOf(w, k)'
    BY <1>1, <1>3, <1>5, <2>1, <2>2 DEF StageOf, EndingTask, Queued
  <2>6. QED
    BY <1>1, <1>2, <1>3, <2>1, <2>2, <2>3, <2>4, <2>5, StageStep DEF WorkerLabels, Moved
<1>6. QED
  BY <1>4, <1>5

LEMMA FuncReturnsStep ==
  ASSUME IInv, NEW w \in Workers, FuncReturns(w)
  PROVE  IInv'
<1> USE DEF IInv, lists, flags, env
<1>1. /\ w \in Threads /\ pc[w] = "func" /\ cur[w] \in Tasks
      /\ UNCHANGED <<m_ReadyTasks, m_RunningTasks, m_WaitingTasks, m_FinishedTasks, m_CanceledTasks>>
      /\ UNCHANGED <<supMutex, taskMutex, cur, call, todo, interrupt, exception>>
      /\ UNCHANGED <<currentAllowedThreads, step, spurious>>
  BY DEF FuncReturns, Threads, ThreadLabels, TypeOK
<1>2. PICK k \in Tasks : k = cur[w]
  BY <1>1
<1>3. /\ StageOf(w, k) /\ ~EndingTask(w) /\ k # NoTask
  BY <1>1, <1>2 DEF StageOfTask, EndingTask
<1>4. /\ k \in m_RunningTasks /\ taskMutex[k] = NoThread
      /\ k \notin m_FinishedTasks /\ k \notin m_CanceledTasks
  <2>1. k \in m_RunningTasks
    BY <1>3 DEF StageOf
  <2>2. \A v \in Workers : taskMutex[k] # v
    BY <1>2, <1>3 DEF TaskMutexDiscipline, OneExecutor
  <2>3. QED
    BY <2>1, <2>2 DEF EachTaskInOneList, TypeOK
<1> DEFINE s == [task[k] EXCEPT !.m_Result = TRUE]
<1>5. task' = [task EXCEPT ![k] = s] /\ pc' = [pc EXCEPT ![w] = "return"]
  BY <1>2 DEF FuncReturns
<1>6. /\ s \in ThreadTask /\ s.m_ReadyToRun = task[k].m_ReadyToRun /\ s.m_Result
      /\ s.m_Dependencies = task[k].m_Dependencies /\ s.m_Started = task[k].m_Started
  <2>1. task[k] \in ThreadTask
    BY DEF TypeOK
  <2>2. QED
    BY <2>1 DEF ThreadTask
<1> HIDE DEF s
<1>7. task' \in [Tasks -> ThreadTask] /\ task'[k] = s /\ \A j \in Tasks \ {k} : task'[j] = task[j]
  BY <1>5, <1>6, TaskUpdate
<1>8. /\ pc' \in [Threads -> WorkerLabels \cup CallLabels] /\ pc'[w] = "return"
      /\ \A u \in Threads \ {w} : pc'[u] = pc[u]
  BY <1>1, <1>5 DEF TypeOK, WorkerLabels
<1>9. TypeOK'
  BY <1>1, <1>7, <1>8 DEF TypeOK
<1>10. StageOf(w, k)'
  BY <1>1, <1>3, <1>4, <1>6, <1>7, <1>8 DEF StageOf, EndingTask, Queued
<1>11. QED
  BY <1>1, <1>2, <1>4, <1>6, <1>7, <1>8, <1>9, <1>10, StageStep DEF WorkerLabels, Moved

LEMMA AfterFuncStep ==
  ASSUME IInv, NEW w \in Workers, AfterFunc(w)
  PROVE  IInv'
<1> USE DEF IInv, lists, flags, env
<1>1. /\ w \in Threads /\ pc[w] = "return" /\ cur[w] \in Tasks
      /\ UNCHANGED <<m_ReadyTasks, m_RunningTasks, m_WaitingTasks, m_FinishedTasks, m_CanceledTasks>>
      /\ UNCHANGED <<supMutex, call, todo, interrupt, exception>>
      /\ UNCHANGED <<currentAllowedThreads, step, spurious>>
  <2>1. w \in Threads /\ pc[w] = "return"
    BY DEF AfterFunc, Threads
  <2>2. cur[w] \in Tasks
    BY <2>1 DEF ThreadLabels, TypeOK
  <2>3. QED
    BY <2>1, <2>2 DEF AfterFunc
<1>2. PICK k \in Tasks : k = cur[w]
  BY <1>1
<1>3. /\ k \in m_RunningTasks /\ StageOf(w, k) /\ taskMutex[k] = NoThread
      /\ k \notin m_FinishedTasks /\ k \notin m_CanceledTasks /\ k # NoTask
  BY <1>1, <1>2 DEF AfterFunc, OneExecutor, StageOfTask, EachTaskInOneList
<1>4. CASE task[k].m_KeepRunning
  <2> DEFINE s == [task[k] EXCEPT !.m_Running = FALSE, !.m_Done = TRUE, !.m_CurrentThread = NoThread]
  <2>1. /\ task' = [task EXCEPT ![k] = s] /\ pc' = [pc EXCEPT ![w] = "finish"]
        /\ taskMutex' = [taskMutex EXCEPT ![k] = w] /\ cur' = cur
    BY <1>2, <1>4 DEF AfterFunc
  <2>2. /\ s \in ThreadTask /\ s.m_ReadyToRun = task[k].m_ReadyToRun /\ s.m_Done
        /\ s.m_Dependencies = task[k].m_Dependencies /\ s.m_Started = task[k].m_Started
        /\ s.m_Result = task[k].m_Result /\ s.m_KeepRunning = task[k].m_KeepRunning
    <3>1. task[k] \in ThreadTask
      BY DEF TypeOK
    <3>2. QED
      BY <3>1 DEF ThreadTask
  <2> HIDE DEF s
  <2>3. task' \in [Tasks -> ThreadTask] /\ task'[k] = s /\ \A j \in Tasks \ {k} : task'[j] = task[j]
    BY <2>1, <2>2, TaskUpdate
  <2>4. /\ pc' \in [Threads -> WorkerLabels \cup CallLabels] /\ pc'[w] = "finish"
        /\ \A u \in Threads \ {w} : pc'[u] = pc[u]
    BY <1>1, <2>1 DEF TypeOK, WorkerLabels
  <2>5. /\ taskMutex' \in [Tasks -> Workers \cup {NoThread}] /\ taskMutex'[k] = w
        /\ \A j \in Tasks \ {k} : taskMutex'[j] = taskMutex[j]
    BY <2>1 DEF TypeOK
  <2>6. TypeOK'
    BY <1>1, <2>1, <2>3, <2>4, <2>5 DEF TypeOK
  <2>7. StageOf(w, k)'
    BY <1>1, <1>3, <1>4, <2>2, <2>3, <2>4 DEF StageOf, EndingTask, Queued
  <2>8. QED
    BY <1>1, <1>2, <1>3, <2>1, <2>2, <2>3, <2>4, <2>5, <2>6, <2>7, StageStep DEF WorkerLabels, Moved
<1>5. CASE ~task[k].m_KeepRunning
  <2> DEFINE s == [task[k] EXCEPT !.m_Running = FALSE]
  <2>1. /\ task' = [task EXCEPT ![k] = s] /\ pc' = [pc EXCEPT ![w] = "loop"]
        /\ cur' = [cur EXCEPT ![w] = NoTask] /\ taskMutex' = taskMutex
    BY <1>2, <1>5 DEF AfterFunc
  <2>2. /\ s \in ThreadTask /\ s.m_ReadyToRun = task[k].m_ReadyToRun
        /\ s.m_Dependencies = task[k].m_Dependencies
    <3>1. task[k] \in ThreadTask
      BY DEF TypeOK
    <3>2. QED
      BY <3>1 DEF ThreadTask
  <2> HIDE DEF s
  <2>3. task' \in [Tasks -> ThreadTask] /\ task'[k] = s /\ \A j \in Tasks \ {k} : task'[j] = task[j]
    BY <2>1, <2>2, TaskUpdate
  <2>4. /\ pc' \in [Threads -> WorkerLabels \cup CallLabels] /\ pc'[w] = "loop"
        /\ \A u \in Threads \ {w} : pc'[u] = pc[u]
    BY <1>1, <2>1 DEF TypeOK, WorkerLabels
  <2>5. /\ cur' \in [Workers -> Tasks \cup {NoTask}] /\ cur'[w] = NoTask
        /\ \A v \in Workers \ {w} : cur'[v] = cur[v]
    BY <2>1 DEF TypeOK
  <2>6. TypeOK'
    BY <1>1, <2>1, <2>3, <2>4, <2>5 DEF TypeOK
  <2>7. QED
    BY <1>1, <1>2, <1>3, <2>1, <2>2, <2>3, <2>4, <2>5, <2>6, StageStep DEF WorkerLabels, Moved
<1>6. QED
  BY <1>4, <1>5

\* The labels after the broadcast of _i_finished.
LEMMA FinishedLabels ==
  ASSUME TypeOK, NEW w \in Workers, NEW k \in Tasks, NEW l \in WorkerLabels,
         pc' = [t \in Threads |-> IF t = w THEN l ELSE IF t \in Woken(k) THEN "waitOn" ELSE pc[t]]
  PROVE  /\ pc' \in [Threads -> WorkerLabels \cup CallLabels] /\ pc'[w] = l
         /\ \A u \in Threads \ {w} : pc'[u] = pc[u] \/ (pc[u] = "onFinish" /\ pc'[u] = "waitOn")
BY DEF TypeOK, Woken, CallLabels, Threads

LEMMA DropTaskStep ==
  ASSUME IInv, NEW w \in Workers, DropTask(w)
  PROVE  IInv'
<1> USE DEF IInv, lists, flags, env
<1>1. /\ pc[w] = "drop" /\ cur[w] \in Tasks
      /\ UNCHANGED <<task, m_ReadyTasks, m_WaitingTasks, supMutex, call, todo>>
      /\ UNCHANGED <<interrupt, exception, currentAllowedThreads, step, spurious>>
  BY DEF DropTask, MoveToFinished, ThreadLabels, TypeOK
<1>2. PICK k \in Tasks : k = cur[w]
  BY <1>1
<1>3. /\ k \in m_RunningTasks /\ StageOf(w, k) /\ ~task[k].m_KeepRunning /\ ~task[k].m_Started
      /\ k \notin m_FinishedTasks /\ k # NoTask
  BY <1>1, <1>2 DEF OneExecutor, StageOfTask, StageOf, EachTaskInOneList
<1>4. /\ m_RunningTasks' = m_RunningTasks \ {k} /\ m_CanceledTasks' = m_CanceledTasks \cup {k}
      /\ m_FinishedTasks' = m_FinishedTasks
      /\ taskMutex' = [taskMutex EXCEPT ![k] = NoThread] /\ cur' = [cur EXCEPT ![w] = NoTask]
      /\ pc' = [t \in Threads |-> IF t = w THEN "loop"
                                  ELSE IF t \in Woken(k) THEN "waitOn" ELSE pc[t]]
  BY <1>2, <1>3 DEF DropTask, MoveToFinished
<1>5. /\ pc' \in [Threads -> WorkerLabels \cup CallLabels] /\ pc'[w] = "loop"
      /\ \A u \in Threads \ {w} : pc'[u] = pc[u] \/ (pc[u] = "onFinish" /\ pc'[u] = "waitOn")
  BY <1>4, FinishedLabels DEF WorkerLabels
<1>6. /\ taskMutex' \in [Tasks -> Workers \cup {NoThread}] /\ taskMutex'[k] = NoThread
      /\ \A j \in Tasks \ {k} : taskMutex'[j] = taskMutex[j]
      /\ cur' \in [Workers -> Tasks \cup {NoTask}] /\ cur'[w] = NoTask
      /\ \A v \in Workers \ {w} : cur'[v] = cur[v]
  BY <1>4 DEF TypeOK
<1>7. TypeOK'
  BY <1>1, <1>4, <1>5, <1>6 DEF TypeOK
<1>8. Moved(k)
  BY <1>3, <1>4 DEF Moved
<1>9. QED
  BY <1>1, <1>2, <1>3, <1>4, <1>5, <1>6, <1>7, <1>8, StageStep DEF WorkerLabels

LEMMA FinishTaskStep ==
  ASSUME IInv, NEW w \in Workers, FinishTask(w)
  PROVE  IInv'
<1> USE DEF IInv, lists, flags, env
<1>1. /\ pc[w] = "finish" /\ cur[w] \in Tasks
      /\ UNCHANGED <<task, m_ReadyTasks, m_WaitingTasks, supMutex, taskMutex, cur, call>>
      /\ UNCHANGED <<interrupt, exception, currentAllowedThreads, step, spurious>>
  BY DEF FinishTask, MoveToFinished, ThreadLabels, TypeOK
<1>2. PICK k \in Tasks : k = cur[w]
  BY <1>1
<1>3. /\ k \in m_RunningTasks /\ StageOf(w, k) /\ task[k].m_KeepRunning /\ EndingTask(w)
      /\ k \notin m_CanceledTasks /\ k # NoTask
      /\ task[k].m_Done /\ task[k].m_Started /\ task[k].m_Result
  BY <1>1, <1>2 DEF OneExecutor, StageOfTask, StageOf, EachTaskInOneList, EndingTask
<1>4. /\ m_RunningTasks' = m_RunningTasks \ {k} /\ m_FinishedTasks' = m_FinishedTasks \cup {k}
      /\ m_CanceledTasks' = m_CanceledTasks
      /\ todo' = [todo EXCEPT ![w] = ({"cancel"} \X task[k].m_CancelTasks)
                                        \cup ({"start"} \X task[k].m_StartTasks)]
      /\ pc' = [t \in Threads |-> IF t = w THEN "dispatch"
                                  ELSE IF t \in Woken(k) THEN "waitOn" ELSE pc[t]]
  BY <1>2, <1>3 DEF FinishTask, MoveToFinished
<1>5. /\ pc' \in [Threads -> WorkerLabels \cup CallLabels] /\ pc'[w] = "dispatch"
      /\ \A u \in Threads \ {w} : pc'[u] = pc[u] \/ (pc[u] = "onFinish" /\ pc'[u] = "waitOn")
  BY <1>4, FinishedLabels DEF WorkerLabels
<1>6. todo' \in [Workers -> SUBSET ({"cancel", "start"} \X Tasks)]
  <2>1. task[k].m_CancelTasks \subseteq Tasks /\ task[k].m_StartTasks \subseteq Tasks
    BY DEF TypeOK, ThreadTask
  <2>2. QED
    BY <1>4, <2>1 DEF TypeOK
<1>7. TypeOK'
  BY <1>1, <1>4, <1>5, <1>6 DEF TypeOK
<1>8. Moved(k) /\ taskMutex[k] = w
  BY <1>2, <1>3, <1>4 DEF Moved, TaskMutexDiscipline
<1>9. StageOf(w, k)'
  BY <1>1, <1>3, <1>4, <1>5 DEF StageOf, EndingTask, Queued
<1>10. QED
  BY <1>1, <1>2, <1>3, <1>4, <1>5, <1>7, <1>8, <1>9, StageStep DEF WorkerLabels

LEMMA DispatchStep ==
  ASSUME IInv, NEW w \in Workers, Dispatch(w)
  PROVE  IInv'
<1> USE DEF IInv, flags, env
<1>1. /\ w \in Threads /\ pc[w] = "dispatch" /\ cur[w] \in Tasks
      /\ UNCHANGED <<task, lists, supMutex, taskMutex, cur>>
      /\ UNCHANGED <<interrupt, exception, currentAllowedThreads, step, spurious>>
      /\ pc' = [pc EXCEPT ![w] = "lockSupervisor"]
  <2>1. w \in Threads /\ pc[w] = "dispatch"
    BY DEF Dispatch, Threads
  <2>2. cur[w] \in Tasks
    BY <2>1 DEF ThreadLabels, TypeOK
  <2>3. QED
    BY <2>1, <2>2 DEF Dispatch
<1>2. PICK d \in todo[w] :
        /\ todo' = [todo EXCEPT ![w] = @ \ {d}]
        /\ call' = [call EXCEPT ![w] = [op |-> d[1], task |-> d[2], other |-> cur[w],
                                        ret |-> "dispatch"]]
  BY DEF Dispatch
<1>3. d[1] \in {"cancel", "start"} /\ d[2] \in Tasks
  BY <1>2 DEF TypeOK
<1>4. todo' \in [Workers -> SUBSET ({"cancel", "start"} \X Tasks)]
  BY <1>2 DEF TypeOK
<1>5. /\ call' \in [Threads -> Frame] /\ call'[w].op \in {"cancel", "start"}
      /\ call'[w].task \in Tasks /\ call'[w].other \in Tasks /\ call'[w].ret = "dispatch"
      /\ \A u \in Threads \ {w} : call'[u] = call[u]
  BY <1>1, <1>2, <1>3 DEF TypeOK, Frame, TaskOps
<1>6. /\ pc' \in [Threads -> WorkerLabels \cup CallLabels] /\ pc'[w] = "lockSupervisor"
      /\ \A u \in Threads \ {w} : pc'[u] = pc[u]
  BY <1>1 DEF TypeOK, CallLabels
<1>7. SameStages
  BY <1>1, <1>5, <1>6 DEF SameStages, EndingTask, Threads
<1>8. ThreadLabels'
  <2>1. \A v \in Workers : pc'[v] \in {"loop", "getTask", "waiting"} <=> cur'[v] = NoTask
    BY <1>1, <1>7 DEF ThreadLabels, SameStages
  <2>2. \A c \in Clients : c \in Threads \ {w} /\ pc'[c] \in CallLabels /\ call'[c].ret = "func"
    BY <1>5, <1>6 DEF ThreadLabels, Threads
  <2>3. ASSUME NEW u \in Threads
        PROVE  /\ pc'[u] \in CallLabels \ {"func"} => call'[u].task \in Tasks /\ call'[u].other \in Tasks
               /\ pc'[u] \in CallLabels \ {"func", "lockSupervisor", "lockTask"} => call'[u].ret = "func"
               /\ pc'[u] \in {"lockSupervisor", "lockTask"} => call'[u].op \in {"push", "cancel", "start"}
               /\ call'[u].op = "start" => call'[u].ret = "dispatch"
    <3>1. CASE u = w
      BY <1>5, <1>6, <3>1
    <3>2. CASE u # w
      BY <1>5, <1>6, <3>2 DEF ThreadLabels
    <3>3. QED
      BY <3>1, <3>2
  <2>4. QED
    BY <2>1, <2>2, <2>3 DEF ThreadLabels
<1>9. QED
  BY <1>1, <1>4, <1>5, <1>6, <1>7, <1>8, MoveStep DEF TypeOK

LEMMA EndRunStep ==
  ASSUME IInv, NEW w \in Workers, EndRun(w)
  PROVE  IInv'
<1> USE DEF IInv, lists, flags, env
<1>1. /\ w \in Threads /\ pc[w] = "dispatch" /\ cur[w] \in Tasks
      /\ UNCHANGED <<task, m_ReadyTasks, m_RunningTasks, m_WaitingTasks, m_FinishedTasks>>
      /\ UNCHANGED <<m_CanceledTasks, supMutex, call, todo, interrupt, exception>>
      /\ UNCHANGED <<currentAllowedThreads, step, spurious>>
  BY DEF EndRun, Threads, ThreadLabels, TypeOK
<1>2. PICK k \in Tasks : k = cur[w]
  BY <1>1
<1>3. /\ EndingTask(w) /\ StageOf(w, k) /\ k # NoTask
      /\ k \in m_FinishedTasks /\ k \notin m_CanceledTasks
      /\ task[k].m_Done /\ task[k].m_Started /\ task[k].m_Result
  BY <1>1, <1>2 DEF StageOfTask, StageOf, EachTaskInOneList, EndingTask
<1>4. /\ taskMutex' = [taskMutex EXCEPT ![k] = NoThread] /\ cur' = [cur EXCEPT ![w] = NoTask]
      /\ pc' = [pc EXCEPT ![w] = "loop"]
  BY <1>2 DEF EndRun
<1>5. /\ pc' \in [Threads -> WorkerLabels \cup CallLabels] /\ pc'[w] = "loop"
      /\ \A u \in Threads \ {w} : pc'[u] = pc[u]
  BY <1>1, <1>4 DEF TypeOK, WorkerLabels
<1>6. /\ taskMutex' \in [Tasks -> Workers \cup {NoThread}] /\ taskMutex'[k] = NoThread
      /\ \A j \in Tasks \ {k} : taskMutex'[j] = taskMutex[j]
      /\ cur' \in [Workers -> Tasks \cup {NoTask}] /\ cur'[w] = NoTask
      /\ \A v \in Workers \ {w} : cur'[v] = cur[v]
  BY <1>4 DEF TypeOK
<1>7. TypeOK'
  BY <1>1, <1>4, <1>5, <1>6 DEF TypeOK
<1>8. QED
  BY <1>1, <1>2, <1>3, <1>5, <1>6, <1>7, StageStep DEF WorkerLabels, Moved

-----------------------------------------------------------------------------
(* The invariant and what follows from it. *)

LEMMA StepIInv == IInv /\ [Next]_vars => IInv'
<1> SUFFICES ASSUME IInv, [Next]_vars PROVE IInv'
  OBVIOUS
<1>1. ASSUME NEW t \in Threads, CallStep(t) PROVE IInv'
  BY <1>1, LockSupervisorStep, PushReadyTaskStep, PushTaskStep, StartReadyTaskStep, StartTaskStep,
     CancelTaskStep, LinkTaskStep, DependTaskStep, WaitOnStep DEF CallStep
<1>2. ASSUME NEW t \in Threads, ProgramStep(t) \/ SpuriousWakeup(t) PROVE IInv'
  BY <1>2, BeginCallStep, SetAllowableThreadsStep, SpuriousWakeupStep DEF ProgramStep
<1>3. ASSUME NEW w \in Workers, WorkerStep(w) \/ FuncReturns(w) PROVE IInv'
  BY <1>3, EnterLoopStep, GetTaskStep, RunTaskStep, FuncReturnsStep, AfterFuncStep, DropTaskStep,
     FinishTaskStep, DispatchStep, EndRunStep DEF WorkerStep
<1>4. CASE UNCHANGED vars
  <2>1. UNCHANGED <<task, m_ReadyTasks, m_RunningTasks, m_WaitingTasks, m_FinishedTasks>>
    BY <1>4 DEF vars, lists
  <2>2. UNCHANGED <<m_CanceledTasks, supMutex, taskMutex, pc, cur, call, todo>>
    BY <1>4 DEF vars, lists
  <2>3. UNCHANGED <<interrupt, exception, currentAllowedThreads, step, spurious>>
    BY <1>4 DEF vars, flags, env
  <2>4. TypeOK'
    BY <2>1, <2>2, <2>3 DEF IInv, TypeOK
  <2>5. EachTaskInOneList' /\ OneExecutor' /\ TerminalListsTruthful' /\ NotTaken'
    BY <2>1, <2>2 DEF IInv, EachTaskInOneList, OneExecutor, TerminalListsTruthful, NotTaken, Queued
  <2>6. TaskMutexDiscipline' /\ ThreadLabels' /\ StageOfTask'
    BY <2>1, <2>2 DEF IInv, TaskMutexDiscipline, ThreadLabels, StageOfTask, StageOf, EndingTask, Queued
  <2>7. QED
    BY <2>4, <2>5, <2>6 DEF IInv
<1>5. QED
  BY <1>1, <1>2, <1>3, <1>4 DEF Next

\* The inductive invariant holds in every state, for every set of tasks, number
\* of workers and script.
THEOREM Invariant == Spec => []IInv
BY InitIInv, StepIInv, PTL DEF Spec

\* The fields of ThreadTask and ThreadSupervisor keep their types.
THEOREM TypeCorrect == Spec => []TypeOK
BY Invariant, PTL DEF IInv

\* Every task that was made ready is in exactly one list, once, however often and
\* from wherever it is pushed or started.
THEOREM ListsPartition == Spec => []EachTaskInOneList
BY Invariant, PTL DEF IInv

\* No task is in the hands of two workers.
THEOREM ExecutorsApart == Spec => []OneExecutor
BY Invariant, PTL DEF IInv

\* The finished tasks have a result and the canceled ones never ran.
THEOREM ListsTruthful == Spec => []TerminalListsTruthful
BY Invariant, PTL DEF IInv

\* A worker holds the mutex of a task across the calls it makes to the scheduler
\* exactly while it ends that task.
THEOREM MutexesHeld == Spec => []TaskMutexDiscipline
BY Invariant, PTL DEF IInv

\* The function of a task is called at most once.
THEOREM FunctionOnce == Spec => RunOnce
<1>1. IInv => \A w \in Workers : pc[w] = "run" => ~task[cur[w]].m_Started
  BY DEF IInv, ThreadLabels, StageOfTask, StageOf
<1>2. IInv /\ [Next]_vars
        => [\A w \in Workers : pc[w] = "run" /\ pc'[w] = "func" => ~task[cur[w]].m_Started]_vars
  BY <1>1
<1>3. QED
  BY Invariant, <1>2, PTL DEF Spec, RunOnce

-----------------------------------------------------------------------------
(* Nobody sleeps through what it waits for. *)

\* The worker that ends task k and has not woken those who wait for it.
Ends(w, k)  == cur[w] = k /\ pc[w] = "finish"
EndsStill(w, k) == cur'[w] = k /\ pc'[w] = "finish"

\* A step keeps NoLostFinish if who comes to wait for a task found it not done, and if a task
\* that gets done, or is being ended, goes on being ended by a worker.
LEMMA FinishKept ==
  ASSUME NoLostFinish,
         \A t \in Threads : pc'[t] = "onFinish" =>
           \/ pc[t] = "onFinish" /\ call'[t] = call[t]
           \/ ~task'[call'[t].task].m_Done,
         \A t \in Threads : pc'[t] = "onFinish" /\ pc[t] = "onFinish" =>
           LET k == call[t].task
           IN  /\ task'[k].m_Done => task[k].m_Done \/ \E w \in Workers : EndsStill(w, k)
               /\ \A w \in Workers : Ends(w, k) => EndsStill(w, k)
  PROVE  NoLostFinish'
<1> SUFFICES ASSUME NEW t \in Threads, pc'[t] = "onFinish", task'[call'[t].task].m_Done
             PROVE  \E w \in Workers : EndsStill(w, call'[t].task)
  BY DEF NoLostFinish, EndsStill
<1>1. pc[t] = "onFinish" /\ call'[t] = call[t]
  OBVIOUS
<1>2. CASE task[call[t].task].m_Done
  <2>1. PICK w \in Workers : Ends(w, call[t].task)
    BY <1>1, <1>2 DEF NoLostFinish, Ends
  <2>2. QED
    BY <1>1, <2>1
<1>3. CASE ~task[call[t].task].m_Done
  BY <1>1, <1>3
<1>4. QED
  BY <1>2, <1>3

\* A step of thread t that is not an end of a task leaves the workers that end tasks there.
LEMMA FinishKeptByMove ==
  ASSUME NoLostFinish, NEW t \in Threads, pc[t] # "finish", pc[t] # "onFinish" \/ pc'[t] # "onFinish",
         \A u \in Threads \ {t} :
           \/ pc'[u] = pc[u]
           \/ pc'[u] # "onFinish" /\ pc[u] \in {"waiting", "onFinish"},
         \A u \in Threads \ {t} : call'[u] = call[u],
         \A w \in Workers : pc[w] = "finish" => cur'[w] = cur[w],
         \A k \in Tasks : task'[k].m_Done => task[k].m_Done \/ \E w \in Workers : EndsStill(w, k),
         pc'[t] = "onFinish" => ~task'[call'[t].task].m_Done,
         \A u \in Threads : pc[u] = "onFinish" => call[u].task \in Tasks
  PROVE  NoLostFinish'
<1>1. \A u \in Threads : pc'[u] = "onFinish" =>
        \/ pc[u] = "onFinish" /\ call'[u] = call[u]
        \/ ~task'[call'[u].task].m_Done
  OBVIOUS
<1>2. \A w \in Workers : \A k : Ends(w, k) => EndsStill(w, k)
  BY DEF Ends, EndsStill, Threads
<1>3. QED
  BY <1>1, <1>2, FinishKept

\* A step keeps NoLostTask if it sends no worker to sleep and, when it is the first to put a
\* task on the queue, leaves a worker that does not sleep.
LEMMA TaskKept ==
  ASSUME NoLostTask,
         \A w \in Workers : pc'[w] = "waiting" => pc[w] = "waiting",
         m_ReadyTasks' # <<>> => m_ReadyTasks # <<>> \/ \E w \in Workers : pc'[w] # "waiting"
  PROVE  NoLostTask'
BY DEF NoLostTask

NoLostWakeup == NoLostFinish /\ NoLostTask

LEMMA WaitersCalls ==
  ASSUME IInv
  PROVE  /\ \A u \in Threads : pc[u] = "onFinish" => call[u].task \in Tasks
         /\ \A t \in Threads : call[t].ret \in {"func", "dispatch"}
BY FrameRets DEF IInv, ThreadLabels, CallLabels

\* Calls that return, without or with a signal on m_TaskWaitingCondition.
LEMMA ResumedWakeups ==
  ASSUME IInv, NoLostWakeup, NEW t \in Threads, pc[t] \in CallLabels \ {"func"}, pc[t] # "onFinish",
         Resumed(t), call' = [call EXCEPT ![t] = NoCall], UNCHANGED cur,
         \A k \in Tasks : task'[k].m_Done = task[k].m_Done,
         m_ReadyTasks' # <<>> => m_ReadyTasks # <<>> \/ \E w \in Workers : pc'[w] # "waiting"
  PROVE  NoLostWakeup'
<1>1. pc'[t] \in {"func", "dispatch"} /\ pc[t] # "finish"
  BY WaitersCalls DEF Resumed, CallLabels
<1>2. NoLostFinish'
  <2>1. \A u \in Threads \ {t} : call'[u] = call[u]
    BY DEF IInv, TypeOK
  <2>2. \A u \in Threads \ {t} : \/ pc'[u] = pc[u]
                                 \/ pc'[u] # "onFinish" /\ pc[u] \in {"waiting", "onFinish"}
    BY DEF Resumed
  <2>3. \A u \in Threads : pc[u] = "onFinish" => call[u].task \in Tasks
    BY WaitersCalls
  <2>4. NoLostFinish
    BY DEF NoLostWakeup
  <2>5. QED
    BY <1>1, <2>1, <2>2, <2>3, <2>4, FinishKeptByMove
<1>3. NoLostTask'
  <2>1. \A w \in Workers : pc'[w] = "waiting" => pc[w] = "waiting"
    BY <1>1 DEF Resumed, Threads
  <2>2. QED
    BY <2>1, TaskKept DEF NoLostWakeup
<1>4. QED
  BY <1>2, <1>3 DEF NoLostWakeup

\* After a signal some worker does not sleep: the one that was woken, or all if none slept.
LEMMA SignalWakes ==
  ASSUME TypeOK, NEW t \in Threads, pc[t] = "lockTask", ReturnAndSignal(t),
         call[t].ret \in {"func", "dispatch"}
  PROVE  \E w \in Workers : pc'[w] # "waiting"
<1>1. pc \in [Threads -> WorkerLabels \cup CallLabels] /\ Workers \subseteq Threads
  BY DEF TypeOK, Threads
<1>2. CASE {w \in Workers : pc[w] = "waiting"} = {}
  <2>1. 0 \in Workers
    BY ConstantsAssumption DEF Workers
  <2>2. pc' = [pc EXCEPT ![t] = call[t].ret] /\ pc[0] # "waiting"
    BY <1>2, <2>1 DEF ReturnAndSignal, Return
  <2>3. pc'[0] # "waiting"
    BY <1>1, <2>1, <2>2
  <2>4. QED
    BY <2>1, <2>3
<1>3. CASE {w \in Workers : pc[w] = "waiting"} # {}
  <2>1. PICK w \in Workers : pc' = [pc EXCEPT ![t] = call[t].ret, ![w] = "getTask"]
    BY <1>3 DEF ReturnAndSignal
  <2>2. pc'[w] = "getTask"
    BY <1>1, <2>1
  <2>3. QED
    BY <2>2
<1>4. QED
  BY <1>2, <1>3

\* A task that gets done is being ended.
DoneEnds == \A k \in Tasks : task'[k].m_Done => task[k].m_Done \/ \E w \in Workers : EndsStill(w, k)

LEMMA SameDone ==
  ASSUME task' = task \/ \A k \in Tasks : task'[k].m_Done = task[k].m_Done
  PROVE  DoneEnds
BY DEF DoneEnds

GoesTo(t, l) == pc' = [pc EXCEPT ![t] = l]

LEMMA MoveWakeups ==
  ASSUME IInv, NoLostWakeup, NEW t \in Threads, NEW l,
         \/ GoesTo(t, l) /\ l \notin {"onFinish", "waiting"}
         \/ GoesTo(t, l) /\ l = "waiting" /\ m_ReadyTasks' = <<>>
         \/ /\ GoesTo(t, l) /\ l = "onFinish"
            /\ UNCHANGED call /\ ~task'[call[t].task].m_Done,
         pc[t] # "finish",
         \A u \in Threads \ {t} : call'[u] = call[u],
         \A w \in Workers \ {t} : cur'[w] = cur[w],
         DoneEnds,
         m_ReadyTasks' # <<>> => m_ReadyTasks # <<>>
  PROVE  NoLostWakeup'
<1>1. pc'[t] = l /\ \A u \in Threads \ {t} : pc'[u] = pc[u]
  BY DEF IInv, TypeOK, GoesTo
<1>2. NoLostFinish'
  <2>1. \A u \in Threads : pc[u] = "onFinish" => call[u].task \in Tasks
    BY WaitersCalls
  <2>2. CASE l = "onFinish" /\ pc[t] = "onFinish"
    <3>1. \A u \in Threads : pc'[u] = "onFinish" =>
            \/ pc[u] = "onFinish" /\ call'[u] = call[u]
            \/ ~task'[call'[u].task].m_Done
      BY <1>1, <2>2
    <3>2. \A w \in Workers : \A k : Ends(w, k) => EndsStill(w, k)
      BY <1>1, <2>2 DEF Ends, EndsStill, Threads
    <3>3. QED
      BY <2>1, <3>1, <3>2, FinishKept DEF NoLostWakeup, DoneEnds
  <2>3. CASE ~(l = "onFinish" /\ pc[t] = "onFinish")
    <3>1. pc[t] # "onFinish" \/ pc'[t] # "onFinish"
      BY <1>1, <2>3
    <3>2. pc'[t] = "onFinish" => ~task'[call'[t].task].m_Done
      BY <1>1
    <3>3. \A w \in Workers : pc[w] = "finish" => cur'[w] = cur[w]
      OBVIOUS
    <3>4. QED
      BY <1>1, <2>1, <3>1, <3>2, <3>3, FinishKeptByMove DEF NoLostWakeup, DoneEnds
  <2>4. QED
    BY <2>2, <2>3
<1>3. NoLostTask'
  BY <1>1 DEF NoLostWakeup, NoLostTask, Threads
<1>4. QED
  BY <1>2, <1>3 DEF NoLostWakeup

LEMMA CallWakeups ==
  ASSUME IInv, NoLostWakeup, NEW t \in Threads, CallStep(t)
  PROVE  NoLostWakeup'
<1> USE DEF lists
<1>1. TypeOK /\ call[t].ret \in {"func", "dispatch"}
  BY FrameRets DEF IInv
<1>2. CASE LockSupervisor(t)
  <2>1. /\ pc[t] = "lockSupervisor" /\ GoesTo(t, "lockTask")
        /\ UNCHANGED <<task, m_ReadyTasks, call, cur>>
    BY <1>2 DEF LockSupervisor, GoesTo
  <2>2. QED
    BY <2>1, MoveWakeups, SameDone
<1>3. CASE PushReadyTask(t) \/ StartReadyTask(t) \/ CancelTask(t)
  <2>1. /\ pc[t] = "lockTask" /\ Return(t) /\ call' = [call EXCEPT ![t] = NoCall]
        /\ UNCHANGED <<cur, m_ReadyTasks>>
    BY <1>3 DEF PushReadyTask, StartReadyTask, CancelTask, AtTask
  <2>2. \A k \in Tasks : task'[k].m_Done = task[k].m_Done
    <3>1. CASE CancelTask(t)
      <4>1. task' = [task EXCEPT ![call[t].task].m_KeepRunning = FALSE]
        BY <3>1 DEF CancelTask
      <4>2. QED
        BY <1>1, <4>1 DEF TypeOK, ThreadTask
    <3>2. QED
      BY <1>3, <3>1 DEF PushReadyTask, StartReadyTask
  <2>3. QED
    BY <1>1, <2>1, <2>2, ReturnResumes, ResumedWakeups DEF CallLabels
<1>4. CASE PushTask(t)
  <2>1. pc[t] = "lockTask" /\ ReturnAndSignal(t) /\ call' = [call EXCEPT ![t] = NoCall] /\ UNCHANGED cur
    BY <1>4 DEF PushTask, AtTask
  <2>2. \A k \in Tasks : task'[k].m_Done = task[k].m_Done
    <3>1. \/ task' = [task EXCEPT ![call[t].task].m_ReadyToRun = TRUE]
          \/ task' = task
      BY <1>4 DEF PushTask
    <3>2. CASE task' = task
      BY <3>2
    <3>3. CASE task' = [task EXCEPT ![call[t].task].m_ReadyToRun = TRUE]
      BY <1>1, <3>3 DEF TypeOK, ThreadTask
    <3>4. QED
      BY <3>1, <3>2, <3>3
  <2>3. QED
    BY <1>1, <2>1, <2>2, SignalResumes, SignalWakes, ResumedWakeups DEF CallLabels
<1>5. CASE StartTask(t)
  <2>1. pc[t] = "lockTask" /\ call' = [call EXCEPT ![t] = NoCall] /\ UNCHANGED cur
    BY <1>5 DEF StartTask, AtTask
  <2>2. ReturnAndSignal(t) \/ (Return(t) /\ UNCHANGED m_ReadyTasks)
    BY <1>5 DEF StartTask
  <2>3. \A k \in Tasks : task'[k].m_Done = task[k].m_Done
    <3> DEFINE left == Remaining(call[t].task, call[t].other)
               fin  == task[call[t].task].m_FinishedDependencies
                         \cup (task[call[t].task].m_Dependencies \cap {call[t].other})
               r    == (left = {})
    <3>1. task' = [task EXCEPT ![call[t].task].m_Dependencies = left,
                               ![call[t].task].m_FinishedDependencies = fin,
                               ![call[t].task].m_ReadyToRun = r]
      BY <1>5 DEF StartTask
    <3> HIDE DEF left, fin, r
    <3>2. task \in [Tasks -> ThreadTask]
      BY <1>1 DEF TypeOK
    <3>3. QED
      BY <3>1, <3>2 DEF ThreadTask
  <2>4. Resumed(t)
    BY <1>1, <2>1, <2>2, SignalResumes, ReturnResumes
  <2>5. m_ReadyTasks' # <<>> => m_ReadyTasks # <<>> \/ \E w \in Workers : pc'[w] # "waiting"
    BY <1>1, <2>1, <2>2, SignalWakes
  <2>6. QED
    BY <2>1, <2>3, <2>4, <2>5, ResumedWakeups DEF CallLabels
<1>6. CASE LinkTask(t) \/ DependTask(t)
  <2>1. UNCHANGED <<cur, m_ReadyTasks>> /\ pc[t] \in {"link", "depend"}
    BY <1>6 DEF LinkTask, DependTask
  <2>2. call[t].task \in Tasks /\ call[t].other \in Tasks
    BY <2>1 DEF IInv, ThreadLabels, CallLabels
  <2>3. \A k \in Tasks : task'[k].m_Done = task[k].m_Done
    <3>1. \/ task' = [task EXCEPT ![call[t].task].m_CancelTasks = @ \cup {call[t].other}]
          \/ task' = [task EXCEPT ![call[t].task].m_StartTasks = @ \cup {call[t].other}]
          \/ task' = [task EXCEPT ![call[t].other].m_StartTasks = @ \cup {call[t].task}]
          \/ task' = [task EXCEPT ![call[t].task].m_Dependencies = @ \cup {call[t].other}]
      BY <1>6 DEF LinkTask, DependTask
    <3>2. QED
      BY <1>1, <2>2, <3>1, LinkFields DEF SameProgress
  <2>4. CASE Return(t) /\ call' = [call EXCEPT ![t] = NoCall]
    BY <1>1, <2>1, <2>3, <2>4, ReturnResumes, ResumedWakeups DEF CallLabels
  <2>5. CASE GoesTo(t, "depend") /\ UNCHANGED call
    BY <2>1, <2>3, <2>5, MoveWakeups, SameDone
  <2>6. QED
    BY <1>6, <2>4, <2>5 DEF LinkTask, DependTask, GoesTo
<1>7. CASE WaitOn(t)
  <2>1. UNCHANGED <<task, cur, m_ReadyTasks>> /\ pc[t] = "waitOn"
    BY <1>7 DEF WaitOn
  <2>2. CASE Return(t) /\ call' = [call EXCEPT ![t] = NoCall]
    BY <1>1, <2>1, <2>2, ReturnResumes, ResumedWakeups DEF CallLabels
  <2>3. CASE GoesTo(t, "onFinish") /\ UNCHANGED call /\ ~task[call[t].task].m_Done
    BY <2>1, <2>3, MoveWakeups, SameDone
  <2>4. QED
    BY <1>7, <2>2, <2>3 DEF WaitOn, GoesTo
<1>8. QED
  BY <1>2, <1>3, <1>4, <1>5, <1>6, <1>7 DEF CallStep

LEMMA ProgramWakeups ==
  ASSUME IInv, NoLostWakeup, NEW t \in Threads, ProgramStep(t) \/ SpuriousWakeup(t)
  PROVE  NoLostWakeup'
<1>1. UNCHANGED <<task, m_ReadyTasks, cur>>
  BY DEF ProgramStep, BeginCall, SetAllowableThreads, SpuriousWakeup, lists
<1>2. CASE BeginCall(t)
  <2>1. PICK c \in NextCalls(Program(t)) :
          /\ c.op \in TaskOps /\ GoesTo(t, EntryLabel(c.op))
          /\ call' = [call EXCEPT ![t] = [op |-> c.op, task |-> c.task, other |-> c.other,
                                          ret |-> "func"]]
    BY <1>2 DEF BeginCall, GoesTo
  <2>2. EntryLabel(c.op) \in {"lockSupervisor", "waitOn", "link"}
    BY <2>1 DEF EntryLabel, TaskOps, LinkOps
  <2>3. \A u \in Threads \ {t} : call'[u] = call[u]
    BY <2>1 DEF IInv, TypeOK
  <2>4. pc[t] = "func"
    BY <1>2 DEF BeginCall
  <2>5. QED
    BY <1>1, <2>1, <2>2, <2>3, <2>4, MoveWakeups, SameDone
<1>3. CASE SetAllowableThreads(t)
  <2>1. UNCHANGED <<pc, call>>
    BY <1>3 DEF SetAllowableThreads
  <2>2. QED
    BY <1>1, <2>1 DEF NoLostWakeup, NoLostFinish, NoLostTask
<1>4. CASE SpuriousWakeup(t)
  <2>1. PICK l \in {"getTask", "waitOn"} : GoesTo(t, l)
    BY <1>4 DEF SpuriousWakeup, GoesTo
  <2>2. UNCHANGED call /\ pc[t] # "finish"
    BY <1>4 DEF SpuriousWakeup
  <2>3. QED
    BY <1>1, <2>1, <2>2, MoveWakeups, SameDone
<1>5. QED
  BY <1>2, <1>3, <1>4 DEF ProgramStep

LEMMA WorkerWakeups ==
  ASSUME IInv, NoLostWakeup, NEW w \in Workers, WorkerStep(w) \/ FuncReturns(w)
  PROVE  NoLostWakeup'
<1>1. w \in Threads /\ TypeOK
  BY DEF Threads, IInv
<1>2. CASE EnterLoop(w) \/ Dispatch(w)
  <2>1. UNCHANGED <<task, m_ReadyTasks, cur>> /\ pc[w] # "finish"
    BY <1>2 DEF EnterLoop, Dispatch, lists
  <2>2. \A u \in Threads \ {w} : call'[u] = call[u]
    BY <1>1, <1>2 DEF EnterLoop, Dispatch, TypeOK
  <2>3. PICK l \in {"getTask", "lockSupervisor"} : GoesTo(w, l)
    BY <1>2 DEF EnterLoop, Dispatch, GoesTo
  <2>4. QED
    BY <1>1, <2>1, <2>2, <2>3, MoveWakeups, SameDone
<1>3. CASE GetTask(w)
  <2>1. UNCHANGED <<task, call>> /\ pc[w] # "finish" /\ \A v \in Workers \ {w} : cur'[v] = cur[v]
    BY <1>1, <1>3 DEF GetTask, TypeOK
  <2>2. CASE m_ReadyTasks = <<>>
    <3>1. GoesTo(w, "waiting") /\ m_ReadyTasks' = <<>>
      BY <1>3, <2>2 DEF GetTask, GoesTo
    <3>2. QED
      BY <1>1, <2>1, <3>1, MoveWakeups, SameDone
  <2>3. CASE m_ReadyTasks # <<>>
    <3>1. GoesTo(w, "run")
      BY <1>3, <2>3 DEF GetTask, GoesTo
    <3>2. m_ReadyTasks' # <<>> => m_ReadyTasks # <<>>
      BY <2>3
    <3>3. QED
      BY <1>1, <2>1, <3>1, <3>2, MoveWakeups, SameDone
  <2>4. QED
    BY <2>2, <2>3
<1>4. CASE RunTask(w) \/ FuncReturns(w)
  <2>1. UNCHANGED <<m_ReadyTasks, call, cur>> /\ pc[w] # "finish"
    BY <1>4 DEF RunTask, FuncReturns, lists
  <2>2. \A k \in Tasks : task'[k].m_Done = task[k].m_Done
    <3>1. CASE RunTask(w)
      <4>1. \/ task' = [task EXCEPT ![cur[w]].m_CurrentThread = w, ![cur[w]].m_Started = TRUE,
                                    ![cur[w]].m_Running = TRUE]
            \/ task' = task
        BY <3>1 DEF RunTask
      <4>2. CASE task' = task
        BY <4>2
      <4>3. CASE task' = [task EXCEPT ![cur[w]].m_CurrentThread = w, ![cur[w]].m_Started = TRUE,
                                      ![cur[w]].m_Running = TRUE]
        BY <1>1, <4>3 DEF TypeOK, ThreadTask
      <4>4. QED
        BY <4>1, <4>2, <4>3
    <3>2. CASE FuncReturns(w)
      <4>1. task' = [task EXCEPT ![cur[w]].m_Result = TRUE]
        BY <3>2 DEF FuncReturns
      <4>2. QED
        BY <1>1, <4>1 DEF TypeOK, ThreadTask
    <3>3. QED
      BY <1>4, <3>1, <3>2
  <2>3. PICK l \in {"func", "drop", "return"} : GoesTo(w, l)
    BY <1>4 DEF RunTask, FuncReturns, GoesTo
  <2>4. QED
    BY <1>1, <2>1, <2>2, <2>3, MoveWakeups, SameDone
<1>5. CASE AfterFunc(w)
  <2>1. /\ UNCHANGED <<m_ReadyTasks, call>> /\ pc[w] # "finish"
        /\ \A v \in Workers \ {w} : cur'[v] = cur[v]
    BY <1>1, <1>5 DEF AfterFunc, lists, TypeOK
  <2>2. CASE task[cur[w]].m_KeepRunning
    <3>1. /\ task' = [task EXCEPT ![cur[w]].m_Running = FALSE, ![cur[w]].m_Done = TRUE,
                                  ![cur[w]].m_CurrentThread = NoThread]
          /\ GoesTo(w, "finish") /\ cur' = cur
      BY <1>5, <2>2 DEF AfterFunc, GoesTo
    <3>2. \A k \in Tasks : task'[k].m_Done => task[k].m_Done \/ k = cur[w]
      BY <1>1, <3>1 DEF TypeOK, ThreadTask
    <3>3. pc'[w] = "finish"
      BY <1>1, <3>1 DEF TypeOK, GoesTo
    <3>4. EndsStill(w, cur[w])
      BY <3>1, <3>3 DEF EndsStill
    <3>5. DoneEnds
      BY <3>2, <3>4 DEF DoneEnds
    <3>6. QED
      BY <1>1, <2>1, <3>1, <3>5, MoveWakeups
  <2>3. CASE ~task[cur[w]].m_KeepRunning
    <3>1. task' = [task EXCEPT ![cur[w]].m_Running = FALSE] /\ GoesTo(w, "loop")
      BY <1>5, <2>3 DEF AfterFunc, GoesTo
    <3>2. \A k \in Tasks : task'[k].m_Done = task[k].m_Done
      BY <1>1, <3>1 DEF TypeOK, ThreadTask
    <3>3. QED
      BY <1>1, <2>1, <3>1, <3>2, MoveWakeups, SameDone
  <2>4. QED
    BY <2>2, <2>3
<1>6. CASE EndRun(w)
  <2>1. /\ UNCHANGED <<task, m_ReadyTasks, call>> /\ pc[w] # "finish"
        /\ \A v \in Workers \ {w} : cur'[v] = cur[v]
    BY <1>1, <1>6 DEF EndRun, lists, TypeOK
  <2>2. GoesTo(w, "loop")
    BY <1>6 DEF EndRun, GoesTo
  <2>3. QED
    BY <1>1, <2>1, <2>2, MoveWakeups, SameDone
<1>7. CASE DropTask(w) \/ FinishTask(w)
  <2>1. /\ UNCHANGED <<task, m_ReadyTasks, call>>
        /\ \A v \in Workers \ {w} : cur'[v] = cur[v]
    <3>1. UNCHANGED <<task, m_ReadyTasks, call>>
      BY <1>7 DEF DropTask, FinishTask, MoveToFinished
    <3>2. cur' = [cur EXCEPT ![w] = NoTask] \/ cur' = cur
      BY <1>7 DEF DropTask, FinishTask
    <3>3. \A v \in Workers \ {w} : cur'[v] = cur[v]
      BY <1>1, <3>2 DEF TypeOK
    <3>4. QED
      BY <3>1, <3>3
  <2> DEFINE k == cur[w]
  <2>2. PICK l \in {"loop", "dispatch"} :
          pc' = [t \in Threads |-> IF t = w THEN l ELSE IF t \in Woken(k) THEN "waitOn" ELSE pc[t]]
    <3>1. CASE DropTask(w)
      BY <3>1 DEF DropTask
    <3>2. CASE FinishTask(w)
      BY <3>2 DEF FinishTask
    <3>3. QED
      BY <1>7, <3>1, <3>2
  <2> HIDE DEF k
  <2>3. \A t \in Threads : pc'[t] = "onFinish" =>
          t # w /\ pc[t] = "onFinish" /\ call[t].task # k
    BY <2>2 DEF Woken
  <2>4. NoLostFinish'
    <3>1. \A v \in Workers : \A j : j # k /\ Ends(v, j) => EndsStill(v, j)
      BY <2>1, <2>2 DEF k, Ends, EndsStill, Woken, Threads
    <3>2. QED
      BY <2>1, <2>3, <3>1, FinishKept DEF NoLostWakeup
  <2>5. NoLostTask'
    <3>1. \A v \in Workers : pc'[v] = "waiting" => pc[v] = "waiting"
      BY <2>2 DEF Threads
    <3>2. QED
      BY <2>1, <3>1, TaskKept DEF NoLostWakeup
  <2>6. QED
    BY <2>4, <2>5 DEF NoLostWakeup
<1>8. QED
  BY <1>2, <1>3, <1>4, <1>5, <1>6, <1>7 DEF WorkerStep

LEMMA Wakeups == Spec => []NoLostWakeup
<1>1. Init => NoLostWakeup
  BY DEF Init, NoLostWakeup, NoLostFinish, NoLostTask
<1>2. IInv /\ NoLostWakeup /\ [Next]_vars => NoLostWakeup'
  <2>1. CASE UNCHANGED vars
    BY <2>1 DEF NoLostWakeup, NoLostFinish, NoLostTask, vars, lists
  <2>2. QED
    BY <2>1, CallWakeups, ProgramWakeups, WorkerWakeups DEF Next
<1>3. QED
  BY <1>1, <1>2, Invariant, PTL DEF Spec

\* A thread in waitOn does not sleep through the end of its task: the task cannot get done
\* between its test of m_Done and its wait, and the worker that ends the task wakes it.
THEOREM FinishNeverLost == Spec => []NoLostFinish
BY Wakeups, PTL DEF NoLostWakeup

\* A queued task never waits for workers that are all asleep: they sleep only on an empty queue,
\* and whoever puts a task on it signals under the same mutex.
THEOREM TaskNeverLost == Spec => []NoLostTask
BY Wakeups, PTL DEF NoLostWakeup

-----------------------------------------------------------------------------
(***************************************************************************)
(* TaskSupervisor implements TaskLifecycle, and makes a task ready only    *)
(* when the tasks it depends on are done.                                  *)
(***************************************************************************)
HIDE ConstantsAssumption

\* A done task was started; a dependency is erased only by a task that is done;
\* a worker starts tasks on behalf of the task it ends; a done task that a worker
\* still has is being ended by it.
DoneInOrder ==
  /\ \A k \in Tasks : task[k].m_Done => task[k].m_ReadyToRun /\ task[k].m_Started
  /\ \A k \in Tasks : \A d \in task[k].m_FinishedDependencies : task[d].m_Done
  /\ \A w \in Workers : call[w].op = "start" =>
       call[w].other = cur[w] /\ pc[w] \in {"lockSupervisor", "lockTask"}
  /\ \A w \in Workers, k \in Tasks : task[k].m_Done /\ cur[w] = k => taskMutex[k] = w

LEMMA InitDoneInOrder == Init => DoneInOrder
BY DEF Init, DoneInOrder, NewTask, NoCall, Threads

-----------------------------------------------------------------------------
(* Steps that change no task. *)

\* The third part of DoneInOrder, after a step.
StartCalls ==
  \A w \in Workers : call'[w].op = "start" =>
    call'[w].other = cur'[w] /\ pc'[w] \in {"lockSupervisor", "lockTask"}

LEMMA TasksUntouched ==
  ASSUME DoneInOrder, UNCHANGED <<task, cur, taskMutex, m_CanceledTasks>>, StartCalls
  PROVE  DoneInOrder' /\ UNCHANGED Lifecycle!vars
<1>1. DoneInOrder'
  BY DEF DoneInOrder, StartCalls
<1>2. \A k \in Tasks : Stage(k)' = Stage(k)
  BY DEF Stage, Executors
<1>3. UNCHANGED Lifecycle!vars
  BY <1>2 DEF Lifecycle!vars
<1>4. QED
  BY <1>1, <1>3

\* t returns from its call; others are at most woken.
LEMMA CallEnds ==
  ASSUME TypeOK, DoneInOrder, NEW t \in Threads, Resumed(t), UNCHANGED cur,
         call' = [call EXCEPT ![t] = NoCall]
  PROVE  StartCalls
<1>1. ASSUME NEW w \in Workers, call'[w].op = "start"
      PROVE  call'[w] = call[w] /\ w # t /\ w \in Threads
  BY <1>1 DEF NoCall, TypeOK, Threads
<1>2. QED
  BY <1>1 DEF StartCalls, DoneInOrder, Resumed

LEMMA QuietCallSteps ==
  ASSUME IInv, DoneInOrder, NEW t \in Threads,
         \/ LockSupervisor(t) \/ PushReadyTask(t) \/ StartReadyTask(t) \/ WaitOn(t)
         \/ BeginCall(t) \/ SetAllowableThreads(t) \/ SpuriousWakeup(t)
  PROVE  DoneInOrder' /\ UNCHANGED Lifecycle!vars
<1> USE DEF IInv, lists, flags, env
<1>1. UNCHANGED <<task, cur, taskMutex, m_CanceledTasks>>
  BY DEF LockSupervisor, PushReadyTask, StartReadyTask, WaitOn, BeginCall, SetAllowableThreads,
     SpuriousWakeup
<1>2. StartCalls
  <2>1. CASE LockSupervisor(t)
    BY <1>1, <2>1 DEF LockSupervisor, StartCalls, DoneInOrder, TypeOK, Threads
  <2>2. CASE PushReadyTask(t) \/ StartReadyTask(t)
    <3>1. Resumed(t) /\ call' = [call EXCEPT ![t] = NoCall]
      BY <2>2, FrameRets, ReturnResumes DEF PushReadyTask, StartReadyTask
    <3>2. QED
      BY <1>1, <3>1, CallEnds
  <2>3. CASE WaitOn(t)
    <3>1. CASE pc' = [pc EXCEPT ![t] = "onFinish"] /\ UNCHANGED call
      BY <1>1, <2>3, <3>1 DEF WaitOn, StartCalls, DoneInOrder, TypeOK, Threads
    <3>2. CASE Return(t) /\ call' = [call EXCEPT ![t] = NoCall]
      <4>1. Resumed(t)
        BY <3>2, FrameRets, ReturnResumes
      <4>2. QED
        BY <1>1, <3>2, <4>1, CallEnds
    <3>3. QED
      BY <2>3, <3>1, <3>2 DEF WaitOn
  <2>4. CASE BeginCall(t)
    BY <1>1, <2>4 DEF BeginCall, StartCalls, DoneInOrder, TypeOK, Threads, TaskOps, LinkOps
  <2>5. CASE SetAllowableThreads(t)
    BY <1>1, <2>5 DEF SetAllowableThreads, StartCalls, DoneInOrder
  <2>6. CASE SpuriousWakeup(t)
    BY <1>1, <2>6 DEF SpuriousWakeup, StartCalls, DoneInOrder, TypeOK, Threads
  <2>7. QED
    BY <2>1, <2>2, <2>3, <2>4, <2>5, <2>6
<1>3. QED
  BY <1>1, <1>2, TasksUntouched

LEMMA QuietWorkerSteps ==
  ASSUME IInv, DoneInOrder, NEW w \in Workers,
         EnterLoop(w) \/ FinishTask(w) \/ Dispatch(w)
  PROVE  DoneInOrder' /\ UNCHANGED Lifecycle!vars
<1> USE DEF IInv, lists, flags, env
<1>1. UNCHANGED <<task, cur, taskMutex, m_CanceledTasks>>
  <2>1. CASE FinishTask(w)
    <3>1. task[cur[w]].m_KeepRunning
      BY <2>1 DEF FinishTask, StageOfTask, StageOf, ThreadLabels
    <3>2. QED
      BY <2>1, <3>1 DEF FinishTask, MoveToFinished
  <2>2. QED
    BY <2>1 DEF EnterLoop, Dispatch
<1>2. StartCalls
  <2>1. CASE EnterLoop(w)
    BY <1>1, <2>1 DEF EnterLoop, StartCalls, DoneInOrder, TypeOK, Threads
  <2>2. CASE FinishTask(w)
    BY <1>1, <2>2 DEF FinishTask, Woken, StartCalls, DoneInOrder, TypeOK, Threads
  <2>3. CASE Dispatch(w)
    BY <1>1, <2>3 DEF Dispatch, StartCalls, DoneInOrder, TypeOK, Threads
  <2>4. QED
    BY <2>1, <2>2, <2>3
<1>3. QED
  BY <1>1, <1>2, TasksUntouched

-----------------------------------------------------------------------------
(* Steps that change one task. *)

StageF    == [j \in Tasks |-> Stage(j)]
CanceledF == [j \in Tasks |-> ~task[j].m_KeepRunning]
DepsF     == [j \in Tasks |-> task[j].m_Dependencies \cup task[j].m_FinishedDependencies]

\* What TaskLifecycle sees of a step that changes at most task k.
LEMMA OneTask ==
  ASSUME NEW k \in Tasks, \A j \in Tasks \ {k} : task'[j] = task[j],
         \A j \in Tasks \ {k} : j \in m_CanceledTasks' <=> j \in m_CanceledTasks,
         \A j \in Tasks \ {k} : task[j].m_Started => (Executors(j)' = {} <=> Executors(j) = {})
  PROVE  /\ StageF' = [StageF EXCEPT ![k] = Stage(k)']
         /\ CanceledF' = [CanceledF EXCEPT ![k] = ~task'[k].m_KeepRunning]
         /\ DepsF' = [DepsF EXCEPT ![k] = task'[k].m_Dependencies
                                            \cup task'[k].m_FinishedDependencies]
<1>1. \A j \in Tasks \ {k} : Stage(j)' = Stage(j)
  BY DEF Stage
<1>2. QED
  BY <1>1 DEF StageF, CanceledF, DepsF

\* No worker is given a task or leaves one.
LEMMA OneTaskSameWorkers ==
  ASSUME NEW k \in Tasks, \A j \in Tasks \ {k} : task'[j] = task[j],
         UNCHANGED <<m_CanceledTasks, cur>>
  PROVE  /\ StageF' = [StageF EXCEPT ![k] = Stage(k)']
         /\ CanceledF' = [CanceledF EXCEPT ![k] = ~task'[k].m_KeepRunning]
         /\ DepsF' = [DepsF EXCEPT ![k] = task'[k].m_Dependencies
                                            \cup task'[k].m_FinishedDependencies]
<1>1. \A j \in Tasks \ {k} : Executors(j)' = Executors(j)
  BY DEF Executors
<1>2. QED
  BY <1>1, OneTask

LEMMA SameStageStutters ==
  ASSUME NEW k \in Tasks,
         /\ StageF' = [StageF EXCEPT ![k] = Stage(k)']
         /\ CanceledF' = [CanceledF EXCEPT ![k] = ~task'[k].m_KeepRunning]
         /\ DepsF' = [DepsF EXCEPT ![k] = task'[k].m_Dependencies
                                            \cup task'[k].m_FinishedDependencies],
         Stage(k)' = Stage(k), task'[k].m_KeepRunning = task[k].m_KeepRunning,
         task'[k].m_Dependencies \cup task'[k].m_FinishedDependencies
           = task[k].m_Dependencies \cup task[k].m_FinishedDependencies
  PROVE  UNCHANGED Lifecycle!vars
<1>1. StageF' = StageF /\ CanceledF' = CanceledF /\ DepsF' = DepsF
  BY DEF StageF, CanceledF, DepsF
<1>2. QED
  BY <1>1 DEF Lifecycle!vars, StageF, CanceledF, DepsF

\* k goes from one stage to another.
LEMMA StageMoves ==
  ASSUME NEW k \in Tasks, NEW from, NEW to,
         /\ StageF' = [StageF EXCEPT ![k] = Stage(k)']
         /\ CanceledF' = [CanceledF EXCEPT ![k] = ~task'[k].m_KeepRunning]
         /\ DepsF' = [DepsF EXCEPT ![k] = task'[k].m_Dependencies
                                            \cup task'[k].m_FinishedDependencies],
         Stage(k) = from, Stage(k)' = to, task'[k].m_KeepRunning = task[k].m_KeepRunning,
         task'[k].m_Dependencies \cup task'[k].m_FinishedDependencies
           = task[k].m_Dependencies \cup task[k].m_FinishedDependencies
  PROVE  Lifecycle!Move(k, from, to)
<1>1. StageF[k] = from /\ StageF' = [StageF EXCEPT ![k] = to]
      /\ CanceledF' = CanceledF /\ DepsF' = DepsF
  BY DEF StageF, CanceledF, DepsF
<1>2. QED
  BY <1>1 DEF Lifecycle!Move, StageF, CanceledF, DepsF

-----------------------------------------------------------------------------
(* The calls. *)

\* The first two parts of DoneInOrder and the fourth, after a step that sets no
\* m_Done and gives no worker a task.
LEMMA DoneKept ==
  ASSUME DoneInOrder, UNCHANGED <<cur, taskMutex>>, StartCalls,
         \A j \in Tasks : /\ task'[j].m_Done = task[j].m_Done
                          /\ task'[j].m_Started = task[j].m_Started
                          /\ task[j].m_ReadyToRun => task'[j].m_ReadyToRun
                          /\ \A d \in task'[j].m_FinishedDependencies :
                               d \in task[j].m_FinishedDependencies \/ task[d].m_Done,
         \A j \in Tasks : task'[j].m_FinishedDependencies \subseteq Tasks
  PROVE  DoneInOrder'
<1>1. \A k \in Tasks : task'[k].m_Done => task'[k].m_ReadyToRun /\ task'[k].m_Started
  BY DEF DoneInOrder
<1>2. \A k \in Tasks : \A d \in task'[k].m_FinishedDependencies : task'[d].m_Done
  BY DEF DoneInOrder
<1>3. \A w \in Workers, k \in Tasks : task'[k].m_Done /\ cur'[w] = k => taskMutex'[k] = w
  BY DEF DoneInOrder
<1>4. QED
  BY <1>1, <1>2, <1>3 DEF DoneInOrder, StartCalls

LEMMA PushTaskImplements ==
  ASSUME IInv, DoneInOrder, NEW t \in Threads, PushTask(t)
  PROVE  DoneInOrder' /\ [Lifecycle!Next]_(Lifecycle!vars)
<1> USE DEF IInv, lists, flags, env
<1>1. Resumed(t) /\ call' = [call EXCEPT ![t] = NoCall]
      /\ UNCHANGED <<cur, taskMutex, m_CanceledTasks>>
  BY FrameRets, SignalResumes DEF PushTask, AtTask
<1>2. StartCalls
  BY <1>1, CallEnds
<1>3. call[t].task \in Tasks
  BY DEF PushTask, AtTask, ThreadLabels, CallLabels
<1>4. PICK k \in Tasks : k = call[t].task
  BY <1>3
<1>5. ~task[k].m_ReadyToRun /\ ~task[k].m_Done /\ ~task[k].m_Started /\ k \notin m_CanceledTasks
  BY <1>4 DEF PushTask, AlreadyReady, DoneInOrder, NotTaken, EachTaskInOneList
<1>6. CASE task[k].m_Dependencies # {}
  <2>1. UNCHANGED task
    BY <1>4, <1>6 DEF PushTask
  <2>2. QED
    BY <1>1, <1>2, <2>1, TasksUntouched
<1>7. CASE task[k].m_Dependencies = {}
  <2> DEFINE s == [task[k] EXCEPT !.m_ReadyToRun = TRUE]
  <2>1. task' = [task EXCEPT ![k] = s]
    BY <1>4, <1>7 DEF PushTask
  <2>2. /\ s \in ThreadTask /\ s.m_ReadyToRun
        /\ s.m_Started = task[k].m_Started /\ s.m_Done = task[k].m_Done
        /\ s.m_KeepRunning = task[k].m_KeepRunning
        /\ s.m_Dependencies = task[k].m_Dependencies
        /\ s.m_FinishedDependencies = task[k].m_FinishedDependencies
        /\ task[k].m_FinishedDependencies \subseteq Tasks
    <3>1. task[k] \in ThreadTask
      BY DEF TypeOK
    <3>2. QED
      BY <3>1 DEF ThreadTask
  <2> HIDE DEF s
  <2>3. task' \in [Tasks -> ThreadTask] /\ task'[k] = s /\ \A j \in Tasks \ {k} : task'[j] = task[j]
    BY <2>1, <2>2, TaskUpdate
  <2>4. \A j \in Tasks : task'[j].m_FinishedDependencies \subseteq Tasks
    BY <2>3 DEF ThreadTask
  <2>5. DoneInOrder'
    BY <1>1, <1>2, <2>2, <2>3, <2>4, DoneKept
  <2>6. Stage(k) = "idle" /\ Stage(k)' = "ready"
    BY <1>1, <1>5, <2>2, <2>3 DEF Stage
  <2>7. Lifecycle!Move(k, "idle", "ready")
    BY <1>1, <2>2, <2>3, <2>6, OneTaskSameWorkers, StageMoves
  <2>8. \A d \in task[k].m_Dependencies \cup task[k].m_FinishedDependencies : Stage(d) = "done"
    BY <1>7, <2>2 DEF DoneInOrder, Stage
  <2>9. Lifecycle!MakeReady(k)
    BY <2>2, <2>7, <2>8, <1>7 DEF Lifecycle!MakeReady
  <2>10. QED
    BY <2>5, <2>9 DEF Lifecycle!Next
<1>8. QED
  BY <1>6, <1>7

LEMMA StartTaskImplements ==
  ASSUME IInv, DoneInOrder, NEW t \in Threads, StartTask(t)
  PROVE  DoneInOrder' /\ [Lifecycle!Next]_(Lifecycle!vars)
<1> USE DEF IInv, lists, flags, env
<1>1. Resumed(t) /\ call' = [call EXCEPT ![t] = NoCall]
      /\ UNCHANGED <<cur, taskMutex, m_CanceledTasks>>
  BY FrameRets, SignalResumes, ReturnResumes DEF StartTask, AtTask
<1>2. StartCalls
  BY <1>1, CallEnds
<1>3. call[t].task \in Tasks /\ call[t].other \in Tasks /\ t \in Workers /\ call[t].ret = "dispatch"
      /\ pc[t] = "lockTask" /\ call[t].op = "start"
  BY DEF StartTask, AtTask, ThreadLabels, CallLabels, Threads
<1>4. PICK k \in Tasks, o \in Tasks : k = call[t].task /\ o = call[t].other
  BY <1>3
<1>5. ~task[k].m_ReadyToRun /\ ~task[k].m_Done /\ ~task[k].m_Started /\ k \notin m_CanceledTasks
  BY <1>4 DEF StartTask, AlreadyReady, DoneInOrder, NotTaken, EachTaskInOneList
<1>6. o = cur[t] /\ cur[t] # NoTask
  BY <1>3, <1>4, ConstantsAssumption DEF DoneInOrder
<1>7. task[o].m_Done
  BY <1>3, <1>6 DEF StageOfTask, StageOf, EndingTask
<1> DEFINE left == task[k].m_Dependencies \ {o}
           fin  == task[k].m_FinishedDependencies \cup (task[k].m_Dependencies \cap {o})
           s == [task[k] EXCEPT !.m_Dependencies = left, !.m_FinishedDependencies = fin,
                                !.m_ReadyToRun = (left = {})]
<1>8. task' = [task EXCEPT ![k] = s]
  BY <1>4 DEF StartTask, Remaining
<1>9. /\ s \in ThreadTask /\ s.m_ReadyToRun = (left = {})
      /\ s.m_Started = task[k].m_Started /\ s.m_Done = task[k].m_Done
      /\ s.m_KeepRunning = task[k].m_KeepRunning
      /\ s.m_Dependencies = left /\ s.m_FinishedDependencies = fin
      /\ left \cup fin = task[k].m_Dependencies \cup task[k].m_FinishedDependencies
  <2>1. task[k] \in ThreadTask
    BY DEF TypeOK
  <2>2. QED
    BY <2>1 DEF ThreadTask
<1>10. \A d \in fin : d \in task[k].m_FinishedDependencies \/ task[d].m_Done
  BY <1>7
<1>11. left = {} => \A d \in left \cup fin : task[d].m_Done
  BY <1>7 DEF DoneInOrder
<1> HIDE DEF s, left, fin
<1>12. task' \in [Tasks -> ThreadTask] /\ task'[k] = s /\ \A j \in Tasks \ {k} : task'[j] = task[j]
  BY <1>8, <1>9, TaskUpdate
<1>13. \A j \in Tasks : task'[j].m_FinishedDependencies \subseteq Tasks
  BY <1>12 DEF ThreadTask
<1>14. DoneInOrder'
  BY <1>1, <1>2, <1>5, <1>9, <1>10, <1>12, <1>13, DoneKept
<1>15. CASE left # {}
  <2>1. Stage(k)' = Stage(k)
    BY <1>5, <1>9, <1>12, <1>15 DEF Stage
  <2>2. UNCHANGED Lifecycle!vars
    BY <1>1, <1>9, <1>12, <2>1, OneTaskSameWorkers, SameStageStutters
  <2>3. QED
    BY <1>14, <2>2
<1>16. CASE left = {}
  <2>1. Stage(k) = "idle" /\ Stage(k)' = "ready"
    BY <1>1, <1>5, <1>9, <1>12, <1>16 DEF Stage
  <2>2. Lifecycle!Move(k, "idle", "ready")
    BY <1>1, <1>9, <1>12, <2>1, OneTaskSameWorkers, StageMoves
  <2>3. \A d \in task[k].m_Dependencies \cup task[k].m_FinishedDependencies : d \in Tasks /\ Stage(d) = "done"
    <3>1. task[k] \in ThreadTask
      BY DEF TypeOK
    <3>2. QED
      BY <1>9, <1>11, <1>16, <3>1 DEF Stage, DoneInOrder, ThreadTask
  <2>4. Lifecycle!MakeReady(k)
    BY <2>2, <2>3 DEF Lifecycle!MakeReady
  <2>5. QED
    BY <1>14, <2>4 DEF Lifecycle!Next
<1>17. QED
  BY <1>15, <1>16

LEMMA CancelTaskImplements ==
  ASSUME IInv, DoneInOrder, NEW t \in Threads, CancelTask(t)
  PROVE  DoneInOrder' /\ [Lifecycle!Next]_(Lifecycle!vars)
<1> USE DEF IInv, lists, flags, env
<1>1. Resumed(t) /\ call' = [call EXCEPT ![t] = NoCall]
      /\ UNCHANGED <<cur, taskMutex, m_CanceledTasks>>
  BY FrameRets, ReturnResumes DEF CancelTask, AtTask
<1>2. StartCalls
  BY <1>1, CallEnds
<1>3. call[t].task \in Tasks
  BY DEF CancelTask, AtTask, ThreadLabels, CallLabels
<1>4. PICK k \in Tasks : k = call[t].task
  BY <1>3
<1> DEFINE s == [task[k] EXCEPT !.m_KeepRunning = FALSE]
<1>5. task' = [task EXCEPT ![k] = s]
  BY <1>4 DEF CancelTask
<1>6. /\ s \in ThreadTask /\ s.m_ReadyToRun = task[k].m_ReadyToRun
      /\ s.m_Started = task[k].m_Started /\ s.m_Done = task[k].m_Done
      /\ s.m_KeepRunning = FALSE
      /\ s.m_Dependencies = task[k].m_Dependencies
      /\ s.m_FinishedDependencies = task[k].m_FinishedDependencies
  <2>1. task[k] \in ThreadTask
    BY DEF TypeOK
  <2>2. QED
    BY <2>1 DEF ThreadTask
<1> HIDE DEF s
<1>7. task' \in [Tasks -> ThreadTask] /\ task'[k] = s /\ \A j \in Tasks \ {k} : task'[j] = task[j]
  BY <1>5, <1>6, TaskUpdate
<1>8. \A j \in Tasks : task'[j].m_FinishedDependencies \subseteq Tasks
  BY <1>7 DEF ThreadTask
<1>9. DoneInOrder'
  BY <1>1, <1>2, <1>6, <1>7, <1>8, DoneKept
<1>10. Stage(k)' = Stage(k)
  BY <1>1, <1>6, <1>7 DEF Stage, Executors
<1>11. Lifecycle!Cancel(k)
  <2>1. StageF' = StageF /\ CanceledF' = [CanceledF EXCEPT ![k] = TRUE] /\ DepsF' = DepsF
    BY <1>1, <1>6, <1>7, <1>10, OneTaskSameWorkers DEF StageF, CanceledF, DepsF
  <2>2. QED
    BY <2>1 DEF Lifecycle!Cancel, StageF, CanceledF, DepsF
<1>12. QED
  BY <1>9, <1>11 DEF Lifecycle!Next

\* A task that lists one more task to cancel or to start.
LEMMA LinkedTask ==
  ASSUME TypeOK, DoneInOrder, StartCalls, NEW k \in Tasks, NEW o \in Tasks,
         UNCHANGED <<cur, taskMutex, m_CanceledTasks>>,
         \/ task' = [task EXCEPT ![k].m_CancelTasks = @ \cup {o}]
         \/ task' = [task EXCEPT ![k].m_StartTasks = @ \cup {o}]
  PROVE  DoneInOrder' /\ UNCHANGED Lifecycle!vars
<1> DEFINE c == [task[k] EXCEPT !.m_CancelTasks = @ \cup {o}]
           s == [task[k] EXCEPT !.m_StartTasks = @ \cup {o}]
<1>1. PICK n \in {c, s} : task' = [task EXCEPT ![k] = n]
  BY ZenonT(30)
<1>2. /\ n \in ThreadTask /\ n.m_ReadyToRun = task[k].m_ReadyToRun
      /\ n.m_Started = task[k].m_Started /\ n.m_Done = task[k].m_Done
      /\ n.m_KeepRunning = task[k].m_KeepRunning
      /\ n.m_Dependencies = task[k].m_Dependencies
      /\ n.m_FinishedDependencies = task[k].m_FinishedDependencies
  <2>1. task[k] \in ThreadTask
    BY DEF TypeOK
  <2>2. QED
    BY <1>1, <2>1 DEF ThreadTask
<1> HIDE DEF c, s
<1>3. task' \in [Tasks -> ThreadTask] /\ task'[k] = n /\ \A j \in Tasks \ {k} : task'[j] = task[j]
  BY <1>1, <1>2, TaskUpdate
<1>4. \A j \in Tasks : task'[j].m_FinishedDependencies \subseteq Tasks
  BY <1>3 DEF ThreadTask
<1>5. DoneInOrder'
  BY <1>2, <1>3, <1>4, DoneKept
<1>6. Stage(k)' = Stage(k)
  BY <1>2, <1>3 DEF Stage, Executors
<1>7. UNCHANGED Lifecycle!vars
  BY <1>2, <1>3, <1>6, OneTaskSameWorkers, SameStageStutters
<1>8. QED
  BY <1>5, <1>7

LEMMA LinkTaskImplements ==
  ASSUME IInv, DoneInOrder, NEW t \in Threads, LinkTask(t)
  PROVE  DoneInOrder' /\ UNCHANGED Lifecycle!vars
<1> USE DEF IInv, lists, flags, env
<1>1. /\ pc[t] = "link" /\ call[t].task \in Tasks /\ call[t].other \in Tasks
      /\ UNCHANGED <<cur, taskMutex, m_CanceledTasks>>
  BY DEF LinkTask, ThreadLabels, CallLabels
<1>2. PICK k \in Tasks, o \in Tasks : k = call[t].task /\ o = call[t].other
  BY <1>1
<1>3. StartCalls
  <2>1. CASE pc' = [pc EXCEPT ![t] = "depend"] /\ UNCHANGED call
    BY <1>1, <2>1 DEF StartCalls, DoneInOrder, TypeOK, Threads
  <2>2. CASE Return(t) /\ call' = [call EXCEPT ![t] = NoCall]
    <3>1. Resumed(t)
      BY <2>2, FrameRets, ReturnResumes
    <3>2. QED
      BY <1>1, <2>2, <3>1, CallEnds
  <2>3. QED
    BY <2>1, <2>2 DEF LinkTask
<1>4. \/ task' = [task EXCEPT ![k].m_CancelTasks = @ \cup {o}]
      \/ task' = [task EXCEPT ![k].m_StartTasks = @ \cup {o}]
      \/ task' = [task EXCEPT ![o].m_StartTasks = @ \cup {k}]
  BY <1>2, ZenonT(30) DEF LinkTask
<1>5. QED
  BY <1>1, <1>3, <1>4, LinkedTask

LEMMA DependTaskImplements ==
  ASSUME IInv, DoneInOrder, NEW t \in Threads, DependTask(t)
  PROVE  DoneInOrder' /\ [Lifecycle!Next]_(Lifecycle!vars)
<1> USE DEF IInv, lists, flags, env
<1>1. Resumed(t) /\ call' = [call EXCEPT ![t] = NoCall]
      /\ UNCHANGED <<cur, taskMutex, m_CanceledTasks>>
  BY FrameRets, ReturnResumes DEF DependTask
<1>2. StartCalls
  BY <1>1, CallEnds
<1>3. call[t].task \in Tasks /\ call[t].other \in Tasks
  BY DEF DependTask, ThreadLabels, CallLabels
<1>4. PICK k \in Tasks, o \in Tasks : k = call[t].task /\ o = call[t].other
  BY <1>3
<1> DEFINE s == [task[k] EXCEPT !.m_Dependencies = @ \cup {o}]
<1>5. task' = [task EXCEPT ![k] = s]
  BY <1>4, ZenonT(30) DEF DependTask
<1>6. /\ s \in ThreadTask /\ s.m_ReadyToRun = task[k].m_ReadyToRun
      /\ s.m_Started = task[k].m_Started /\ s.m_Done = task[k].m_Done
      /\ s.m_KeepRunning = task[k].m_KeepRunning
      /\ s.m_Dependencies = task[k].m_Dependencies \cup {o}
      /\ s.m_FinishedDependencies = task[k].m_FinishedDependencies
  <2>1. task[k] \in ThreadTask
    BY DEF TypeOK
  <2>2. QED
    BY <2>1 DEF ThreadTask
<1> HIDE DEF s
<1>7. task' \in [Tasks -> ThreadTask] /\ task'[k] = s /\ \A j \in Tasks \ {k} : task'[j] = task[j]
  BY <1>5, <1>6, TaskUpdate
<1>8. \A j \in Tasks : task'[j].m_FinishedDependencies \subseteq Tasks
  BY <1>7 DEF ThreadTask
<1>9. DoneInOrder'
  BY <1>1, <1>2, <1>6, <1>7, <1>8, DoneKept
<1>10. Stage(k)' = Stage(k)
  BY <1>1, <1>6, <1>7 DEF Stage, Executors
<1>11. Lifecycle!Depend(k, o)
  <2>1. task'[k].m_Dependencies \cup task'[k].m_FinishedDependencies = DepsF[k] \cup {o}
    BY <1>6, <1>7 DEF DepsF
  <2>2. /\ StageF' = [StageF EXCEPT ![k] = Stage(k)]
        /\ CanceledF' = [CanceledF EXCEPT ![k] = ~task[k].m_KeepRunning]
        /\ DepsF' = [DepsF EXCEPT ![k] = DepsF[k] \cup {o}]
    BY <1>1, <1>6, <1>7, <1>10, <2>1, OneTaskSameWorkers
  <2>3. StageF' = StageF /\ CanceledF' = CanceledF
    BY <2>2 DEF StageF, CanceledF
  <2>4. QED
    BY <2>2, <2>3 DEF Lifecycle!Depend, StageF, CanceledF, DepsF
<1>12. QED
  BY <1>9, <1>11 DEF Lifecycle!Next

-----------------------------------------------------------------------------
(* The steps of a worker. *)

\* A worker takes task k, or lets it go.
LEMMA OneWorker ==
  ASSUME NEW w \in Workers, NEW k \in Tasks, cur[w] \in {k, NoTask}, cur'[w] \in {k, NoTask},
         \A v \in Workers \ {w} : cur'[v] = cur[v]
  PROVE  \A j \in Tasks \ {k} : Executors(j)' = Executors(j)
<1>1. \A j \in Tasks \ {k}, v \in Workers : cur'[v] = j <=> cur[v] = j
  BY ConstantsAssumption
<1>2. QED
  BY <1>1 DEF Executors

\* The part of DoneInOrder about calls, after a step of a worker outside of them.
LEMMA NoStartCall ==
  ASSUME IInv, DoneInOrder, NEW w \in Workers, pc[w] \notin {"lockSupervisor", "lockTask"},
         UNCHANGED call, \A v \in Workers \ {w} : cur'[v] = cur[v],
         \A u \in Threads \ {w} : pc'[u] = pc[u] \/ (pc[u] = "onFinish" /\ pc'[u] = "waitOn")
  PROVE  StartCalls
BY DEF StartCalls, DoneInOrder, Threads

LEMMA GetTaskImplements ==
  ASSUME IInv, DoneInOrder, NEW w \in Workers, GetTask(w)
  PROVE  DoneInOrder' /\ UNCHANGED Lifecycle!vars
<1> USE DEF IInv, lists, flags, env
<1>1. /\ pc[w] = "getTask" /\ cur[w] = NoTask /\ UNCHANGED <<task, taskMutex, m_CanceledTasks, call>>
      /\ \A u \in Threads \ {w} : pc'[u] = pc[u]
  BY DEF GetTask, ThreadLabels, TypeOK, Threads
<1>2. CASE m_ReadyTasks = <<>>
  <2>1. UNCHANGED cur
    BY <1>2 DEF GetTask
  <2>2. StartCalls
    BY <1>1, <2>1, NoStartCall
  <2>3. QED
    BY <1>1, <2>1, <2>2, TasksUntouched
<1>3. CASE m_ReadyTasks # <<>>
  <2>1. Head(m_ReadyTasks) \in Tasks /\ Queued(Head(m_ReadyTasks))
    BY <1>3, QueueTail DEF Queued, EachTaskInOneList, TypeOK
  <2>2. PICK k \in Tasks : k = Head(m_ReadyTasks)
    BY <2>1
  <2>3. ~task[k].m_Started /\ ~task[k].m_Done
    BY <2>1, <2>2 DEF NotTaken, DoneInOrder
  <2>4. cur' = [cur EXCEPT ![w] = k]
    BY <1>3, <2>2 DEF GetTask
  <2>5. cur'[w] = k /\ \A v \in Workers \ {w} : cur'[v] = cur[v]
    BY <2>4 DEF TypeOK
  <2>6. StartCalls
    BY <1>1, <2>5, NoStartCall
  <2>7. DoneInOrder'
    <3>1. \A v \in Workers, j \in Tasks : task'[j].m_Done /\ cur'[v] = j => taskMutex'[j] = v
      BY <1>1, <2>3, <2>5 DEF DoneInOrder
    <3>2. QED
      BY <1>1, <2>6, <3>1 DEF DoneInOrder, StartCalls
  <2>8. \A j \in Tasks \ {k} : Executors(j)' = Executors(j)
    BY <1>1, <2>5, OneWorker
  <2>9. Stage(k)' = Stage(k)
    BY <1>1, <2>3 DEF Stage
  <2>10. UNCHANGED Lifecycle!vars
    <3>1. \A j \in Tasks : Stage(j)' = Stage(j)
      BY <1>1, <2>8, <2>9 DEF Stage
    <3>2. QED
      BY <1>1, <3>1 DEF Lifecycle!vars
  <2>11. QED
    BY <2>7, <2>10
<1>4. QED
  BY <1>2, <1>3

LEMMA RunTaskImplements ==
  ASSUME IInv, DoneInOrder, NEW w \in Workers, RunTask(w)
  PROVE  DoneInOrder' /\ [Lifecycle!Next]_(Lifecycle!vars)
<1> USE DEF IInv, lists, flags, env
<1>1. /\ pc[w] = "run" /\ cur[w] \in Tasks /\ UNCHANGED <<m_CanceledTasks, call, cur>>
      /\ \A u \in Threads \ {w} : pc'[u] = pc[u]
  BY DEF RunTask, ThreadLabels, TypeOK, Threads
<1>2. PICK k \in Tasks : k = cur[w]
  BY <1>1
<1>3. /\ ~task[k].m_Started /\ ~task[k].m_Done /\ task[k].m_ReadyToRun
      /\ k \notin m_CanceledTasks /\ w \in Executors(k)
  BY <1>1, <1>2, ConstantsAssumption
     DEF StageOfTask, StageOf, DoneInOrder, NotTaken, OneExecutor, EachTaskInOneList, Executors
<1>4. StartCalls
  BY <1>1, NoStartCall
<1>5. CASE task[k].m_KeepRunning
  <2> DEFINE s == [task[k] EXCEPT !.m_CurrentThread = w, !.m_Started = TRUE, !.m_Running = TRUE]
  <2>1. task' = [task EXCEPT ![k] = s] /\ UNCHANGED taskMutex
    BY <1>2, <1>5 DEF RunTask
  <2>2. /\ s \in ThreadTask /\ s.m_ReadyToRun = task[k].m_ReadyToRun
        /\ s.m_Started /\ s.m_Done = task[k].m_Done
        /\ s.m_KeepRunning = task[k].m_KeepRunning
        /\ s.m_Dependencies = task[k].m_Dependencies
        /\ s.m_FinishedDependencies = task[k].m_FinishedDependencies
    <3>1. task[k] \in ThreadTask
      BY DEF TypeOK
    <3>2. QED
      BY <3>1 DEF ThreadTask
  <2> HIDE DEF s
  <2>3. task'[k] = s /\ \A j \in Tasks \ {k} : task'[j] = task[j]
    BY <2>1, <2>2, TaskUpdate
  <2>4. DoneInOrder'
    <3>1. \A j \in Tasks : task'[j].m_Done => task'[j].m_ReadyToRun /\ task'[j].m_Started
      BY <2>2, <2>3 DEF DoneInOrder
    <3>2. \A j \in Tasks : task'[j].m_Done = task[j].m_Done
                           /\ task'[j].m_FinishedDependencies = task[j].m_FinishedDependencies
      BY <2>2, <2>3
    <3>3. task[k].m_FinishedDependencies \subseteq Tasks
          /\ \A j \in Tasks : task[j].m_FinishedDependencies \subseteq Tasks
      BY DEF TypeOK, ThreadTask
    <3>4. QED
      BY <1>1, <1>4, <2>1, <3>1, <3>2, <3>3 DEF DoneInOrder, StartCalls
  <2>5. Stage(k) = "ready" /\ Stage(k)' = "running"
    BY <1>1, <1>3, <2>2, <2>3 DEF Stage, Executors
  <2>6. Lifecycle!Move(k, "ready", "running")
    BY <1>1, <2>2, <2>3, <2>5, OneTaskSameWorkers, StageMoves
  <2>7. Lifecycle!Start(k)
    BY <1>5, <2>6 DEF Lifecycle!Start
  <2>8. QED
    BY <2>4, <2>7 DEF Lifecycle!Next
<1>6. CASE ~task[k].m_KeepRunning
  <2>1. UNCHANGED task /\ taskMutex' = [taskMutex EXCEPT ![k] = w]
    BY <1>2, <1>6 DEF RunTask
  <2>2. DoneInOrder'
    <3>1. \A j \in Tasks \ {k} : taskMutex'[j] = taskMutex[j]
      BY <2>1 DEF TypeOK
    <3>2. QED
      BY <1>1, <1>3, <1>4, <2>1, <3>1 DEF DoneInOrder, StartCalls
  <2>3. UNCHANGED Lifecycle!vars
    <3>1. \A j \in Tasks : Stage(j)' = Stage(j)
      BY <1>1, <2>1 DEF Stage, Executors
    <3>2. QED
      BY <2>1, <3>1 DEF Lifecycle!vars
  <2>4. QED
    BY <2>2, <2>3
<1>7. QED
  BY <1>5, <1>6

LEMMA FuncReturnsImplements ==
  ASSUME IInv, DoneInOrder, NEW w \in Workers, FuncReturns(w)
  PROVE  DoneInOrder' /\ UNCHANGED Lifecycle!vars
<1> USE DEF IInv, lists, flags, env
<1>1. /\ pc[w] = "func" /\ cur[w] \in Tasks
      /\ UNCHANGED <<m_CanceledTasks, call, cur, taskMutex>>
      /\ \A u \in Threads \ {w} : pc'[u] = pc[u]
  BY DEF FuncReturns, ThreadLabels, TypeOK, Threads
<1>2. PICK k \in Tasks : k = cur[w]
  BY <1>1
<1>3. StartCalls
  BY <1>1, NoStartCall
<1> DEFINE s == [task[k] EXCEPT !.m_Result = TRUE]
<1>4. task' = [task EXCEPT ![k] = s]
  BY <1>2 DEF FuncReturns
<1>5. /\ s \in ThreadTask /\ s.m_ReadyToRun = task[k].m_ReadyToRun
      /\ s.m_Started = task[k].m_Started /\ s.m_Done = task[k].m_Done
      /\ s.m_KeepRunning = task[k].m_KeepRunning
      /\ s.m_Dependencies = task[k].m_Dependencies
      /\ s.m_FinishedDependencies = task[k].m_FinishedDependencies
  <2>1. task[k] \in ThreadTask
    BY DEF TypeOK
  <2>2. QED
    BY <2>1 DEF ThreadTask
<1> HIDE DEF s
<1>6. task' \in [Tasks -> ThreadTask] /\ task'[k] = s /\ \A j \in Tasks \ {k} : task'[j] = task[j]
  BY <1>4, <1>5, TaskUpdate
<1>7. \A j \in Tasks : task'[j].m_FinishedDependencies \subseteq Tasks
  BY <1>6 DEF ThreadTask
<1>8. DoneInOrder'
  BY <1>1, <1>3, <1>5, <1>6, <1>7, DoneKept
<1>9. Stage(k)' = Stage(k)
  BY <1>1, <1>5, <1>6 DEF Stage, Executors
<1>10. UNCHANGED Lifecycle!vars
  BY <1>1, <1>5, <1>6, <1>9, OneTaskSameWorkers, SameStageStutters
<1>11. QED
  BY <1>8, <1>10

LEMMA AfterFuncImplements ==
  ASSUME IInv, DoneInOrder, NEW w \in Workers, AfterFunc(w)
  PROVE  DoneInOrder' /\ [Lifecycle!Next]_(Lifecycle!vars)
<1> USE DEF IInv, lists, flags, env
<1>1. /\ pc[w] = "return" /\ cur[w] \in Tasks /\ UNCHANGED <<m_CanceledTasks, call>>
      /\ \A u \in Threads \ {w} : pc'[u] = pc[u]
  BY DEF AfterFunc, ThreadLabels, TypeOK, Threads
<1>2. PICK k \in Tasks : k = cur[w]
  BY <1>1
<1>3. /\ task[k].m_Started /\ task[k].m_ReadyToRun /\ ~task[k].m_Done /\ w \in Executors(k)
      /\ k \notin m_CanceledTasks /\ \A v \in Workers : cur[v] = k => v = w
  <2>1. task[k].m_Started /\ task[k].m_ReadyToRun /\ w \in Executors(k)
        /\ k \notin m_CanceledTasks /\ \A v \in Workers : cur[v] = k => v = w
    BY <1>1, <1>2, ConstantsAssumption
       DEF StageOfTask, StageOf, NotTaken, OneExecutor, EachTaskInOneList, Executors
  <2>2. taskMutex[k] = NoThread /\ w # NoThread
    BY <1>2, ConstantsAssumption DEF AfterFunc, Threads
  <2>3. QED
    BY <1>2, <2>1, <2>2 DEF DoneInOrder
<1>4. \A j \in Tasks : task[j].m_FinishedDependencies \subseteq Tasks
  BY DEF TypeOK, ThreadTask
<1>5. CASE task[k].m_KeepRunning
  <2> DEFINE s == [task[k] EXCEPT !.m_Running = FALSE, !.m_Done = TRUE,
                                  !.m_CurrentThread = NoThread]
  <2>1. task' = [task EXCEPT ![k] = s] /\ taskMutex' = [taskMutex EXCEPT ![k] = w] /\ UNCHANGED cur
    BY <1>2, <1>5 DEF AfterFunc
  <2>2. /\ s \in ThreadTask /\ s.m_ReadyToRun = task[k].m_ReadyToRun
        /\ s.m_Started = task[k].m_Started /\ s.m_Done
        /\ s.m_KeepRunning = task[k].m_KeepRunning
        /\ s.m_Dependencies = task[k].m_Dependencies
        /\ s.m_FinishedDependencies = task[k].m_FinishedDependencies
    <3>1. task[k] \in ThreadTask
      BY DEF TypeOK
    <3>2. QED
      BY <3>1 DEF ThreadTask
  <2> HIDE DEF s
  <2>3. task'[k] = s /\ \A j \in Tasks \ {k} : task'[j] = task[j]
    BY <2>1, <2>2, TaskUpdate
  <2>4. taskMutex'[k] = w /\ \A j \in Tasks \ {k} : taskMutex'[j] = taskMutex[j]
    BY <2>1 DEF TypeOK
  <2>5. StartCalls
    BY <1>1, <2>1, NoStartCall
  <2>6. DoneInOrder'
    <3>1. \A j \in Tasks : task'[j].m_Done => task'[j].m_ReadyToRun /\ task'[j].m_Started
      BY <1>3, <2>2, <2>3 DEF DoneInOrder
    <3>2. \A j \in Tasks : (task[j].m_Done => task'[j].m_Done)
                           /\ task'[j].m_FinishedDependencies = task[j].m_FinishedDependencies
      BY <2>2, <2>3
    <3>3. \A j \in Tasks : \A d \in task'[j].m_FinishedDependencies : task'[d].m_Done
      BY <1>4, <3>2 DEF DoneInOrder
    <3>4. \A v \in Workers, j \in Tasks : task'[j].m_Done /\ cur'[v] = j => taskMutex'[j] = v
      BY <1>3, <2>1, <2>3, <2>4 DEF DoneInOrder
    <3>5. QED
      BY <2>5, <3>1, <3>3, <3>4 DEF DoneInOrder, StartCalls
  <2>7. Stage(k) = "running" /\ Stage(k)' = "done"
    BY <1>3, <2>2, <2>3 DEF Stage, Executors
  <2>8. Lifecycle!Move(k, "running", "done")
    BY <1>1, <2>1, <2>2, <2>3, <2>7, OneTaskSameWorkers, StageMoves
  <2>9. Lifecycle!Finish(k)
    BY <1>5, <2>8 DEF Lifecycle!Finish
  <2>10. QED
    BY <2>6, <2>9 DEF Lifecycle!Next
<1>6. CASE ~task[k].m_KeepRunning
  <2> DEFINE s == [task[k] EXCEPT !.m_Running = FALSE]
  <2>1. task' = [task EXCEPT ![k] = s] /\ UNCHANGED taskMutex /\ cur' = [cur EXCEPT ![w] = NoTask]
    BY <1>2, <1>6 DEF AfterFunc
  <2>2. /\ s \in ThreadTask /\ s.m_ReadyToRun = task[k].m_ReadyToRun
        /\ s.m_Started = task[k].m_Started /\ s.m_Done = task[k].m_Done
        /\ s.m_KeepRunning = task[k].m_KeepRunning
        /\ s.m_Dependencies = task[k].m_Dependencies
        /\ s.m_FinishedDependencies = task[k].m_FinishedDependencies
    <3>1. task[k] \in ThreadTask
      BY DEF TypeOK
    <3>2. QED
      BY <3>1 DEF ThreadTask
  <2> HIDE DEF s
  <2>3. task'[k] = s /\ \A j \in Tasks \ {k} : task'[j] = task[j]
    BY <2>1, <2>2, TaskUpdate
  <2>4. cur'[w] = NoTask /\ \A v \in Workers \ {w} : cur'[v] = cur[v]
    BY <2>1 DEF TypeOK
  <2>5. StartCalls
    BY <1>1, <2>4, NoStartCall
  <2>6. DoneInOrder'
    <3>1. \A j \in Tasks : /\ task'[j].m_Done = task[j].m_Done
                           /\ task'[j].m_Started = task[j].m_Started
                           /\ task'[j].m_ReadyToRun = task[j].m_ReadyToRun
                           /\ task'[j].m_FinishedDependencies = task[j].m_FinishedDependencies
      BY <2>2, <2>3
    <3>2. \A j \in Tasks : \A d \in task'[j].m_FinishedDependencies : task'[d].m_Done
      BY <1>4, <3>1 DEF DoneInOrder
    <3>3. \A v \in Workers, j \in Tasks : task'[j].m_Done /\ cur'[v] = j => taskMutex'[j] = v
      BY <2>1, <2>4, <3>1, ConstantsAssumption DEF DoneInOrder
    <3>4. QED
      BY <2>5, <3>1, <3>2, <3>3 DEF DoneInOrder, StartCalls
  <2>7. Executors(k)' = {} /\ \A j \in Tasks \ {k} : Executors(j)' = Executors(j)
    <3>1. \A v \in Workers : cur'[v] # k
      BY <1>3, <2>4, ConstantsAssumption
    <3>2. QED
      BY <1>2, <2>4, <3>1, OneWorker DEF Executors
  <2>8. Stage(k) = "running" /\ Stage(k)' = "abandoned"
    BY <1>3, <2>2, <2>3, <2>7 DEF Stage
  <2>9. Lifecycle!Move(k, "running", "abandoned")
    BY <1>1, <2>2, <2>3, <2>7, <2>8, OneTask, StageMoves
  <2>10. Lifecycle!Abandon(k)
    BY <1>6, <2>9 DEF Lifecycle!Abandon
  <2>11. QED
    BY <2>6, <2>10 DEF Lifecycle!Next
<1>7. QED
  BY <1>5, <1>6

\* A worker lets go of task k, and no field of a task changes.
LEMMA LetGo ==
  ASSUME IInv, DoneInOrder, NEW w \in Workers, NEW k \in Tasks, cur[w] = k,
         pc[w] \notin {"lockSupervisor", "lockTask"}, UNCHANGED <<task, call>>,
         cur' = [cur EXCEPT ![w] = NoTask], taskMutex' = [taskMutex EXCEPT ![k] = NoThread],
         \A u \in Threads \ {w} : pc'[u] = pc[u] \/ (pc[u] = "onFinish" /\ pc'[u] = "waitOn")
  PROVE  /\ DoneInOrder' /\ \A j \in Tasks \ {k} : Executors(j)' = Executors(j)
         /\ \A v \in Workers : cur'[v] # k
<1> USE DEF IInv
<1>1. /\ cur'[w] = NoTask /\ \A v \in Workers \ {w} : cur'[v] = cur[v]
      /\ \A j \in Tasks \ {k} : taskMutex'[j] = taskMutex[j]
  BY DEF TypeOK
<1>2. StartCalls
  BY <1>1, NoStartCall
<1>3. \A v \in Workers : cur'[v] # k
  BY <1>1, ConstantsAssumption DEF OneExecutor
<1>4. \A v \in Workers, j \in Tasks : task'[j].m_Done /\ cur'[v] = j => taskMutex'[j] = v
  BY <1>1, <1>3, ConstantsAssumption DEF DoneInOrder
<1>5. DoneInOrder'
  BY <1>2, <1>4 DEF DoneInOrder, StartCalls
<1>6. QED
  BY <1>1, <1>3, <1>5, OneWorker

LEMMA DropTaskImplements ==
  ASSUME IInv, DoneInOrder, NEW w \in Workers, DropTask(w)
  PROVE  DoneInOrder' /\ [Lifecycle!Next]_(Lifecycle!vars)
<1> USE DEF IInv, lists, flags, env
<1>1. /\ pc[w] = "drop" /\ cur[w] \in Tasks /\ UNCHANGED <<task, call>>
      /\ \A u \in Threads \ {w} : pc'[u] = pc[u] \/ (pc[u] = "onFinish" /\ pc'[u] = "waitOn")
  BY DEF DropTask, Woken, ThreadLabels, TypeOK
<1>2. PICK k \in Tasks : k = cur[w]
  BY <1>1
<1>3. /\ ~task[k].m_Started /\ ~task[k].m_Done /\ ~task[k].m_KeepRunning /\ task[k].m_ReadyToRun
      /\ k \in m_RunningTasks /\ k \notin m_CanceledTasks
  BY <1>1, <1>2, ConstantsAssumption
     DEF StageOfTask, StageOf, NotTaken, OneExecutor, EachTaskInOneList, DoneInOrder
<1>4. m_CanceledTasks' = m_CanceledTasks \cup {k} /\ cur' = [cur EXCEPT ![w] = NoTask]
      /\ taskMutex' = [taskMutex EXCEPT ![k] = NoThread]
  BY <1>2, <1>3 DEF DropTask, MoveToFinished
<1>5. DoneInOrder' /\ \A j \in Tasks \ {k} : Executors(j)' = Executors(j)
  BY <1>1, <1>2, <1>4, LetGo
<1>6. Stage(k) = "ready" /\ Stage(k)' = "dropped"
  BY <1>1, <1>3, <1>4 DEF Stage
<1>7. Lifecycle!Move(k, "ready", "dropped")
  BY <1>1, <1>4, <1>5, <1>6, OneTask, StageMoves
<1>8. Lifecycle!Drop(k)
  BY <1>3, <1>7 DEF Lifecycle!Drop
<1>9. QED
  BY <1>5, <1>8 DEF Lifecycle!Next

LEMMA EndRunImplements ==
  ASSUME IInv, DoneInOrder, NEW w \in Workers, EndRun(w)
  PROVE  DoneInOrder' /\ UNCHANGED Lifecycle!vars
<1> USE DEF IInv, lists, flags, env
<1>1. /\ pc[w] = "dispatch" /\ cur[w] \in Tasks /\ UNCHANGED <<task, call, m_CanceledTasks>>
      /\ \A u \in Threads \ {w} : pc'[u] = pc[u]
  BY DEF EndRun, ThreadLabels, TypeOK
<1>2. PICK k \in Tasks : k = cur[w]
  BY <1>1
<1>3. task[k].m_Done
  BY <1>1, <1>2, ConstantsAssumption DEF StageOfTask, StageOf, EndingTask
<1>4. cur' = [cur EXCEPT ![w] = NoTask] /\ taskMutex' = [taskMutex EXCEPT ![k] = NoThread]
  BY <1>2 DEF EndRun
<1>5. DoneInOrder' /\ \A j \in Tasks \ {k} : Executors(j)' = Executors(j)
  BY <1>1, <1>2, <1>4, LetGo
<1>6. \A j \in Tasks : Stage(j)' = Stage(j)
  BY <1>1, <1>3, <1>5 DEF Stage
<1>7. UNCHANGED Lifecycle!vars
  BY <1>1, <1>6 DEF Lifecycle!vars
<1>8. QED
  BY <1>5, <1>7

-----------------------------------------------------------------------------
(* Every step. *)

LEMMA StepImplements ==
  IInv /\ DoneInOrder /\ [Next]_vars => DoneInOrder' /\ [Lifecycle!Next]_(Lifecycle!vars)
<1> SUFFICES ASSUME IInv, DoneInOrder, [Next]_vars
             PROVE  DoneInOrder' /\ [Lifecycle!Next]_(Lifecycle!vars)
  OBVIOUS
<1>1. ASSUME NEW t \in Threads, CallStep(t) \/ ProgramStep(t) \/ SpuriousWakeup(t)
      PROVE  DoneInOrder' /\ [Lifecycle!Next]_(Lifecycle!vars)
  <2>1. CASE PushTask(t)
    BY <2>1, PushTaskImplements
  <2>2. CASE StartTask(t)
    BY <2>2, StartTaskImplements
  <2>3. CASE CancelTask(t)
    BY <2>3, CancelTaskImplements
  <2>4. CASE LinkTask(t)
    BY <2>4, LinkTaskImplements
  <2>5. CASE DependTask(t)
    BY <2>5, DependTaskImplements
  <2>6. CASE \/ LockSupervisor(t) \/ PushReadyTask(t) \/ StartReadyTask(t) \/ WaitOn(t)
             \/ BeginCall(t) \/ SetAllowableThreads(t) \/ SpuriousWakeup(t)
    BY <2>6, QuietCallSteps
  <2>7. QED
    BY <1>1, <2>1, <2>2, <2>3, <2>4, <2>5, <2>6 DEF CallStep, ProgramStep
<1>2. ASSUME NEW w \in Workers, WorkerStep(w) \/ FuncReturns(w)
      PROVE  DoneInOrder' /\ [Lifecycle!Next]_(Lifecycle!vars)
  <2>1. CASE GetTask(w)
    BY <2>1, GetTaskImplements
  <2>2. CASE RunTask(w)
    BY <2>2, RunTaskImplements
  <2>3. CASE FuncReturns(w)
    BY <2>3, FuncReturnsImplements
  <2>4. CASE AfterFunc(w)
    BY <2>4, AfterFuncImplements
  <2>5. CASE DropTask(w)
    BY <2>5, DropTaskImplements
  <2>6. CASE EndRun(w)
    BY <2>6, EndRunImplements
  <2>7. CASE EnterLoop(w) \/ FinishTask(w) \/ Dispatch(w)
    BY <2>7, QuietWorkerSteps
  <2>8. QED
    BY <1>2, <2>1, <2>2, <2>3, <2>4, <2>5, <2>6, <2>7 DEF WorkerStep
<1>3. CASE UNCHANGED vars
  <2>1. DoneInOrder'
    BY <1>3 DEF vars, lists, DoneInOrder
  <2>2. UNCHANGED Lifecycle!vars
    BY <1>3 DEF vars, lists, Lifecycle!vars, Stage, Executors
  <2>3. QED
    BY <2>1, <2>2
<1>4. QED
  BY <1>1, <1>2, <1>3 DEF Next

\* The scheduler implements TaskLifecycle: through every interleaving of its
\* critical sections a task is made ready after its dependencies are done, started
\* once unless canceled, and ends done, dropped or abandoned (supervisor.cpp).
THEOREM Refinement == Spec => ImplementsLifecycle
<1>1. Init => Lifecycle!Init
  <2> SUFFICES ASSUME Init PROVE Lifecycle!Init
    OBVIOUS
  <2>1. \A k \in Tasks : task[k] = NewTask
    BY DEF Init
  <2>2. \A k \in Tasks : /\ ~task[k].m_ReadyToRun /\ task[k].m_KeepRunning
                         /\ task[k].m_Dependencies = {} /\ task[k].m_FinishedDependencies = {}
    BY <2>1 DEF NewTask
  <2>3. \A k \in Tasks : /\ Stage(k) = "idle" /\ (~task[k].m_KeepRunning) = FALSE
                         /\ task[k].m_Dependencies \cup task[k].m_FinishedDependencies = {}
    BY <2>2 DEF Stage
  <2>4. /\ [k \in Tasks |-> Stage(k)] = [k \in Tasks |-> "idle"]
        /\ [k \in Tasks |-> ~task[k].m_KeepRunning] = [k \in Tasks |-> FALSE]
        /\ [k \in Tasks |-> task[k].m_Dependencies \cup task[k].m_FinishedDependencies]
             = [k \in Tasks |-> {}]
    BY <2>3, ZenonT(30)
  <2>5. QED
    BY <2>4 DEF Lifecycle!Init
<1>2. Spec => []DoneInOrder /\ [][Lifecycle!Next]_(Lifecycle!vars)
  <2>1. Spec => []IInv
    BY Invariant
  <2>2. QED
    BY <2>1, InitDoneInOrder, StepImplements, PTL DEF Spec
<1>3. QED
  BY <1>1, <1>2, PTL DEF Spec, ImplementsLifecycle, Lifecycle!Spec

\* A task becomes ready only when everything it was declared to depend on is done
\* (the checks of m_Dependencies in pushTask and _i_startTask).
THEOREM DependenciesDoneFirst == Spec => DependenciesFirst
<1>1. ASSUME IInv, DoneInOrder, [Lifecycle!Next]_(Lifecycle!vars),
             NEW k \in Tasks, ~task[k].m_ReadyToRun, task'[k].m_ReadyToRun,
             DoneInOrder', TypeOK'
      PROVE  \A d \in task[k].m_Dependencies \cup task[k].m_FinishedDependencies : task[d].m_Done
  <2>1. Stage(k) = "idle" /\ Stage(k)' # "idle"
    BY <1>1 DEF Stage
  <2>2. StageF[k] = "idle" /\ StageF'[k] # "idle"
    BY <2>1 DEF StageF
  <2>3. Lifecycle!MakeReady(k)
    <3>1. ~UNCHANGED Lifecycle!vars
      BY <2>2 DEF Lifecycle!vars, StageF
    <3>2. PICK j \in Tasks :
            \/ Lifecycle!MakeReady(j) \/ Lifecycle!Start(j) \/ Lifecycle!Finish(j)
            \/ Lifecycle!Drop(j) \/ Lifecycle!Abandon(j) \/ Lifecycle!Cancel(j)
            \/ \E d \in Tasks : Lifecycle!Depend(j, d)
      BY <1>1, <3>1 DEF Lifecycle!Next
    <3>3. StageF' # StageF
      BY <2>2
    <3>4. \E from, to : /\ StageF[j] = from /\ StageF' = [StageF EXCEPT ![j] = to]
                        /\ (from = "idle" => Lifecycle!MakeReady(j))
      BY <3>2, <3>3 DEF Lifecycle!MakeReady, Lifecycle!Start, Lifecycle!Finish, Lifecycle!Drop,
         Lifecycle!Abandon, Lifecycle!Cancel, Lifecycle!Depend, Lifecycle!Move, StageF
    <3>5. j = k
      BY <2>2, <3>4 DEF StageF
    <3>6. QED
      BY <2>2, <3>4, <3>5
  <2>4. \A d \in task[k].m_Dependencies \cup task[k].m_FinishedDependencies :
          d \in Tasks /\ Stage(d) = "done"
    <3>1. task[k].m_Dependencies \cup task[k].m_FinishedDependencies \subseteq Tasks
      BY <1>1 DEF IInv, TypeOK, ThreadTask
    <3>2. QED
      BY <2>3, <3>1 DEF Lifecycle!MakeReady
  <2>5. QED
    BY <2>4 DEF Stage
<1>2. IInv /\ DoneInOrder /\ [Lifecycle!Next]_(Lifecycle!vars) /\ IInv' /\ DoneInOrder'
        => [\A k \in Tasks : ~task[k].m_ReadyToRun /\ task'[k].m_ReadyToRun =>
              \A d \in task[k].m_Dependencies \cup task[k].m_FinishedDependencies :
                task[d].m_Done]_vars
  BY <1>1 DEF IInv
<1>3. QED
  BY <1>2, Invariant, InitDoneInOrder, StepImplements, PTL DEF Spec, DependenciesFirst

=============================================================================
