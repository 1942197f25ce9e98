--------------------------- MODULE TaskSupervisor ---------------------------
(***************************************************************************)
(* The task scheduler of Macaulay2: src/M2/Macaulay2/system/supervisor.cpp *)
(* and supervisor.hpp.  A fixed pool of worker threads (SupervisorThread)  *)
(* takes tasks (ThreadTask) from a queue of ready tasks.  A task is made   *)
(* ready by pushTask, or by a task that lists it in m_StartTasks; a task   *)
(* may depend on tasks, cancel tasks and be waited for.                    *)
(*                                                                         *)
(* Two kinds of mutex protect this state: the one of the supervisor, and   *)
(* one in each task.  A step of this module is one critical section, or    *)
(* the part of one that lies between two lock operations, so that every    *)
(* order in which threads can take the two mutexes is a behaviour.         *)
(*                                                                         *)
(* The functions that tasks run are M2 programs; each is a script of calls *)
(* to the scheduler.  The interpreter itself is such a task: the main      *)
(* thread of the process (a Client) pushes it and waits for it.            *)
(***************************************************************************)
EXTENDS Integers, Sequences, FiniteSets

CONSTANTS
  Tasks,                  \* the ThreadTask objects
  Clients,                \* threads that are not workers and call the scheduler
  MaxNumThreads,          \* maxNumThreads: the size of the pool
  InitialAllowedThreads,  \* first value of currentAllowedThreads
  Script,                 \* Script[p][i]: the calls program p may make as its i-th
  Looping,                \* tasks whose function stops only when interrupted
  MaxSpurious,            \* bound on spurious wakeups of pthread_cond_wait
  NoThread, NoTask        \* the null pointers

Workers == 0 .. MaxNumThreads - 1        \* m_LocalThreadId
Threads == Workers \cup Clients
Programs == Tasks \cup Clients

LinkOps == {"addCancel", "addStart", "addDependency"}
TaskOps == {"push", "cancel", "wait"} \cup LinkOps

\* What a program may ask for: an operation on a task (and a second one for
\* the links), or a new value of currentAllowedThreads.
Call == [op : TaskOps, task : Tasks, other : Tasks]
          \cup [op : {"allow"}, n : 1 .. MaxNumThreads]

ASSUME ConstantsAssumption ==
  /\ MaxNumThreads \in Nat \ {0}
  /\ InitialAllowedThreads \in 1 .. MaxNumThreads
  /\ MaxSpurious \in Nat
  /\ Looping \subseteq Tasks
  /\ Script \in [Programs -> Seq(SUBSET Call)]
  /\ NoThread \notin Threads
  /\ NoTask \notin Tasks
  /\ Workers \cap Clients = {}
  /\ Tasks \cap Clients = {}

VARIABLES
  task,                   \* the fields of each ThreadTask
  m_ReadyTasks,           \* queue of the tasks to run
  m_RunningTasks,
  m_WaitingTasks,
  m_FinishedTasks,
  m_CanceledTasks,
  supMutex,               \* owner of ThreadSupervisor::m_Mutex
  taskMutex,              \* owner of each ThreadTask::m_Mutex between steps
  pc,                     \* where each thread is
  cur,                    \* the task each worker took from the queue
  call,                   \* the scheduler call each thread is in
  todo,                   \* what remains of the loops at the end of ThreadTask::run
  interrupt,              \* interrupts_interruptedFlag of each worker
  exception,              \* interrupts_exceptionFlag of each worker
  currentAllowedThreads,
  step,                   \* how many calls each program has made
  spurious                \* spurious wakeups still allowed

lists == <<m_ReadyTasks, m_RunningTasks, m_WaitingTasks, m_FinishedTasks, m_CanceledTasks>>
flags == <<interrupt, exception>>
env   == <<currentAllowedThreads, step, spurious>>
vars  == <<task, lists, supMutex, taskMutex, pc, cur, call, todo, flags, env>>

-----------------------------------------------------------------------------
\* The constructor of ThreadTask.  m_Result is TRUE when it is not NULL.
NewTask ==
  [m_Result |-> FALSE, m_Done |-> FALSE, m_Started |-> FALSE, m_KeepRunning |-> TRUE,
   m_ReadyToRun |-> FALSE, m_Running |-> FALSE, m_CancelTasks |-> {}, m_StartTasks |-> {},
   m_Dependencies |-> {}, m_FinishedDependencies |-> {}, m_CurrentThread |-> NoThread]

ThreadTask ==
  [m_Result : BOOLEAN, m_Done : BOOLEAN, m_Started : BOOLEAN, m_KeepRunning : BOOLEAN,
   m_ReadyToRun : BOOLEAN, m_Running : BOOLEAN, m_CancelTasks : SUBSET Tasks,
   m_StartTasks : SUBSET Tasks, m_Dependencies : SUBSET Tasks,
   m_FinishedDependencies : SUBSET Tasks, m_CurrentThread : Workers \cup {NoThread}]

\* A call in progress, and the label its caller goes back to.
NoCall == [op |-> "none", task |-> NoTask, other |-> NoTask, ret |-> "func"]
Frame  == {NoCall} \cup
          [op : TaskOps \cup {"start"}, task : Tasks, other : Tasks, ret : {"func", "dispatch"}]

WorkerLabels == {"loop", "getTask", "waiting", "run", "drop", "return", "finish", "dispatch"}
CallLabels   == {"func", "lockSupervisor", "lockTask", "link", "depend", "waitOn", "onFinish"}

Init ==
  /\ task = [k \in Tasks |-> NewTask]
  /\ m_ReadyTasks = <<>>
  /\ m_RunningTasks = {}
  /\ m_WaitingTasks = {}
  /\ m_FinishedTasks = {}
  /\ m_CanceledTasks = {}
  /\ supMutex = NoThread
  /\ taskMutex = [k \in Tasks |-> NoThread]
  /\ pc = [t \in Threads |-> IF t \in Workers THEN "loop" ELSE "func"]
  /\ cur = [w \in Workers |-> NoTask]
  /\ call = [t \in Threads |-> NoCall]
  /\ todo = [w \in Workers |-> {}]
  /\ interrupt = [w \in Workers |-> FALSE]
  /\ exception = [w \in Workers |-> FALSE]
  /\ currentAllowedThreads = InitialAllowedThreads
  /\ step = [p \in Programs |-> 0]
  /\ spurious = MaxSpurious

-----------------------------------------------------------------------------
(* Calls.  A thread makes them from "func": a client at any time, a worker *)
(* while it runs the function of its task.                                 *)

Program(t) == IF t \in Clients THEN t ELSE cur[t]

\* The calls program p may make next.
NextCalls(p) == IF step[p] < Len(Script[p]) THEN Script[p][step[p] + 1] ELSE {}

EntryLabel(op) ==
  CASE op \in {"push", "cancel"} -> "lockSupervisor"
    [] op = "wait"               -> "waitOn"
    [] op \in LinkOps            -> "link"

BeginCall(t) ==
  /\ pc[t] = "func"
  /\ \E c \in NextCalls(Program(t)) :
       /\ c.op \in TaskOps
       /\ call' = [call EXCEPT ![t] = [op |-> c.op, task |-> c.task, other |-> c.other,
                                       ret |-> "func"]]
       /\ pc' = [pc EXCEPT ![t] = EntryLabel(c.op)]
  /\ step' = [step EXCEPT ![Program(t)] = @ + 1]
  /\ UNCHANGED <<task, lists, supMutex, taskMutex, cur, todo, flags,
                 currentAllowedThreads, spurious>>

\* setAllowableThreads: an unprotected assignment.
SetAllowableThreads(t) ==
  /\ pc[t] = "func"
  /\ \E c \in NextCalls(Program(t)) :
       /\ c.op = "allow"
       /\ currentAllowedThreads' = c.n
  /\ step' = [step EXCEPT ![Program(t)] = @ + 1]
  /\ UNCHANGED <<task, lists, supMutex, taskMutex, pc, cur, call, todo, flags, spurious>>

\* m_Mutex.lock() at the head of pushTask, _i_cancelTask and _i_startTask.
LockSupervisor(t) ==
  /\ pc[t] = "lockSupervisor"
  /\ supMutex = NoThread
  /\ supMutex' = t
  /\ pc' = [pc EXCEPT ![t] = "lockTask"]
  /\ UNCHANGED <<task, lists, taskMutex, cur, call, todo, flags, env>>

\* t leaves its call.  pthread_cond_signal(&m_TaskWaitingCondition) wakes one
\* of the workers that wait for a task, if there is one.
Return(t) == pc' = [pc EXCEPT ![t] = call[t].ret]

ReturnAndSignal(t) ==
  LET sleepers == {w \in Workers : pc[w] = "waiting"}
  IN  IF sleepers = {} THEN Return(t)
      ELSE \E w \in sleepers : pc' = [pc EXCEPT ![t] = call[t].ret, ![w] = "getTask"]

AtTask(t, op) ==
  /\ pc[t] = "lockTask"
  /\ call[t].op = op
  /\ taskMutex[call[t].task] = NoThread

\* Mutant: neither function makes its test of m_ReadyToRun.
NeverReady(k) == FALSE

\* The test that pushTask and _i_startTask make under both mutexes.
AlreadyReady(k) == task[k].m_ReadyToRun

\* pushTask, for a task that was already made ready: the early return unlocks
\* the task and leaves m_Mutex locked.
PushReadyTask(t) ==
  /\ AtTask(t, "push")
  /\ AlreadyReady(call[t].task)
  /\ Return(t)
  /\ call' = [call EXCEPT ![t] = NoCall]
  /\ UNCHANGED <<task, lists, supMutex, taskMutex, cur, todo, flags, env>>

\* pushTask, for a task that is not yet ready.
PushTask(t) ==
  LET k == call[t].task
  IN  /\ AtTask(t, "push")
      /\ ~AlreadyReady(k)
      /\ IF task[k].m_Dependencies = {}
           THEN /\ task' = [task EXCEPT ![k].m_ReadyToRun = TRUE]
                /\ m_ReadyTasks' = Append(m_ReadyTasks, k)
                /\ UNCHANGED m_WaitingTasks
           ELSE /\ m_WaitingTasks' = m_WaitingTasks \cup {k}
                /\ UNCHANGED <<task, m_ReadyTasks>>
      /\ ReturnAndSignal(t)
      /\ supMutex' = NoThread
      /\ call' = [call EXCEPT ![t] = NoCall]
      /\ UNCHANGED <<m_RunningTasks, m_FinishedTasks, m_CanceledTasks, taskMutex, cur, todo,
                     flags, env>>

\* Mutants: _i_startTask forgets the other dependencies, or erases none.
NoneRemaining(k, launcher) == {}
AllRemaining(k, launcher)  == task[k].m_Dependencies

\* The dependencies of k that are left when the launcher is erased from them.
Remaining(k, launcher) == task[k].m_Dependencies \ {launcher}

\* _i_startTask(task, launcher): the launcher has finished.
StartReadyTask(t) ==
  /\ AtTask(t, "start")
  /\ AlreadyReady(call[t].task)
  /\ Return(t)
  /\ supMutex' = NoThread
  /\ call' = [call EXCEPT ![t] = NoCall]
  /\ UNCHANGED <<task, lists, taskMutex, cur, todo, flags, env>>

StartTask(t) ==
  LET k        == call[t].task
      launcher == call[t].other
      left     == Remaining(k, launcher)
      finished == task[k].m_FinishedDependencies \cup (task[k].m_Dependencies \cap {launcher})
  IN  /\ AtTask(t, "start")
      /\ ~AlreadyReady(k)
      /\ task' = [task EXCEPT ![k].m_Dependencies = left,
                              ![k].m_FinishedDependencies = finished,
                              ![k].m_ReadyToRun = (left = {})]
      /\ IF left = {}
           THEN /\ m_WaitingTasks' = m_WaitingTasks \ {k}
                /\ m_ReadyTasks' = Append(m_ReadyTasks, k)
                /\ ReturnAndSignal(t)
           ELSE /\ Return(t)
                /\ UNCHANGED <<m_WaitingTasks, m_ReadyTasks>>
      /\ supMutex' = NoThread
      /\ call' = [call EXCEPT ![t] = NoCall]
      /\ UNCHANGED <<m_RunningTasks, m_FinishedTasks, m_CanceledTasks, taskMutex, cur, todo,
                     flags, env>>

\* _i_cancelTask: flag the thread the task is said to run on, if any.
CancelTask(t) ==
  LET k == call[t].task
      w == task[k].m_CurrentThread
  IN  /\ AtTask(t, "cancel")
      /\ IF w = NoThread THEN UNCHANGED flags
         ELSE /\ interrupt' = [interrupt EXCEPT ![w] = TRUE]
              /\ exception' = [exception EXCEPT ![w] = TRUE]
      /\ task' = [task EXCEPT ![k].m_KeepRunning = FALSE]
      /\ Return(t)
      /\ supMutex' = NoThread
      /\ call' = [call EXCEPT ![t] = NoCall]
      /\ UNCHANGED <<lists, taskMutex, cur, todo, env>>

\* addCancelTask, addStartTask and the first half of addDependency: one set of
\* one task, under the mutex of that task.
LinkTask(t) ==
  LET k == call[t].task
      o == call[t].other
      owner == IF call[t].op = "addDependency" THEN o ELSE k
  IN  /\ pc[t] = "link"
      /\ taskMutex[owner] = NoThread
      /\ task' = CASE call[t].op = "addCancel" -> [task EXCEPT ![k].m_CancelTasks = @ \cup {o}]
                   [] call[t].op = "addStart"  -> [task EXCEPT ![k].m_StartTasks = @ \cup {o}]
                   [] OTHER                    -> [task EXCEPT ![o].m_StartTasks = @ \cup {k}]
      /\ IF call[t].op = "addDependency"
           THEN /\ pc' = [pc EXCEPT ![t] = "depend"]
                /\ UNCHANGED call
           ELSE /\ Return(t)
                /\ call' = [call EXCEPT ![t] = NoCall]
      /\ UNCHANGED <<lists, supMutex, taskMutex, cur, todo, flags, env>>

\* The second half of addDependency, after the first mutex was released.
DependTask(t) ==
  /\ pc[t] = "depend"
  /\ taskMutex[call[t].task] = NoThread
  /\ task' = [task EXCEPT ![call[t].task].m_Dependencies = @ \cup {call[t].other}]
  /\ Return(t)
  /\ call' = [call EXCEPT ![t] = NoCall]
  /\ UNCHANGED <<lists, supMutex, taskMutex, cur, todo, flags, env>>

\* ThreadTask::waitOn: test the condition under the task's mutex; either wait
\* on m_FinishCondition or return.
WaitOn(t) ==
  LET k == call[t].task
  IN  /\ pc[t] = "waitOn"
      /\ taskMutex[k] = NoThread
      /\ IF ~task[k].m_Done /\ task[k].m_KeepRunning
           THEN /\ pc' = [pc EXCEPT ![t] = "onFinish"]
                /\ UNCHANGED call
           ELSE /\ Return(t)
                /\ call' = [call EXCEPT ![t] = NoCall]
      /\ UNCHANGED <<task, lists, supMutex, taskMutex, cur, todo, flags, env>>

-----------------------------------------------------------------------------
(* The worker: SupervisorThread::threadEntryPoint, ThreadSupervisor::      *)
(* getTask and ThreadTask::run.                                            *)

\* A worker whose number is not below currentAllowedThreads sleeps and looks
\* again; another clears its interrupt flag and goes for a task.
EnterLoop(w) ==
  /\ pc[w] = "loop"
  /\ w < currentAllowedThreads
  /\ interrupt' = [interrupt EXCEPT ![w] = FALSE]
  /\ pc' = [pc EXCEPT ![w] = "getTask"]
  /\ UNCHANGED <<task, lists, supMutex, taskMutex, cur, call, todo, exception, env>>

GetTask(w) ==
  /\ pc[w] = "getTask"
  /\ supMutex = NoThread
  /\ IF m_ReadyTasks = <<>>
       THEN /\ pc' = [pc EXCEPT ![w] = "waiting"]
            /\ UNCHANGED <<m_ReadyTasks, m_RunningTasks, cur>>
       ELSE /\ cur' = [cur EXCEPT ![w] = Head(m_ReadyTasks)]
            /\ m_ReadyTasks' = Tail(m_ReadyTasks)
            /\ m_RunningTasks' = m_RunningTasks \cup {Head(m_ReadyTasks)}
            /\ pc' = [pc EXCEPT ![w] = "run"]
  /\ UNCHANGED <<task, m_WaitingTasks, m_FinishedTasks, m_CanceledTasks, supMutex, taskMutex,
                 call, todo, flags, env>>

\* The head of run: a task canceled before it started keeps its mutex into
\* _i_finished; another is marked as running and its function is called.
RunTask(w) ==
  LET k == cur[w]
  IN  /\ pc[w] = "run"
      /\ taskMutex[k] = NoThread
      /\ IF task[k].m_KeepRunning
           THEN /\ task' = [task EXCEPT ![k].m_CurrentThread = w, ![k].m_Started = TRUE,
                                        ![k].m_Running = TRUE]
                /\ pc' = [pc EXCEPT ![w] = "func"]
                /\ UNCHANGED taskMutex
           ELSE /\ taskMutex' = [taskMutex EXCEPT ![k] = w]
                /\ pc' = [pc EXCEPT ![w] = "drop"]
                /\ UNCHANGED task
      /\ UNCHANGED <<lists, supMutex, cur, call, todo, flags, env>>

\* m_Func returns: its calls are made (a Looping one has no end), or it has
\* seen the interrupt flag.
FuncReturns(w) ==
  /\ w \in Workers
  /\ pc[w] = "func"
  /\ \/ step[cur[w]] = Len(Script[cur[w]]) /\ cur[w] \notin Looping
     \/ interrupt[w]
  /\ task' = [task EXCEPT ![cur[w]].m_Result = TRUE]
  /\ pc' = [pc EXCEPT ![w] = "return"]
  /\ UNCHANGED <<lists, supMutex, taskMutex, cur, call, todo, flags, env>>

\* Mutant: a task canceled while it ran is ended like another.
AfterFuncAlways(w) ==
  LET k == cur[w]
  IN  /\ pc[w] = "return"
      /\ taskMutex[k] = NoThread
      /\ task' = [task EXCEPT ![k].m_Running = FALSE, ![k].m_Done = TRUE,
                              ![k].m_CurrentThread = NoThread]
      /\ taskMutex' = [taskMutex EXCEPT ![k] = w]
      /\ pc' = [pc EXCEPT ![w] = "finish"]
      /\ UNCHANGED <<cur, lists, supMutex, call, todo, flags, env>>

\* After m_Func: a canceled task is left at once; another is done, and its
\* mutex is kept to the end of run.
AfterFunc(w) ==
  LET k == cur[w]
  IN  /\ pc[w] = "return"
      /\ taskMutex[k] = NoThread
      /\ IF task[k].m_KeepRunning
           THEN /\ task' = [task EXCEPT ![k].m_Running = FALSE, ![k].m_Done = TRUE,
                                        ![k].m_CurrentThread = NoThread]
                /\ taskMutex' = [taskMutex EXCEPT ![k] = w]
                /\ pc' = [pc EXCEPT ![w] = "finish"]
                /\ UNCHANGED cur
           ELSE /\ task' = [task EXCEPT ![k].m_Running = FALSE]
                /\ pc' = [pc EXCEPT ![w] = "loop"]
                /\ cur' = [cur EXCEPT ![w] = NoTask]
                /\ UNCHANGED taskMutex
      /\ UNCHANGED <<lists, supMutex, call, todo, flags, env>>

\* Mutant: _i_finished does not broadcast.
NoneWoken(k) == {}

\* pthread_cond_broadcast(&task->m_FinishCondition): everyone who waits for k
\* goes back to test the condition.
Woken(k) == {t \in Threads : pc[t] = "onFinish" /\ call[t].task = k}

\* Mutant: _i_finished does not look at m_KeepRunning.
MoveAllToFinished(k) ==
  /\ m_RunningTasks' = m_RunningTasks \ {k}
  /\ m_FinishedTasks' = m_FinishedTasks \cup {k}
  /\ UNCHANGED <<m_CanceledTasks, m_ReadyTasks, m_WaitingTasks>>

\* _i_finished moves the task to the finished or the canceled ones.
MoveToFinished(k) ==
  /\ m_RunningTasks' = m_RunningTasks \ {k}
  /\ IF task[k].m_KeepRunning
       THEN /\ m_FinishedTasks' = m_FinishedTasks \cup {k}
            /\ UNCHANGED m_CanceledTasks
       ELSE /\ m_CanceledTasks' = m_CanceledTasks \cup {k}
            /\ UNCHANGED m_FinishedTasks
  /\ UNCHANGED <<m_ReadyTasks, m_WaitingTasks>>

\* _i_finished for a task that never started; run returns.
DropTask(w) ==
  LET k == cur[w]
  IN  /\ pc[w] = "drop"
      /\ supMutex = NoThread
      /\ MoveToFinished(k)
      /\ taskMutex' = [taskMutex EXCEPT ![k] = NoThread]
      /\ cur' = [cur EXCEPT ![w] = NoTask]
      /\ pc' = [t \in Threads |-> IF t = w THEN "loop"
                                  ELSE IF t \in Woken(k) THEN "waitOn" ELSE pc[t]]
      /\ UNCHANGED <<task, supMutex, call, todo, flags, env>>

\* _i_finished for a task that is done; the loops over m_CancelTasks and
\* m_StartTasks come next.
FinishTask(w) ==
  LET k == cur[w]
  IN  /\ pc[w] = "finish"
      /\ supMutex = NoThread
      /\ MoveToFinished(k)
      /\ todo' = [todo EXCEPT ![w] = ({"cancel"} \X task[k].m_CancelTasks)
                                        \cup ({"start"} \X task[k].m_StartTasks)]
      /\ pc' = [t \in Threads |-> IF t = w THEN "dispatch"
                                  ELSE IF t \in Woken(k) THEN "waitOn" ELSE pc[t]]
      /\ UNCHANGED <<task, supMutex, taskMutex, cur, call, flags, env>>

\* One turn of these loops: all the cancellations come before the starts.
Dispatch(w) ==
  /\ pc[w] = "dispatch"
  /\ \E d \in todo[w] :
       /\ d[1] = "start" => ~\E e \in todo[w] : e[1] = "cancel"
       /\ todo' = [todo EXCEPT ![w] = @ \ {d}]
       /\ call' = [call EXCEPT ![w] = [op |-> d[1], task |-> d[2], other |-> cur[w],
                                       ret |-> "dispatch"]]
  /\ pc' = [pc EXCEPT ![w] = "lockSupervisor"]
  /\ UNCHANGED <<task, lists, supMutex, taskMutex, cur, flags, env>>

\* Mutant: run returns without unlocking the task.
EndRunLocked(w) ==
  /\ pc[w] = "dispatch"
  /\ todo[w] = {}
  /\ cur' = [cur EXCEPT ![w] = NoTask]
  /\ pc' = [pc EXCEPT ![w] = "loop"]
  /\ UNCHANGED <<task, lists, supMutex, taskMutex, call, todo, flags, env>>

EndRun(w) ==
  /\ pc[w] = "dispatch"
  /\ todo[w] = {}
  /\ taskMutex' = [taskMutex EXCEPT ![cur[w]] = NoThread]
  /\ cur' = [cur EXCEPT ![w] = NoTask]
  /\ pc' = [pc EXCEPT ![w] = "loop"]
  /\ UNCHANGED <<task, lists, supMutex, call, todo, flags, env>>

\* pthread_cond_wait may return without a signal (POSIX; see the comment in
\* getTask).
SpuriousWakeup(t) ==
  /\ spurious > 0
  /\ \/ /\ pc[t] = "waiting"
        /\ pc' = [pc EXCEPT ![t] = "getTask"]
     \/ /\ pc[t] = "onFinish"
        /\ pc' = [pc EXCEPT ![t] = "waitOn"]
  /\ spurious' = spurious - 1
  /\ UNCHANGED <<task, lists, supMutex, taskMutex, cur, call, todo, flags,
                 currentAllowedThreads, step>>

-----------------------------------------------------------------------------
\* What a thread does between two waits, inside the scheduler.
CallStep(t) ==
  \/ LockSupervisor(t) \/ PushReadyTask(t) \/ PushTask(t) \/ StartReadyTask(t)
  \/ StartTask(t) \/ CancelTask(t) \/ LinkTask(t) \/ DependTask(t) \/ WaitOn(t)

WorkerStep(w) ==
  \/ EnterLoop(w) \/ GetTask(w) \/ RunTask(w) \/ AfterFunc(w) \/ DropTask(w)
  \/ FinishTask(w) \/ Dispatch(w) \/ EndRun(w)

ProgramStep(t) == BeginCall(t) \/ SetAllowableThreads(t)

Next ==
  \/ \E t \in Threads : CallStep(t) \/ ProgramStep(t) \/ SpuriousWakeup(t)
  \/ \E w \in Workers : WorkerStep(w) \/ FuncReturns(w)

Spec == Init /\ [][Next]_vars

\* The threads of a process go on running; a spurious wakeup need not occur.
\* Calls are finitely many, so a lock a thread waits for is not taken by others
\* for ever, and weak fairness is enough.
Fairness ==
  /\ \A t \in Threads : WF_vars(CallStep(t)) /\ WF_vars(ProgramStep(t))
  /\ \A w \in Workers : WF_vars(WorkerStep(w)) /\ WF_vars(FuncReturns(w))

FairSpec == Spec /\ Fairness

-----------------------------------------------------------------------------
(* Properties. *)

\* Every variable has its type (the fields of supervisor.hpp).
TypeOK ==
  /\ task \in [Tasks -> ThreadTask]
  /\ m_ReadyTasks \in Seq(Tasks)
  /\ m_RunningTasks \in SUBSET Tasks
  /\ m_WaitingTasks \in SUBSET Tasks
  /\ m_FinishedTasks \in SUBSET Tasks
  /\ m_CanceledTasks \in SUBSET Tasks
  /\ supMutex \in Threads \cup {NoThread}
  /\ taskMutex \in [Tasks -> Workers \cup {NoThread}]
  /\ pc \in [Threads -> WorkerLabels \cup CallLabels]
  /\ cur \in [Workers -> Tasks \cup {NoTask}]
  /\ call \in [Threads -> Frame]
  /\ todo \in [Workers -> SUBSET ({"cancel", "start"} \X Tasks)]
  /\ interrupt \in [Workers -> BOOLEAN]
  /\ exception \in [Workers -> BOOLEAN]
  /\ currentAllowedThreads \in 1 .. MaxNumThreads
  /\ step \in [Programs -> Nat]
  /\ spurious \in Nat

Queued(k)    == \E i \in DOMAIN m_ReadyTasks : m_ReadyTasks[i] = k
Executors(k) == {w \in Workers : cur[w] = k}

\* The lists partition the tasks that were made ready: such a task is, once, in
\* exactly one of the four lists; one that was not is in none of them.  Pushing a
\* task twice, starting it from two tasks, or both, never makes a second entry
\* (m_ReadyToRun, tested under both mutexes).
EachTaskInOneList ==
  /\ \A i, j \in DOMAIN m_ReadyTasks : m_ReadyTasks[i] = m_ReadyTasks[j] => i = j
  /\ \A k \in Tasks :
       /\ task[k].m_ReadyToRun <=>
            Queued(k) \/ k \in m_RunningTasks \cup m_FinishedTasks \cup m_CanceledTasks
       /\ Queued(k) => k \notin m_RunningTasks \cup m_FinishedTasks \cup m_CanceledTasks
  /\ m_RunningTasks \cap (m_FinishedTasks \cup m_CanceledTasks) = {}
  /\ m_FinishedTasks \cap m_CanceledTasks = {}
  /\ \A k \in m_WaitingTasks : ~task[k].m_ReadyToRun /\ task[k].m_Dependencies # {}

\* No two workers have the same task, and a task in a worker's hands is not in
\* the queue; it is in m_RunningTasks until that worker has moved it away.
OneExecutor ==
  /\ \A v, w \in Workers : cur[v] = cur[w] /\ cur[v] # NoTask => v = w
  /\ \A w \in Workers : pc[w] \in {"run", "drop", "return", "finish"} => cur[w] \in m_RunningTasks

\* The function of a task is called at most once in its life.
RunOnce ==
  [][\A w \in Workers : pc[w] = "run" /\ pc'[w] = "func" => ~task[cur[w]].m_Started]_vars

\* A task becomes ready only when every task it was declared to depend on, until
\* then, is done: the check of TS_Test1_Func in system/tests.cpp.
DependenciesFirst ==
  [][\A k \in Tasks : ~task[k].m_ReadyToRun /\ task'[k].m_ReadyToRun =>
       \A d \in task[k].m_Dependencies \cup task[k].m_FinishedDependencies : task[d].m_Done]_vars

\* The two terminal lists say what happened: a finished task ran to its end with
\* a result, a canceled one was never started.
TerminalListsTruthful ==
  /\ \A k \in m_FinishedTasks : task[k].m_Done /\ task[k].m_Started /\ task[k].m_Result
  /\ \A k \in m_CanceledTasks : ~task[k].m_Started /\ ~task[k].m_KeepRunning

\* A worker keeps a task's mutex across steps exactly while it ends that task.
EndingTask(w) ==
  \/ pc[w] \in {"drop", "finish", "dispatch"}
  \/ pc[w] \in {"lockSupervisor", "lockTask"} /\ call[w].ret = "dispatch"

TaskMutexDiscipline ==
  \A k \in Tasks, w \in Workers : taskMutex[k] = w <=> (cur[w] = k /\ EndingTask(w))

\* Where a thread is says what it holds: a worker has a task from the moment it
\* takes it to the end of run, and only a worker that ends a task dispatches.
ThreadLabels ==
  /\ \A w \in Workers : pc[w] \in {"loop", "getTask", "waiting"} <=> cur[w] = NoTask
  /\ \A t \in Clients : pc[t] \in CallLabels /\ call[t].ret = "func"
  /\ \A t \in Threads :
       /\ pc[t] \in CallLabels \ {"func"} => call[t].task \in Tasks /\ call[t].other \in Tasks
       /\ pc[t] \in CallLabels \ {"func", "lockSupervisor", "lockTask"} => call[t].ret = "func"
       /\ pc[t] \in {"lockSupervisor", "lockTask"} => call[t].op \in {"push", "cancel", "start"}
       /\ call[t].op = "start" => call[t].ret = "dispatch"

\* How far run has come with the task in a worker's hands.
StageOf(w, k) ==
  /\ ~Queued(k)
  /\ pc[w] \in {"run", "drop"} => ~task[k].m_Started
  /\ pc[w] = "drop" => ~task[k].m_KeepRunning
  /\ pc[w] \notin {"run", "drop"} => task[k].m_Started
  /\ EndingTask(w) /\ pc[w] # "drop" => task[k].m_Done /\ task[k].m_Result
  /\ pc[w] = "finish" => task[k].m_KeepRunning
  /\ pc[w] = "return" => task[k].m_Result
  /\ ~EndingTask(w) => k \in m_RunningTasks
  /\ EndingTask(w) /\ pc[w] \notin {"drop", "finish"} => k \in m_FinishedTasks

StageOfTask == \A w \in Workers : cur[w] # NoTask => StageOf(w, cur[w])

\* A task that was not yet taken from the queue was never started.
NotTaken ==
  \A k \in Tasks : ~task[k].m_ReadyToRun \/ Queued(k) =>
    ~task[k].m_Started /\ \A w \in Workers : cur[w] # k

\* The inductive invariant of the proofs (TaskSupervisorProofs).
IInv ==
  /\ TypeOK
  /\ EachTaskInOneList
  /\ OneExecutor
  /\ TerminalListsTruthful
  /\ TaskMutexDiscipline
  /\ ThreadLabels
  /\ StageOfTask
  /\ NotTaken

\* Nobody sleeps through the end of a task: one who waits for a task that is
\* done is about to be woken by the worker that ends it.
NoLostFinish ==
  \A t \in Threads :
    pc[t] = "onFinish" /\ task[call[t].task].m_Done =>
      \E w \in Workers : cur[w] = call[t].task /\ pc[w] = "finish"

\* The workers do not all sleep on m_TaskWaitingCondition over a queued task.
NoLostTask ==
  m_ReadyTasks # <<>> => \E w \in Workers : pc[w] # "waiting"

\* Every task made ready, and every task put on the waiting list, gets done.
AllTasksDone ==
  \A k \in Tasks \ Looping :
    task[k].m_ReadyToRun \/ k \in m_WaitingTasks ~> task[k].m_Done

\* waitOn returns.
WaitReturns == \A t \in Threads : pc[t] = "waitOn" ~> pc[t] = "func"

-----------------------------------------------------------------------------
(* The promise of TaskLifecycle. *)

Stage(k) ==
  IF ~task[k].m_ReadyToRun THEN "idle"
  ELSE IF task[k].m_Done THEN "done"
  ELSE IF task[k].m_Started THEN IF Executors(k) # {} THEN "running" ELSE "abandoned"
  ELSE IF k \in m_CanceledTasks THEN "dropped" ELSE "ready"

Lifecycle == INSTANCE TaskLifecycle WITH
  stage    <- [k \in Tasks |-> Stage(k)],
  canceled <- [k \in Tasks |-> ~task[k].m_KeepRunning],
  deps     <- [k \in Tasks |-> task[k].m_Dependencies \cup task[k].m_FinishedDependencies]

\* Whatever the workers, the programs and the two kinds of mutex do, each task
\* goes through the stages of TaskLifecycle.
ImplementsLifecycle == Lifecycle!Spec

=============================================================================
