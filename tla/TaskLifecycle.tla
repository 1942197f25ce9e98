--------------------------- MODULE TaskLifecycle ---------------------------
(***************************************************************************)
(* What the scheduler promises of each task, without threads, queues or    *)
(* mutexes: its function is called at most once, after every task it was   *)
(* declared to depend on is done; it ends as done, or, once canceled, as   *)
(* dropped (never started) or abandoned (stopped half way).                *)
(* TaskSupervisor implements this specification.                           *)
(***************************************************************************)
CONSTANT Tasks

VARIABLES
  stage,      \* how far each task has come
  canceled,   \* whether it was asked to stop
  deps        \* the tasks it was declared to depend on

vars == <<stage, canceled, deps>>

Stages == {"idle", "ready", "running", "done", "dropped", "abandoned"}

TypeOK ==
  /\ stage \in [Tasks -> Stages]
  /\ canceled \in [Tasks -> BOOLEAN]
  /\ deps \in [Tasks -> SUBSET Tasks]

Init ==
  /\ stage = [k \in Tasks |-> "idle"]
  /\ canceled = [k \in Tasks |-> FALSE]
  /\ deps = [k \in Tasks |-> {}]

Move(k, from, to) ==
  /\ stage[k] = from
  /\ stage' = [stage EXCEPT ![k] = to]
  /\ UNCHANGED <<canceled, deps>>

MakeReady(k) ==
  /\ \A d \in deps[k] : stage[d] = "done"
  /\ Move(k, "idle", "ready")

Start(k)   == ~canceled[k] /\ Move(k, "ready", "running")
Finish(k)  == ~canceled[k] /\ Move(k, "running", "done")
Drop(k)    == canceled[k] /\ Move(k, "ready", "dropped")
Abandon(k) == canceled[k] /\ Move(k, "running", "abandoned")

\* Canceling is for ever; it does not wait for the task.
Cancel(k) ==
  /\ canceled' = [canceled EXCEPT ![k] = TRUE]
  /\ UNCHANGED <<stage, deps>>

\* A dependency may be declared at any time; it holds back a task that is idle.
Depend(k, d) ==
  /\ deps' = [deps EXCEPT ![k] = @ \cup {d}]
  /\ UNCHANGED <<stage, canceled>>

Next ==
  \E k \in Tasks :
    \/ MakeReady(k) \/ Start(k) \/ Finish(k) \/ Drop(k) \/ Abandon(k) \/ Cancel(k)
    \/ \E d \in Tasks : Depend(k, d)

Spec == Init /\ [][Next]_vars

=============================================================================
