-------------------------- MODULE MCTaskSupervisor --------------------------
(* Instances of TaskSupervisor for TLC: the programs that call the scheduler. *)
EXTENDS TaskSupervisor, TLC

CONSTANTS main, interp, a, b, c

Push(k)      == [op |-> "push", task |-> k, other |-> k]
Cancel(k)    == [op |-> "cancel", task |-> k, other |-> k]
Wait(k)      == [op |-> "wait", task |-> k, other |-> k]
OnCancel(k, o) == [op |-> "addCancel", task |-> k, other |-> o]
OnStart(k, o)  == [op |-> "addStart", task |-> k, other |-> o]
Depend(k, o) == [op |-> "addDependency", task |-> k, other |-> o]
Allow(n)     == [op |-> "allow", n |-> n]

\* M2_main of M2lib.c: push the interpreter and wait for it.
MainScript == <<{Push(interp)}, {Wait(interp)}>>

\* The interpreter makes any calls on two tasks, links first.
Links == {OnCancel(a, b), OnCancel(b, a), OnStart(a, b), OnStart(b, a), Depend(b, a)}
Acts  == {Push(a), Push(b), Cancel(a), Cancel(b)}
GeneralScript ==
  (main :> MainScript) @@ (interp :> <<Links \cup Acts, Acts, Acts>>)
    @@ (a :> <<{Allow(1), Cancel(b), Push(b)}>>) @@ (b :> <<>>)

\* TS_Test1 of tests.cpp in small: a task depends on all earlier ones, the tasks
\* are pushed from the last one (one may be pushed twice while it waits, or not
\* at all) to the first, and the last one is waited for.
Late == {Push(b), Push(c)}
DependScript ==
  (main :> <<{Depend(b, a)}, {Depend(c, a)}, {Depend(c, b)}, Late, Late, {Push(a)}, {Wait(c)}>>)
    @@ (a :> <<{Allow(1), Allow(2)}>>) @@ (b :> <<>>) @@ (c :> <<>>)

=============================================================================
