# A verification project for the Macaulay2 interpreter and engine

TLA+ models, TLC runs and TLAPS proofs about the program in `src/M2/Macaulay2`: the scheduler of
tasks, the lock and the output buffer of a file, interrupts and shields, hash tables that threads share, and
the engine's Groebner bases, resolutions and Hilbert functions. The models are translated from the source; paths below are relative to
`src/M2/Macaulay2`. `PROJECT.json` maps every definition to the lines it stands for.

## 1. The system

Macaulay2 is an interpreter for algebra with a computation engine.

| Part | Source | State | Operations | Meets |
|---|---|---|---|---|
| Task supervisor | `system/supervisor.*` | five task lists, a mutex, two condition variables; per task flags, links, a mutex | push, link, cancel, wait, set the number of threads; the loop of a worker | tasks of the language, interrupt flags |
| Tasks of the language | `d/pthread.d` | task cells: function, argument, result, "retrieved" | `schedule`, `createTask`, `cancelTask`, `taskResult`, finalizer | supervisor, garbage collector |
| File state lock | `system/m2file.*` | mode, owner, two recursion counts, a mutex, a condition | Get/ReleaseState, Start/End of input and output, SetThreadMode | file buffers, tasks |
| File buffers | `d/stdio.d` | input and output buffers, nets | `<<`, `flush`, `endl`, `filbuf` | file lock, interrupts |
| Interrupts | `d/interrupts.d`, `d/M2lib.c` | interrupted, exception, alarmed, stepping, shield, pending flags of a thread | signal handlers, shield, clear | evaluator, engine, supervisor |
| Groebner bases | `e/gb-default.*`, `m2/gb.m2` | basis, S-pairs by degree, where the computation is, stop conditions | start or continue, set stops, set Hilbert function | interrupts, monomial tables, Hilbert functions |
| S-pair criteria | `e/gb-default.cpp` | basis elements, their lead terms, the pairs that wait | make, compare and remove pairs | Groebner bases, monomial tables |
| Resolutions | `e/res-a1.*`, `m2/res.m2` | pairs by level and slanted degree, where the computation is | start or continue, set stops | interrupts |
| Hilbert functions | `e/hilb.*` | a stack of monomial ideals, partial numerators | `step`, `calc` | Groebner bases |
| Monomial tables | `e/montable.*`, `e/ntuple.hpp` | lead terms with masks, the last match | insert, find divisors, minimalize | S-pair criteria |
| Hash tables | `d/hashtables.dd`, `d/equality.dd` | buckets, a count, a spin lock | store, remove, lookup, enlarge, shrink, copy, equal | everything in the language |
| Other engine algorithms | `e/gb-*.cpp`, `e/f4`, `e/res-a0.cpp`, `e/res-a2.cpp` | like the above | like the above | like the above |
| Rings and matrices of the engine | rings, matrices, `e/monideal*` | trees, lists, polynomials | pure | the algorithms |
| Evaluator, parser | `d/evaluate.d`, `d/parser.d` | frames, symbols | eval, parse | everything in the language |
| The rest | `c/`, `dumpdata/`, `kernel/`, `m2/`, `packages/`, `regex/`, ... | build tools, libraries, mathematics | | |

What is hard. Workers, the main thread and signal handlers interleave: each supervisor call takes the
mutex of the supervisor and that of a task, not always in the same order, and condition variables wake
whoever happens to sleep. `m2file.cpp` reads the mode of a file without its lock and acts on it
later. A Groebner basis computation may be left at any interrupt or stop and is entered again where
it was left, so that a sequence of legal calls may reach states no test ever reached; so may a resolution.
A signal comes between any two reads and writes of the interrupt flags, and an output operation that it
ends leaves characters in one of three places. A lookup in a hash table takes no lock. The pair criteria each
rely on pairs that another one may remove.

What makes each part correct, in short: a scheduled task runs exactly once after its
dependencies, and who waits for it is woken; at most one thread has a file's state, and it can be had
again; a computation loses no pair, and what its status claims is true; every two basis elements are settled
by the pairs that are kept; output comes in order or an error tells; an interrupt is answered once and not in
a shield; a lookup finds what was there.
`PROJECT.json` lists the hazards with their lines, and for those not covered yet the module that is
planned.

## 2. Modules

| Module | Models |
|---|---|
| `TaskLifecycle` | the abstract promise for each task |
| `TaskSupervisor` | the scheduler; `Lifecycle` is its refinement mapping |
| `TaskSupervisorProofs` | the theorems about it, and that it implements `TaskLifecycle` |
| `MCTaskSupervisor` | scripts of calls for TLC |
| `M2File`, `MCM2File`; `M2FileProofs` | the lock of a file; its theorems |
| `Interrupts` | the interrupt flags, the handler of SIGINT, and the shield |
| `FileOutput` | the output side of a file; it extends `Interrupts`, with which it shares the thread |
| `FileOutputProofs` | the theorems about it |
| `HashTables`, `MCHashTables`; `HashTablesProofs` | hash tables with writers and readers; its theorems |
| `GBComputation`, `MCGBComputation`; `GBComputationProofs` | the control of the Groebner basis computation; its theorems |
| `Monomials`, `MonomialTable` | exponent vectors; the table that finds divisors, and minimalization |
| `CriticalPairs`, `MCCriticalPairs`; `CriticalPairsProofs` | which S-pairs are made, kept and removed; its theorems |
| `HilbertNumerator`, `MCHilbertNumerator`; `HilbertNumeratorProofs` | the numerator of a Hilbert series; its theorems |
| `Resolution`, `MCResolution`; `ResolutionProofs` | the control of the resolutions of `e/res-a1.cpp`; its theorems |

Definitions marked `Mutant:` are not part of a model. Each is a plausible wrong version of the
definition that follows it, and shows that a property can fail.

### TaskSupervisor

`task[k]` has the fields of `ThreadTask`, the lists are those of `ThreadSupervisor`, `supMutex` and
`taskMutex` the owners of the mutexes, and `pc`, `cur`, `call`, `todo` say where each thread is. A step is a
critical section, or the part of one between two lock operations; so `pushTask` is `LockSupervisor`
followed by `PushTask` or, when the task was made ready before, `PushReadyTask`, which leaves the
supervisor's mutex locked as the code does. A worker goes through `EnterLoop`, `GetTask`, `RunTask`,
`FuncReturns`, `AfterFunc` and then `FinishTask`, `Dispatch`, `EndRun`, or `DropTask` for a task canceled
before it ran. `Dispatch` makes the cancellations and starts that the task lists; the worker keeps the
mutex of its task meanwhile. The functions of tasks are scripts of calls: what a script may call
next is a set, of which any member is taken.
Left out: links of a task to itself, the thread-local variables, and `createThreadGC`.

### TaskLifecycle

A task is idle, ready, running and done; or, once canceled, dropped before it started or abandoned
while it ran. `ImplementsLifecycle` says that whatever the threads do, each task goes through these
stages only, and gets ready only after its dependencies are done. The stage of a task is computed from
its flags and the workers (`Stage`).

### M2File

A thread opens and closes brackets (`held`), as the functions of `d/stdio.d` do, and changes the mode
outside of all brackets. The mode is a plain `int`, which `SetThreadMode` writes without the mutex and the other functions
read several times, and each read is a step: up to three in `GetState` (`GetState`, `GetSecond`, `GetThird`) and in
`ReleaseState`, one before and two inside `waitExclusiveThread` (`OtherLeaves` is the test at `m2file.cpp:48`,
`OtherPasses` the one at `:50`, `OwnerLeaves` the one at `:39`). When the mode changes under the three tests of
`GetState`, it ends without a return value: `GetThird` then returns, or goes on as in the exclusive mode, what a
compiler may make of it. The owner, too, is dropped without the mutex (`DropOwner`, `:134`), so the tests of
`waitExclusiveThreadAcquire` are steps with the mutex held (`Acquire`, `TakeOwner`, `CountOwner`). Reads and writes
are merged into one step only where every other access holds the mutex, or commutes. `discipline` is the rule
that the callers keep: which changes of the mode they make while the file is in use (`inUse`); any other waits until
all threads are idle and hold nothing. `size_t` wraps at `SizeModulus`. The condition
variable of a file is never initialized in the source; it lies in zeroed memory, which is what a static
initializer of the GNU C library gives. A spurious wakeup of it makes a thread test again, as any
broadcast does, and is left out.

### GBComputation

The lists of `SPairSet` are sets, `pc` and `state` are the place in `do_computation`, and each disjunct
of `Compute` is one turn of one of its loops. A pair or generator knows how many reductions it takes
beyond the limit that defers it (`work`), and whether its remainder is zero (`new`): both are
chosen when it is made, within the bounds, and are all the model keeps of polynomials. Deferral within a
degree (`DeferPair`), deferral to a later degree with a non-minimal element (`RaisePair`), the
swap over the integers (`ProcessSwapped`) and the flush with a Hilbert function (`InsertGb`,
`NewDegree`) are the code's. `Call` is `gb` of `m2/gb.m2`: hint, stop conditions, start. `done` and
`flushed` are history variables. Left out: the codimension limit, which the code compares with the
constant 0; elements of a quotient ring in the counts; which pairs a criterion removes (any that would
give nothing new: `CriticalPairs` is about these).

### Monomials, MonomialTable, CriticalPairs

A polynomial is its lead term and its gap (degree minus the weight of the lead term). `NewElement` and
`NewReducer` insert any lead term that the table says no element divides; `UpdatePairs` is `update_pairs`: it
removes waiting pairs (`PairNotNeeded`), makes those of the new element with elements, ring elements and skew
variables, sorts them (`SortKeys`) and goes through them with a table of lcms (`MinimalizePairs`). The sort
is by degree, type and lcm, so that of equal pairs any may come first: `Choices`. `Joined` says that there is a chain from one element to
another without naming it: every set of elements with the one, out of which no settled pair leads, has the other. A table is the sequence of its terms with the last match,
since the search tries that one first; a mask is a set of bits. `NextDegree` takes the pairs of the least
degree. Over the integers other criteria hold, which are not modelled.

### HilbertNumerator

A level of the stack is a `hilb_step`: ideals still to do, where the quotients end and the sums begin, and two partial
products. A step does an ideal of one or two generators at once (`DoFew`), splits a larger one by a pivot into quotient
and sum and goes down (`Recurse`), goes up (`OneUp`), or turns to the next component. Ideals are sets of
minimal generators; `Partition` keeps the union-find of `partition_table`. The degree ring has one variable, and its
arithmetic is external. The cached numerator of a matrix and `coeff_of` are left out.

`popular_var` (`e/hilb.cpp:152-183`) steps past the first variable of a monomial before it looks at any. So the greatest
variable of a mixed monomial is not counted (`Counted`), and of a pure power `j.var()` is read behind
its end, where the cleared memory of `intarray` (`e/mem.hpp:92`) has 0: pure powers of any number count as one (`NPure`). `find_pivot`
therefore never returns 0 for three generators or more, which `IdealsFit` says and the proof shows for all ideals, and the
products that `do_ideal` has for that case (`:520-559`) are never computed. They are not modelled. The results are right all
the same, after more steps than necessary; the comments at `:135-137` and `:197-203` describe what was meant.

### HashTables

A writer takes the lock, looks its key up and writes once in one step; each further write is a step
(`Link`, `Enlarge`, `Count`, `Unlink`, `Shrink`, `Unlock`). What a reader can still reach is `ahead`: cells
in the table change with it, cells that were unlinked or left in an old table are marked `gone` and stay. `seen` is the
history of what the table held since the lookup began. A comment in `storeInHashTable` (`d/hashtables.dd:119-122`) says that readers without the lock are not confused; but
`lookup1` reads the length and then the bucket (`:311`): between the two, a table that is enlarged may hide a key, and one
that is shrunk may make the index lie outside, which ends the program (`outside`, `Running`). `straddled` marks
these lookups. Tables under construction (`storeInHashTableNoClobber` and its like) have one thread and
are left out, and so is `beingInitialized`.

### Interrupts and FileOutput

Each step of `Interrupts` writes one flag at most, and `Interrupt` may come before any. `Eval` tests `exceptionFlag`;
`Raise` makes the error, which passes `levels` of eval up to the top, where `clearAllFlags` wipes the
flags one by one, or up to a shield; `EnterShield`, `BeginShield`, `Unshield`, `Restore` are `shieldfun`. `owed` is an interrupt that nothing
answered yet. An interrupt that comes after `shieldfun` has lowered the shield and before it has put the flags
back (`d/evaluate.d:1436-1438`) is overwritten, or is not told: `straddled` marks it. Left out: `shieldfun` ends the program
(`exit(1)`) when it finds a pending interrupt and standard input is not a terminal.

`FileOutput` numbers the characters. `Begin` starts an operation, `Calls` lists the calls that are left, and
`Net`, `FlushNets`, `SimpleOut`, `PutChar`, `SimpleFlush`, `WriteLoop` and `CloseOut` are those of `d/stdio.d`; a
write takes all, some or none, or fails, and an interrupt in the middle of one erases what was not written. The language's own
`flush` ignores what it returns (`d/actors2.d:482-486`): a failed write sets `o.error` and no more. Left out: a file without a
descriptor, the input side, echo and prompts, and a `close(2)` that fails in `closeOut`.

### Resolution

A pair has a level, a slanted degree and what became of it (`type`, the `syz_type` of the code). The lists of a degree set are
`next_gen`, `next_new_pair` and `next_pair`; the last two exist once the set is sorted. `pc` is the call that
`start_computation` is in: one action for each, of which a step handles one generator or pair and looks at
limits and the interrupt flag, as the loops of `gens`, `pairs` and `reductions` do. A reduction ends in zero (`Minimal`), at a
pair of the level below that it fills in (`FillsIn`), or, at level two, at a new element of level one
(`FillsInNew`). The order inside a degree set is left open, and compare numbers and polynomials are left out; inputs are
homogeneous and variables have positive degrees, which the algorithm asks for. `reduce` also has a
branch that puts an element of a level above two into level one (`e/res-a1.cpp:794`); `ReductionReady`
shows why it cannot be needed, and it is left out. The comments on preconditions in `gens` and
`pairs` (`:974`, `:1002-1004`) are off by one degree from the calls in `start_computation`; `ReductionReady` states what these calls
establish. A length limit that is refused leaves the other stop conditions changed, as in the code.

## 3. Runs

Passing runs finish with no error; each property has a mutant that breaks it.

| Run | Instance | Shows |
|---|---|---|
| `general` | the interpreter and two tasks, three workers; three rounds of any push, cancel or link, one task calls too | lists, executors, mutexes, the inductive invariant, refinement |
| `depend` | `TS_Test1` of `system/tests.cpp` with three tasks, two workers, a double push, changed thread count, a spurious wakeup; fair | dependencies, no lost wakeup, every scheduled task is done, `waitOn` returns |
| `file_modes` | two threads, brackets nested twice, two a thread; five rules for changes of the mode: three in quiet; in use, two between the modes without an owner, two in which an exclusive file is handed over to the synchronized mode, two to any mode but exclusive, one of any kind; fair | one holder, the count of the owner, only the exclusive owner gets through, `GetState` returns (the mode changing in quiet); no call keeps the mutex (the exclusive mode entered and left in quiet, or handed over); `ReleaseState` does not abort (entered in quiet) |
| `gb_field` | two generators, four pairs, three degrees, each pair may be deferred in both ways once, two calls, one interrupt, five stop conditions | pairs are accounted for, statuses tell the truth |
| `gb_integers` | three pairs over the integers, swaps, syzygies, subring elements; fair | statuses tell the truth, calls return |
| `gb_hilbert` | a Hilbert function, three calls, two interrupts, local order | nothing needed is flushed, done is complete |
| `critical_pairs` | a polynomial ring, a quotient ring, skew variables, two submodules, one of them over a quotient ring; three variables, two to four elements of any lead terms of low exponents, words of two bits | the chain criterion, pairs ahead and not twice, tables |
| `hilbert` | every ideal of exponents up to two in three variables and every square-free one in four, some modules of two components | the numerator is kept, the recursion ends |
| `hash_tables` | two writers for ever, four keys of which three collide, one reader; fair for the reader | the table, comparison, lookups |
| `file_output` | a buffer of two characters, four characters given, two signals, two levels of eval; fair | flags, output, shield, calls and interrupts come to an end |
| `resolution` | four levels, three degrees, two generators, five pairs, two calls, five stop conditions, one interrupt | a level is ready before it is reduced, statuses, nothing taken back |
| `gb_hilbert_again` | a Hilbert function given with both of two calls | expects a violation: see below |

Why the bounds are enough: three workers give one that ends a task, one that starts the same task and one
that sleeps; three tasks a dependency on two, of which one finishes while the other runs. Two
threads of a file are a holder and a waiter, and every wakeup is a broadcast, so that a third one would only
wait as the second does. Two calls with an interrupt reach each place at which a computation can be left and entered again, and three
degrees give one that is complete, one that is being computed and one to come. Four elements are two old ones, one whose pairs with them a new
one makes superfluous, and that new one; with masks of two bits for three variables, two variables share
a bit. Four keys make a table grow from four buckets to eight and shrink again, with a
bucket of three that falls apart. A buffer of two with four characters gives a short write, a full buffer and a line cut off in its
middle; of two signals one may come while the other is answered. Four levels give a resolution
two turns of the loop over levels (three and four), above the one that `start_computation` treats apart (two); five pairs give a pair at each
level and one that cancels against another. Each pair gives rise to one pair at most, which bounds a level and not
what happens to it.
Deadlock is checked in `file_output`, whose thread never stops, and in no other: scripts, calls and bounds end.

One run is about a sentence of the documentation that the code contradicts: `gb_hilbert_again`. When an
interrupted computation that has a Hilbert function is continued with the same command, as
`packages/Macaulay2Doc/groebner.m2:374` says it may be, `set_hilbert_function` overwrites the
state it was left in and elements are never paired. `findings` quotes the sentence.

The models show these other behaviours too, of which no run is kept. They explain why some
properties are stated as they are, and the first four contradict what is said elsewhere:

- `pushTask` returns early for a task that was made ready before it started, and leaves the supervisor's mutex
  locked, so that every later call of the scheduler waits for ever (`system/supervisor.cpp:66`). `schedule1`
  (`d/pthread.d:153-160`) refuses only a task that has started, and `packages/Macaulay2Doc/threads.m2:151` says of a task
  created before that it "is sheduled for execution".
- A task that ends holds its own mutex and takes the supervisor's to start another one (`:368`); a cancellation takes
  them in the other order (`:315-316`): deadlock. `threads.m2:273`: "After task t finishes, task u will be scheduled for execution."
- A cancellation does not wake those who wait for the task (`:322`); `system/tests.cpp:75` waits for a task that others may cancel.
- `waitExclusiveThread` returns with the mutex locked (`system/m2file.cpp:55`) when a file becomes unsynchronized while a
  thread passes `StartOutput`, and when a synchronized file becomes exclusive (`:143`) between the two reads of the mode (`:48`
  finds 1, `:50` finds 2); `m2/last.m2:9` switches modes to "try to avoid deadlocks when running examples".
- `addDependency` on a task that has finished is never satisfied (`system/supervisor.cpp:110`);
  `AllTasksDone` is therefore checked for links made first.
- `waitOn` of a task canceled while it runs may return before the function does (`:190`).
- A task canceled while it runs stays in `m_RunningTasks`, and its `m_CurrentThread` keeps naming the worker (`:361`);
  hence `OneExecutor` speaks of the workers, and `TerminalListsTruthful` of the finished and the canceled list.
- `m_Result` is set before `m_Done`, and for a canceled task without it (`:358`).
- A worker already waiting in `getTask` takes a task after `allowableThreads` was lowered (`:408`).
- The mode of a file may change inside a bracket. `ReleaseState` counts down what was not counted up
  (`system/m2file.cpp:215`), or leaves an owner that nobody frees (`:191`); it aborts (`:213`) when the exclusive mode is
  entered in use. An owner that goes through `StartOutput` between `:133` and `:134` leaves an exclusive count that nobody takes
  down, and a thread that goes to sleep (`:58`) after its test of the mode misses a broadcast made without the mutex
  (`:135`). `OneHolder`, `RecurseCountTruthful`, `GetStateReturns` and `OwnerAlone` therefore speak of callers that change
  the mode, or enter and leave the exclusive one, in quiet; `MapMutexReleased` of those and of a file that is
  handed over from the exclusive to the synchronized mode in use; `NeverAborts` of callers that enter the exclusive mode in quiet.
- Over the integers a swapped pair counts as a generator (`e/gb-default.cpp:1420`), and with a Hilbert function
  flushed generators still count as left (`:2464`): `StopWithMinimalGenerators` stops too early or too late.
  `MinGensKnown` is checked over a field.
- A pair deferred within its degree is not counted in `nelems` again (`:1000`).
- `closeOut` forgets the descriptor when the flush before it failed: it stays open (`d/stdio.d:492`).
- `commonAncestor` marks types by negating `numEntries` without the lock (`d/classes.dd:161`), so that a table may be taken to be
  sparse or full by a thread that stores into it; `HashTables` leaves it out.

### Fairness

`TaskSupervisor!Fairness` is weak fairness for each thread: the operating system runs threads that can run, and a
function that is not `Looping` returns. A thread that waits for a mutex is only overtaken finitely often, as calls
are finitely many, so weak fairness is enough. A spurious wakeup is never required. `M2File!FairSpec` is
weak fairness of a thread inside a call and of closing what it opened (`d/stdio.d` closes every bracket);
opening one is never required. `GBComputation!FairSpec` is weak fairness of the computing thread.
That the loop over degrees ends rests in the model on the bound of pairs, in the algorithm on Dickson's
lemma; what `CallReturns` adds is that no turn of the state machine repeats without using up a pair.
`HashTables!FairSpec` is weak fairness of a lookup that has begun: nothing is asked of the writers, which may
go on for ever. `FileOutput!FairSpec` is weak fairness of the interpreter's thread, which no other one
stops, and strong fairness of the end of the code in a shield: such code is finite in the language's
own uses of `shield`. `Resolution` has no liveness property: the bound on pairs would be all of it.

## 4. Proofs

Eight modules hold theorems, checked by TLAPS for every value of the constants that the `ASSUME`s of the modules allow: any
number of tasks, threads, pairs, levels, signals, characters and keys, any buffer, any hash codes, any script. None of the safety properties is
inductive as it stands. Each component has an inductive invariant, which TLC checked on the instances of the runs before it
was proved; each action has a lemma that says what it keeps of each part, and what several actions share (a list that
grows, a lock that changes hands, a test that finds an interrupt) is a lemma of its own.

**`TaskSupervisorProofs`.**

- `Invariant`: `Spec => []IInv`. That a task is in one list (`EachTaskInOneList`) needs to know that a worker that moves it
  found it in `m_RunningTasks` (`OneExecutor`, `StageOfTask`); that it runs once needs that a queued task was never
  taken (`NotTaken`); that terminal lists are truthful needs that nobody changes the flags of a task while
  a worker ends it, hence `TaskMutexDiscipline`; and `ThreadLabels` ties labels to the calls threads
  are in. `TaskUpdate`, `LinkUpdate`, `StagesKept`, `QueueKept` are what several actions share.
- `TypeCorrect`, `ListsPartition`, `ExecutorsApart`, `ListsTruthful`, `MutexesHeld`: the conjuncts.
- `FunctionOnce`: `Spec => RunOnce`, from `NotTaken` and `StageOfTask`.
- `FinishNeverLost`, `TaskNeverLost`: no wakeup is lost, neither that of a thread that waits for a task nor that of the
  workers. Both rest on `IInv`: a thread asleep found the task not done under the mutex which the worker that ends it
  holds until it broadcasts.
- `Refinement`: `Spec => ImplementsLifecycle`, the scheduler implements `TaskLifecycle`. Beyond `IInv` it
  needs `DoneInOrder`: erased dependencies are done, and a call that starts a task is made on behalf of the task
  its worker ends.
- `DependenciesDoneFirst`: `Spec => DependenciesFirst`.

**`M2FileProofs`**, with no hypothesis beyond the `ASSUME`s: each property names the rule for the callers that it needs.
`FileInvariant` has four parts beside the types. `BracketsInv` relates the place in a call to the nesting of brackets.
`AloneInv`: while thread `t` makes a change of the mode that the callers make in quiet only, all others are idle.
`OwnersInv`, for callers that enter and leave the exclusive mode in quiet, says at which labels threads can be in each mode
and that the owner and the two counts say who has the file (`SettledInv`), or, during such a change, that nobody has it and
what the change has done so far (`SwitchInv`). `OwnStatesInv`, for callers that enter it in quiet: whoever has a state in the
exclusive mode has one of its own. `AlwaysOneAtATime` and `RecurseCountAlwaysTruthful` follow. `LockAlwaysSound` needs
`MutexInv` on top: a thread between the reads at `:48` and `:50` finds the synchronized mode at the second. Where the exclusive
mode changes in quiet, no thread gets to `:48` outside of that mode (`ExclusiveCalls`); where a file is handed over, the
mode is never 0, and it becomes exclusive only when nobody is between the two reads (`HandOverStep`). Of other
disciplines, in many of which `:55` is reached, `MapMutexReleased` claims nothing.

**`GBComputationProofs`.**

- `PairsInvariant`, `PairsAlwaysAccounted`: every pair made is in exactly one list of the set, or done. What keeps it
  is that a degree is begun when the lists of the last are empty, and that `heap` and the lists stay disjoint through
  deferrals, swaps and flushes.
- `StatusInvariant`, `StatusAlwaysTruthful`: `complete_thru_degree` and the states in which a computation stops. What it needs is
  that elements come in the order of their degrees (`gb[k].deg = this_degree` from `first_in_degree` on), that the degree
  before is complete, and that a degree is begun only when all elements are paired (`np_i = n_gb`). The hypothesis
  `HintGivenFirst` is that a Hilbert function is given with the first call or never; `gb_hilbert_again` is the run that
  shows what happens otherwise, and the finding it is listed with.
- `MinGensAlwaysKnown`: over a field (`~OverZZ`; over the integers the flag `MinGensKnown` is about is not used).
- `FlushAlwaysSound`: with a Hilbert function given first and elements without gaps (`MaxGaps = 0`, homogeneous input, the only input
  for which the language gives a hint), flushing leaves out nothing new.

**`FileOutputProofs`**, with no hypothesis beyond the `ASSUME`s. `OutputInvariant` has five parts. `UnwindingInv` and
`OwedInv` say what the flags are while an error passes up, and when an interrupt is still to be answered. `FileInv` and
`CallInv` relate the characters to the place in the call: which call comes next tells whether nets, the character to put
or the buffer hold what is given and not yet written, and that the three in a row are in order. `LossInv` is the heart of
`OutputKept`: what is missing was either told of by an error, or the flags are up and the test that will find them comes
before the operation ends. `ShieldInv` says that no flag is up while code runs in a shield, but for an interrupt that came as
`shieldfun` put the flags back. `FlagsAlwaysTruthful`, `OutputAlwaysKept` and `ShieldAlwaysKeeps` follow.

**`ResolutionProofs`**, with no hypothesis beyond the `ASSUME`s. The comments before `gens` and `pairs` state preconditions
that only the whole history of `start_computation` gives: the invariant says what it is.

- `ResolutionInvariant`: `PositionInv` is where the computation is. `PairInv` gives every pair its place: in a
  sorted degree set above level 1 every S-pair still waits in `next_pair`, and one that is not sorted holds S-pairs only. `GensInv`, `SearchedInv` and
  `HandledInv` say for each level through which degree the generators, `new_pairs` and `handle_pair` are done, at each
  point of the loop over levels in the loop over degrees; `SortedInv`, which degree sets may be sorted by then.
  A resumed call comes back to the same place with another length limit, so the claims about levels are
  bounded by it.
- The proof goes action by action for these claims (`NextCore`): a step only goes forward (`Forward`), it lists pairs
  only where nothing was claimed (`Unclaimed`), and it sorts a degree set only when what comes before is done
  (`SortsRight`). On the way each step is shown to be of one of five kinds (`Kind`): it leaves the lists alone, sorts,
  handles a generator, makes pairs, or reduces one. The counts (`LeftKept`, `CancelKept`), the end (`DoneKept`) and what is settled
  (`KindSettled`) are proved once for each kind.
- `FrameSoundAlways`, `ReductionReadyAlways`, `StatusTruthfulAlways` follow from the invariant.
- `SettledAlways`: `Spec => Settled`, the action property that what a call gave is not taken back.

**`HashTablesProofs`**, with no hypothesis beyond the `ASSUME`s.

- `HashInvariant`: `TableSound` is not inductive, because `enlarge` and `shrink` change all buckets at once in the middle of
  calls. `WriterInv` says what a writer knows between its writes: that its key is still there or still not there, and
  that the entries are exactly at the bound that made it enlarge or shrink; `SizeInv` joins the number
  of entries, with the one in the middle of being stored or removed, to the number of buckets. Lengths are powers of two
  (`IsLength`), hence multiples of 4 and, once longer, of 8, and so the two bounds are met exactly. `ReaderInv` says that the cells before a reader
  that are not gone are those of the table, that no key is twice among them, and that the values of its key have all
  been in the table since the lookup began.
- `Rehashed` is taken apart without an induction: each cell of the old table has a rank among those of its
  new bucket, ranks are a bijection (`PlacesOfCells`), and so every key is once in the new table, with its value, and the
  number of keys stays (`RehashKeeps`).
- `TableAlwaysSound`, `LookupAlwaysTruthful`, `TablesAlwaysComparable` follow. The exception in `FoundAtSomeMoment`,
  `straddled`, is part of what is proved.
- `TableIsAMap`: every step changes what the table holds under one key at most, and growth and shrinking
  change nothing: the table implements a map with single assignments.

**`CriticalPairsProofs`**, with no hypothesis beyond the `ASSUME`s: any number of variables and elements, any weights.

- `CriticalPairsInvariant`: `ElementInv` is what makes every pair come later than its elements, that no element is
  a multiple of an earlier one and that those not yet paired are of the degree at work; it rests on
  the table, `LookupInv`. `PairInv` says that what waits or was taken is a pair of elements that are paired.
- `ChainsAlways`: the code drops pairs while others still wait, so that the two criteria have to be right together, over time. `Chains` is its core, about any graph on monomials: a new element is joined to the others below each lcm, since
  `minimalize_pairs_non_ZZ` keeps for each pair one whose lcm divides it or for which the product criterion holds
  (`MinimalizedIs`); and an edge that `pair_not_needed` drops is replaced by the way through the new
  element, both parts of which have smaller lcms (`GivenUp`), so that a least lcm without a chain,
  least by weight (`WeightMonotone`), cannot be.
- `HeapAlwaysSound`: types, degrees and `NothingTwice`. TLC refuted a first form of `NothingTwice`, that two pairs of one degree that are
  kept do not divide each other: with an element of the ring that has a gap the smaller lcm can come later in the sort, as its type does.
- `TablesAlwaysTruthful`: masks hide no divisor (`MatchesIs`), and `minimalize` is right for any sequence of monomials (`MinimalizeIs`).
- Loops of the code are recursive functions over an interval. What they compute is proved by
  an invariant of the loop, as a set of the numbers of turns for which it holds (`Inducts`, `Iterates`), and sorting by ranks
  (`RanksEnumerate`).

**`HilbertNumeratorProofs`**, with no hypothesis beyond the `ASSUME`s: any number of variables, any weights, any finite sets of
lead monomials.

- `HilbertInvariant`: on the stack are ideals that are finite, not empty, minimally generated and held together by their
  variables (`Good`), with lcms whose degrees fit (`Fitting`), and each level was made from the ideal that the one below it
  is at (`StandsOn`). `RecursionAlwaysSound` follows.
- The parts of `Partition` hang together because `partition_table` is a forest in which fathers are reached in at most as many turns
  as there are variables, and two variables with one root are joined by generators merged before; the loop stops early when one set is left, which
  then has all of them.
- A pivot exists: of three minimal generators or more that hang together one is mixed, so a variable is counted. It is a power of that
  variable that divides a mixed generator and is not that generator; hence no generator divides it (`FitIs`).
- The quotient and the sum are minimally generated, although `iquotient_and_sum` inserts the generators it could divide without
  a look at the others; and each of their parts has fewer mixed generators than the ideal had, or as many and of lower degrees.
- Terms of generators and of pivots stay within the bound on degrees: the lcms of quotient and sum divide that of the ideal, and so
  does the pivot. That products need no greater degrees is part of `NumeratorKept`.

Only model-checked, and why:

- every liveness property and everything about fairness: it is beyond the prover, as is ENABLED;
- `NumeratorKept`: that the parts on the stack add up to the numerator. It is an identity of polynomials cut off at a degree, whose
  coefficients count sets of generators: a proof would need the laws of their sum and product and, for each way in which an ideal is taken
  apart, a bijection between such sets that keeps or turns signs. None of this is about the control of the code, and it is not proved
  here. TLC checks all ideals of the two sizes of the run.

## 5. Not modelled, and the plan

What is next, in this order:

1. `NumeratorKept`, from the identities for one split and for independent parts as hypotheses on the external arithmetic, so that
   only the algebra is left to TLC.
2. The criteria over the integers (`minimalize_pairs_ZZ`), as a second instance of `Chains`.

Not modelled: results, cancellation and finalizers of task cells (`d/pthread.d:182`); the index table of the thread-local
variables, whose check is off by one (`system/supervisor.cpp:159`); the checked arithmetic of
`e/overflow.hpp`; alarms and stepping; the input side of files; the criteria over the integers; the trees of
`e/monideal.cpp`, which are taken as sets of minimal generators; the resolution algorithms of `e/res-a0.cpp` and
`e/res-a2.cpp`; F4 and the other Groebner basis algorithms; the evaluator's frames.

Left out for good: numerical code and algebra over unbounded data, where the control is trivial and
the rest is mathematics; the D compiler, memory dumps and external libraries, which are translators or calls
of the operating system; packages and documentation. These, with the vendored regular expressions and the
rings and matrices, are most of the lines of the repository. `PROJECT.json` gives the reason for each part.
