SPECIFICATION FairSpec
CONSTANTS
  main = main
  interp = interp
  a = a
  b = b
  c = c
  Tasks = {a, b, c}
  Clients = {main}
  MaxNumThreads = 2
  InitialAllowedThreads = 2
  Script <- DependScript
  Looping = {}
  MaxSpurious = 1
  NoThread = NoThread
  NoTask = NoTask
INVARIANTS NoLostFinish
PROPERTIES DependenciesFirst AllTasksDone WaitReturns
CHECK_DEADLOCK FALSE
