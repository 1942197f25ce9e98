SPECIFICATION Spec
CONSTANTS
  main = main
  interp = interp
  a = a
  b = b
  c = c
  Tasks = {interp, a, b}
  Clients = {main}
  MaxNumThreads = 3
  InitialAllowedThreads = 3
  Script <- GeneralScript
  Looping = {interp}
  MaxSpurious = 0
  NoThread = NoThread
  NoTask = NoTask
INVARIANTS EachTaskInOneList OneExecutor TerminalListsTruthful TaskMutexDiscipline NoLostTask
PROPERTIES RunOnce ImplementsLifecycle
CHECK_DEADLOCK FALSE
