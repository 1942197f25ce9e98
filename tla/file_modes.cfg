SPECIFICATION FairSpec
CONSTANTS
  p = p
  q = q
  Threads = {p, q}
  InitialMode = 1
  InitialOwner = NoThread
  MaxDepth = 2
  MaxCalls = 2
  Disciplines <- MCDisciplines
  SizeModulus = 8
  NoThread = NoThread
INVARIANTS OneAtATime RecurseCountTruthful LockSound
PROPERTIES GetStateReturns
CHECK_DEADLOCK FALSE
