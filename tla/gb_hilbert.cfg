SPECIFICATION Spec
CONSTANTS
  NGens = 2
  MaxDegree = 3
  MaxPairs = 4
  MaxNewPairs = 1
  MaxWork = 1
  MaxGaps = 0
  MaxCalls = 3
  MaxInterrupts = 2
  StopConditions <- HilbertStops
  HintedCalls = {1}
  OverZZ = FALSE
  CollectSyz = FALSE
  HasSubring = FALSE
  Local = TRUE
  NoLimit = NoLimit
INVARIANTS FlushSound
CHECK_DEADLOCK FALSE
