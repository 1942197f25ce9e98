SPECIFICATION FairSpec
CONSTANTS
  NGens = 2
  MaxDegree = 2
  MaxPairs = 3
  MaxNewPairs = 1
  MaxWork = 1
  MaxGaps = 0
  MaxCalls = 2
  MaxInterrupts = 1
  StopConditions <- SyzygyStops
  HintedCalls = {}
  OverZZ = TRUE
  CollectSyz = TRUE
  HasSubring = TRUE
  Local = FALSE
  NoLimit = NoLimit
INVARIANTS StatusTruthful
PROPERTIES CallReturns
CHECK_DEADLOCK FALSE
